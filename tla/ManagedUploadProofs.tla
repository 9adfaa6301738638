------------------------ MODULE ManagedUploadProofs ------------------------
(***************************************************************************)
(* Proofs about ManagedUpload for every number of parts, concurrency,      *)
(* number of attempts, file versions and calls.                            *)
(*                                                                         *)
(* The inductive invariant IInv is TypeOK with five further parts:         *)
(*   TaskInv      what the future of a part may be doing, and where;       *)
(*   CountInv     the progress counter and the slots in use;               *)
(*   VersionInv   all bytes read lie between the fingerprint and the file; *)
(*   FirstRunInv  what a session that was never resumed has in store;      *)
(*   SessionInv   what answers and outcomes say of the session at R2.      *)
(* Then the refinement of UploadContract, and progress: ranks of a call    *)
(* and of its parts that only the work on them lowers.                     *)
(***************************************************************************)
EXTENDS ManagedUpload, FiniteSetTheorems, TLAPS

TaskInv ==
    \A p \in Parts :
        /\ task[p] \in {"sending", "sleeping"} => buffer[p] # NoPart
        /\ buffer[p] # NoPart => task[p] \in {"sending", "sleeping"}
        /\ task[p] \in {"reading", "sending", "sleeping"} =>
               pc = "parts" /\ p \in Planned /\ manifest[p] = NoPart
        /\ reply[p] # "none" => task[p] = "sending"
        /\ reply[p] = "ok" /\ upload = "open" => stored[p] # NoPart

CountInv ==
    /\ completed = Cardinality(Held)
    /\ Cardinality(Active) <= Concurrency

\* The steps between the first metadata() and the end of `run`.
Fingerprinted == Running \union {"create"}

\* What `run` asks R2 to complete.
AsksForAll ==
    pc = "complete" =>
        \A p \in Planned : /\ manifest[p] # NoPart
                           /\ p \in reused \/ manifest[p] = fingerprint

VersionInv ==
    /\ fingerprint <= file.version
    /\ pc \in Fingerprinted => fingerprint # NoPart
    /\ \A p \in Parts : buffer[p] # NoPart =>
           fingerprint <= buffer[p] /\ buffer[p] <= file.version
    /\ \A p \in Parts \ reused : manifest[p] # NoPart =>
           fingerprint <= manifest[p] /\ manifest[p] <= file.version
    /\ AsksForAll

OneVersion(m) == \A p \in Planned : m[p] = fingerprint /\ m[p] # NoPart

FirstRunInv ==
    /\ run = 0 => pc = "idle"
    /\ run <= 1 => ~resume
    /\ ~resume => pc # "list" /\ reused = {}
    /\ run = 0 \/ (pc \in {"stat", "create"} /\ ~resume) =>
           upload = "none" /\ strays = {}
    /\ ~resume =>
           /\ \A r \in strays : r.op = "Complete" => OneVersion(r.manifest)
           /\ upload = "completed" => OneVersion(object)

SessionInv ==
    /\ upload # "completed" => object = Empty
    /\ pc \in {"stat", "create", "list", "cleanup"} => manifest = Empty
    /\ pc = "create" => ~resume
    /\ pc = "cleanup" /\ answer = "ok" => upload = "aborted"
    /\ pc = "complete" /\ answer = "ok" => upload = "completed" /\ object = manifest
    /\ pc # "done" => outcome = NoOutcome
    /\ pc = "done" => outcome.result \in {"ok", "error"}
    /\ answer # "none" => pc \in {"complete", "cleanup"}
    /\ outcome.result = "ok" => upload = "completed" /\ object = manifest
    /\ outcome.aborted => outcome.result = "error" /\ upload = "aborted"
    /\ resume => saved
    /\ saved => run > 0
    /\ upload = "open" => \A p \in Held : stored[p] # NoPart
    /\ pc = "done" /\ outcome.result = "error" /\ upload = "open" => saved

IInv == TypeOK /\ TaskInv /\ CountInv /\ VersionInv /\ FirstRunInv /\ SessionInv

----------------------------------------------------------------------------
(* The steps of Next, with the six ways in which `run` fails taken as one *)

Failing == FailRun /\ pc \in Running

CallStep ==
    \/ CallFresh
    \/ CallResume
    \/ StatRejects
    \/ StatSource
    \/ CreateSession
    \/ CreateFails
    \/ ListParts

UploadStep ==
    \/ \E p \in Parts : StartPart(p)
    \/ \E p \in Parts : ReadPart(p)
    \/ \E p \in Parts : HandlePart(p)
    \/ \E p \in Parts : PartUploaded(p)
    \/ \E p \in Parts : PartRetries(p)
    \/ \E p \in Parts : PartWakes(p)

EndStep ==
    \/ SourceUnchanged
    \/ HandleComplete
    \/ CompleteSucceeds
    \/ Failing
    \/ HandleAbort
    \/ AbortSucceeds
    \/ KeepSnapshot

OutsideStep ==
    \/ RewriteFile
    \/ Cancel
    \/ Crash
    \/ LatePart
    \/ LateComplete
    \/ LateAbort

\* Every step of Next belongs to one of the four groups the proofs go through.
LEMMA NextIsStep ==
    ASSUME TypeOK, TaskInv, Next
    PROVE  CallStep \/ UploadStep \/ EndStep \/ OutsideStep
<1>1. ASSUME NEW p \in Parts, ReadFails(p) \/ PartFails(p)
      PROVE  Failing
  BY <1>1 DEF ReadFails, PartFails, Failing, Running, TaskInv
<1>2. ListFails \/ SourceChanged \/ CompleteFails \/ CancelWins => Failing
  BY DEF ListFails, SourceChanged, CompleteFails, CancelWins, Failing, Running
<1> QED
  BY <1>1, <1>2 DEF Next, ClientStep, RemoteStep, EnvironmentStep, PartStep,
     CallStep, UploadStep, EndStep, OutsideStep

\* Whatever is given up on the wire is a request the code sends.
LEMMA UnhandledAreRequests ==
    ASSUME TypeOK, TaskInv
    PROVE  Unhandled \subseteq Requests
<1>1. ASSUME NEW p \in Parts, task[p] = "sending"
      PROVE  buffer[p] \in Versions
  BY <1>1 DEF TypeOK, TaskInv, Manifest, Etags, NoPart
<1> QED
  BY <1>1 DEF Unhandled, Requests, TypeOK

\* The part numbers are a finite set of MaxParts elements.
LEMMA PartsAreFinite ==
    /\ IsFiniteSet(Parts)
    /\ Cardinality(Parts) = MaxParts
BY FS_Interval, MaxPartsAssumption DEF Parts

\* The manifest holds finitely many parts.
LEMMA HeldIsFinite ==
    ASSUME TypeOK
    PROVE  /\ IsFiniteSet(Held)
           /\ Cardinality(Held) \in 0..MaxParts
<1>1. Held \subseteq Parts
  BY DEF Held
<1> QED
  BY <1>1, PartsAreFinite, FS_Subset, FS_CardinalityType, MaxPartsAssumption

----------------------------------------------------------------------------
(* Type correctness *)

\* Initially every variable has its type.
LEMMA TypeInit == Init => TypeOK
<1> SUFFICES ASSUME Init PROVE TypeOK
  OBVIOUS
<1>1. file \in [version : Versions, parts : Parts]
  BY MaxVersionAssumption DEF Init, Versions, Parts
<1>2. Empty \in Manifest
  BY DEF Empty, Manifest, Etags
<1>3. /\ task \in [Parts -> {"waiting", "reading", "sending", "sleeping", "uploaded"}]
      /\ attempt \in [Parts -> 0..MaxAttempts]
      /\ reply \in [Parts -> {"none", "ok", "gone"}]
  BY MaxAttemptsAssumption DEF Init
<1>4. outcome \in Outcomes
  BY DEF Init, Outcomes, NoOutcome
<1>5. run \in 0..MaxRuns /\ plan \in 0..MaxParts /\ completed \in 0..MaxParts
  BY MaxRunsAssumption, MaxPartsAssumption DEF Init
<1> QED
  BY <1>1, <1>2, <1>3, <1>4, <1>5 DEF Init, TypeOK, Etags

\* What DropFutures leaves behind is well typed.
LEMMA DropTypes ==
    ASSUME TypeOK, TaskInv, DropFutures
    PROVE  /\ strays' \subseteq Requests
           /\ task' \in [Parts -> {"waiting", "reading", "sending", "sleeping", "uploaded"}]
           /\ buffer' \in Manifest
           /\ attempt' \in [Parts -> 0..MaxAttempts]
           /\ reply' \in [Parts -> {"none", "ok", "gone"}]
           /\ answer' = "none"
<1>1. strays' \subseteq Requests
  BY UnhandledAreRequests DEF TypeOK, DropFutures
<1> QED
  BY <1>1, MaxAttemptsAssumption DEF DropFutures, Empty, Manifest, Etags

\* The steps up to the start of the uploads keep the type of every variable.
LEMMA TypeCallStep ==
    ASSUME TypeOK, CallStep
    PROVE  TypeOK'
<1>1. ASSUME NEW resuming \in BOOLEAN, StartCall(resuming)
      PROVE  TypeOK'
  <2>1. run' \in 0..MaxRuns /\ completed' \in 0..MaxParts
    BY <1>1, MaxRunsAssumption, MaxPartsAssumption DEF StartCall, TypeOK
  <2>2. outcome' \in Outcomes
    BY <1>1 DEF StartCall, Outcomes, NoOutcome
  <2>3. manifest' \in Manifest
    BY <1>1 DEF StartCall, Empty, Manifest, Etags
  <2> QED
    BY <1>1, <2>1, <2>2, <2>3 DEF StartCall, TypeOK, Etags, sourceVars, remoteVars, partVars
<1>2. CASE CallFresh \/ CallResume
  BY <1>1, <1>2 DEF CallFresh, CallResume
<1>3. CASE StatRejects
  BY <1>3 DEF StatRejects, BeforeStart, Return, TypeOK, Outcomes, sourceVars,
     remoteVars, callVars, jobVars, partVars
<1>4. CASE StatSource
  BY <1>4 DEF StatSource, TypeOK, Etags, Parts, sourceVars, remoteVars, callVars,
     jobVars, partVars, resultVars
<1>5. CASE CreateSession
  BY <1>5 DEF CreateSession, TypeOK, sourceVars, callVars, jobVars, partVars, resultVars
<1>6. CASE CreateFails
  BY <1>6 DEF CreateFails, BeforeStart, Return, TypeOK, Outcomes, sourceVars,
     callVars, jobVars, partVars
<1>7. CASE ListParts
  <2> DEFINE S == {p \in Parts : stored[p] # NoPart}
  <2>1. S \subseteq Parts
    OBVIOUS
  <2>2. Cardinality(S) \in 0..MaxParts
    BY <2>1, PartsAreFinite, FS_Subset, FS_CardinalityType, MaxPartsAssumption
  <2> QED
    BY <1>7, <2>1, <2>2 DEF ListParts, TypeOK, sourceVars, remoteVars, callVars,
       partVars, resultVars
<1> QED
  BY <1>2, <1>3, <1>4, <1>5, <1>6, <1>7 DEF CallStep

\* The steps that upload the parts keep the type of every variable.
LEMMA TypeUploadStep ==
    ASSUME TypeOK, TaskInv, CountInv, UploadStep
    PROVE  TypeOK'
<1> USE DEF TypeOK
<1>1. ASSUME NEW p \in Parts, StartPart(p)
      PROVE  TypeOK'
  BY <1>1 DEF StartPart, sourceVars, remoteVars, callVars, jobVars, resultVars
<1>2. ASSUME NEW p \in Parts, ReadPart(p)
      PROVE  TypeOK'
  BY <1>2, MaxAttemptsAssumption DEF ReadPart, Manifest, Etags, sourceVars, remoteVars,
     callVars, jobVars, resultVars
<1>3. ASSUME NEW p \in Parts, HandlePart(p)
      PROVE  TypeOK'
  BY <1>3 DEF HandlePart, Manifest, sourceVars, callVars, jobVars, resultVars
<1>4. ASSUME NEW p \in Parts, PartUploaded(p)
      PROVE  TypeOK'
  <2>1. manifest' \in Manifest /\ buffer' \in Manifest /\ attempt' \in [Parts -> 0..MaxAttempts]
    BY <1>4, MaxAttemptsAssumption DEF PartUploaded, Manifest, Etags, NoPart
  <2>2. completed' \in 0..MaxParts
    <3>1. p \notin Held /\ Held \subseteq Parts /\ p \in Parts
      BY <1>4 DEF PartUploaded, TaskInv, Held
    <3>2. IsFiniteSet(Held \union {p}) /\ Cardinality(Held \union {p}) = Cardinality(Held) + 1
      BY <3>1, HeldIsFinite, FS_AddElement
    <3>3. Cardinality(Held \union {p}) <= MaxParts
      <4>1. Held \union {p} \in SUBSET Parts
        BY <3>1
      <4> QED
        BY <4>1, PartsAreFinite, FS_Subset
    <3> QED
      BY <1>4, <3>2, <3>3, HeldIsFinite, MaxPartsAssumption DEF PartUploaded, CountInv
  <2> QED
    BY <1>4, <2>1, <2>2 DEF PartUploaded, sourceVars, remoteVars, callVars, jobVars, resultVars
<1>5. ASSUME NEW p \in Parts, PartRetries(p)
      PROVE  TypeOK'
  <2>1. [op |-> "UploadPart", part |-> p, etag |-> buffer[p]] \in Requests
    BY <1>5 DEF PartRetries, TaskInv, Requests, Manifest, Etags, NoPart
  <2>2. strays' \subseteq Requests
    BY <1>5, <2>1 DEF PartRetries
  <2> QED
    BY <1>5, <2>2, MaxAttemptsAssumption DEF PartRetries, sourceVars, remoteVars, callVars,
       jobVars, resultVars
<1>6. ASSUME NEW p \in Parts, PartWakes(p)
      PROVE  TypeOK'
  BY <1>6 DEF PartWakes, sourceVars, remoteVars, callVars, jobVars, resultVars
<1> QED
  BY <1>1, <1>2, <1>3, <1>4, <1>5, <1>6 DEF UploadStep

\* The steps that complete, fail or abort the upload keep the type of every variable.
LEMMA TypeEndStep ==
    ASSUME TypeOK, TaskInv, EndStep
    PROVE  TypeOK'
<1>1. CASE SourceUnchanged
  BY <1>1 DEF SourceUnchanged, TypeOK, sourceVars, remoteVars, callVars, jobVars,
     partVars, resultVars
<1>2. CASE HandleComplete
  BY <1>2 DEF HandleComplete, Publish, TypeOK, sourceVars, callVars, jobVars,
     partVars, resultVars
<1>3. CASE CompleteSucceeds
  BY <1>3 DEF CompleteSucceeds, Return, TypeOK, Outcomes, sourceVars, remoteVars,
     callVars, jobVars, partVars
<1>4. CASE Failing
  BY <1>4, DropTypes, MaxPartsAssumption DEF Failing, FailRun, TypeOK, Empty, Manifest, Etags, sourceVars,
     remoteVars, callVars, jobVars, resultVars
<1>5. CASE HandleAbort
  BY <1>5 DEF HandleAbort, TypeOK, Empty, Manifest, Etags, sourceVars, callVars,
     jobVars, partVars, resultVars
<1>6. CASE AbortSucceeds
  BY <1>6 DEF AbortSucceeds, Return, TypeOK, Outcomes, sourceVars, remoteVars,
     callVars, jobVars, partVars
<1>7. CASE KeepSnapshot
  BY <1>7, DropTypes DEF KeepSnapshot, Return, TypeOK, Outcomes, sourceVars, remoteVars,
     callVars, jobVars
<1> QED
  BY <1>1, <1>2, <1>3, <1>4, <1>5, <1>6, <1>7 DEF EndStep

\* What R2, the file and the application do keeps the type of every variable.
LEMMA TypeOutsideStep ==
    ASSUME TypeOK, TaskInv, OutsideStep
    PROVE  TypeOK'
<1>1. CASE RewriteFile
  BY <1>1, MaxVersionAssumption DEF RewriteFile, TypeOK, Versions, remoteVars, callVars, jobVars, partVars,
     resultVars
<1>2. CASE Cancel
  BY <1>2 DEF Cancel, TypeOK, sourceVars, remoteVars, callVars, jobVars, partVars,
     resultVars
<1>3. CASE Crash
  <2>1. manifest' \in Manifest /\ completed' \in 0..MaxParts
    BY <1>3, MaxPartsAssumption DEF Crash, Empty, Manifest, Etags
  <2>2. DropFutures /\ orphan' \in BOOLEAN
    BY <1>3 DEF Crash, TypeOK
  <2> QED
    BY <1>3, <2>1, <2>2, DropTypes DEF Crash, TypeOK, sourceVars, callVars, jobVars, resultVars
<1>4. CASE LatePart
  BY <1>4 DEF LatePart, TypeOK, Requests, Manifest, Etags, sourceVars, callVars,
     jobVars, partVars, resultVars
<1>5. CASE LateComplete
  BY <1>5 DEF LateComplete, Publish, TypeOK, Requests, sourceVars, callVars, jobVars,
     partVars, resultVars
<1>6. CASE LateAbort
  BY <1>6 DEF LateAbort, TypeOK, Empty, Manifest, Etags, sourceVars, callVars, jobVars,
     partVars, resultVars
<1> QED
  BY <1>1, <1>2, <1>3, <1>4, <1>5, <1>6 DEF OutsideStep

----------------------------------------------------------------------------
(* The futures of the parts *)

\* Initially TaskInv holds.
LEMMA TaskInit == Init => TaskInv
BY DEF Init, TaskInv, Empty, NoPart

\* Dropping the futures leaves nothing for TaskInv to speak of.
LEMMA DroppedTasks ==
    ASSUME DropFutures
    PROVE  TaskInv'
BY DEF DropFutures, TaskInv, Empty, NoPart

\* The steps up to the start of the uploads keep TaskInv.
LEMMA TaskCallStep ==
    ASSUME TypeOK, TaskInv, CallStep
    PROVE  TaskInv'
<1>1. pc # "parts" => \A p \in Parts : task[p] \in {"waiting", "uploaded"}
  BY DEF TypeOK, TaskInv
<1> USE DEF TaskInv, sourceVars, remoteVars, callVars, jobVars, partVars, resultVars
<1>2. CASE CallFresh \/ CallResume
  <2>1. pc # "parts"
    BY <1>2 DEF CallFresh, CallResume
  <2> QED
    BY <1>1, <1>2, <2>1 DEF CallFresh, CallResume, StartCall
<1>3. CASE StatRejects
  BY <1>1, <1>3 DEF StatRejects, BeforeStart, Return
<1>4. CASE StatSource
  BY <1>1, <1>4 DEF StatSource
<1>5. CASE CreateSession
  BY <1>1, <1>5 DEF CreateSession
<1>6. CASE CreateFails
  BY <1>1, <1>6 DEF CreateFails, BeforeStart, Return
<1>7. CASE ListParts
  BY <1>1, <1>7 DEF ListParts
<1> QED
  BY <1>2, <1>3, <1>4, <1>5, <1>6, <1>7 DEF CallStep

\* The steps that upload the parts keep TaskInv.
LEMMA TaskUploadStep ==
    ASSUME TypeOK, TaskInv, UploadStep
    PROVE  TaskInv'
<1> USE DEF TypeOK, TaskInv, Manifest, Planned, sourceVars, remoteVars, callVars, jobVars,
            resultVars
<1>1. ASSUME NEW p \in Parts, StartPart(p)
      PROVE  TaskInv'
  BY <1>1 DEF StartPart, Held
<1>2. ASSUME NEW p \in Parts, ReadPart(p)
      PROVE  TaskInv'
  <2>1. file.version # NoPart
    BY DEF Versions, NoPart
  <2> QED
    BY <1>2, <2>1 DEF ReadPart
<1>3. ASSUME NEW p \in Parts, HandlePart(p)
      PROVE  TaskInv'
  BY <1>3 DEF HandlePart
<1>4. ASSUME NEW p \in Parts, PartUploaded(p)
      PROVE  TaskInv'
  BY <1>4 DEF PartUploaded
<1>5. ASSUME NEW p \in Parts, PartRetries(p)
      PROVE  TaskInv'
  BY <1>5 DEF PartRetries
<1>6. ASSUME NEW p \in Parts, PartWakes(p)
      PROVE  TaskInv'
  BY <1>6 DEF PartWakes
<1> QED
  BY <1>1, <1>2, <1>3, <1>4, <1>5, <1>6 DEF UploadStep

\* The steps that complete, fail or abort the upload keep TaskInv.
LEMMA TaskEndStep ==
    ASSUME TypeOK, TaskInv, EndStep
    PROVE  TaskInv'
<1>1. pc # "parts" => \A p \in Parts : task[p] \in {"waiting", "uploaded"}
  BY DEF TypeOK, TaskInv
<1> USE DEF TaskInv, sourceVars, remoteVars, callVars, jobVars, partVars, resultVars
<1>2. CASE SourceUnchanged
  BY <1>2 DEF SourceUnchanged, Held, Planned
<1>3. CASE HandleComplete
  BY <1>1, <1>3 DEF HandleComplete, Publish
<1>4. CASE CompleteSucceeds
  BY <1>1, <1>4 DEF CompleteSucceeds, Return
<1>5. CASE Failing \/ KeepSnapshot
  BY <1>5, DroppedTasks DEF Failing, FailRun, KeepSnapshot
<1>6. CASE HandleAbort
  BY <1>1, <1>6 DEF HandleAbort
<1>7. CASE AbortSucceeds
  BY <1>1, <1>7 DEF AbortSucceeds, Return
<1> QED
  BY <1>2, <1>3, <1>4, <1>5, <1>6, <1>7 DEF EndStep

\* What R2, the file and the application do keeps TaskInv.
LEMMA TaskOutsideStep ==
    ASSUME TypeOK, TaskInv, OutsideStep
    PROVE  TaskInv'
<1> USE DEF TaskInv, Planned, sourceVars, remoteVars, callVars, jobVars, partVars, resultVars
<1>1. CASE RewriteFile
  BY <1>1 DEF RewriteFile
<1>2. CASE Cancel
  BY <1>2 DEF Cancel
<1>3. CASE Crash
  BY <1>3, DroppedTasks DEF Crash
<1>4. CASE LatePart
  <2>1. \A r \in strays : r.op = "UploadPart" => r.part \in Parts /\ r.etag # NoPart
    BY DEF TypeOK, Requests, Versions, NoPart
  <2> QED
    BY <1>4, <2>1 DEF LatePart, TypeOK, Manifest
<1>5. CASE LateComplete
  BY <1>5 DEF LateComplete, Publish
<1>6. CASE LateAbort
  BY <1>6 DEF LateAbort
<1> QED
  BY <1>1, <1>2, <1>3, <1>4, <1>5, <1>6 DEF OutsideStep

----------------------------------------------------------------------------
(* The progress counter and the slots of buffer_unordered *)

\* Initially CountInv holds.
LEMMA CountInit == Init => CountInv
<1>1. Init => Held = {} /\ Active = {}
  BY DEF Init, Held, Active, Empty, NoPart
<1> QED
  BY <1>1, FS_EmptySet, ConcurrencyAssumption DEF Init, CountInv

\* Finitely many futures are active.
LEMMA ActiveIsFinite ==
    /\ IsFiniteSet(Active)
    /\ Cardinality(Active) \in Nat
<1>1. Active \subseteq Parts
  BY DEF Active
<1> QED
  BY <1>1, PartsAreFinite, FS_Subset, FS_CardinalityType

\* With no part held and none started, the counter of a run that begins is 0.
LEMMA NothingCounted ==
    ASSUME manifest' = Empty, completed' = 0, Active' = {}
    PROVE  CountInv'
<1>1. Held' = {}
  BY DEF Held, Empty, NoPart
<1> QED
  BY <1>1, FS_EmptySet, ConcurrencyAssumption DEF CountInv

\* A step that leaves the manifest, the counter and the set of slots alone.
LEMMA NothingMoves ==
    ASSUME CountInv, manifest' = manifest, completed' = completed, Active' = Active
    PROVE  CountInv'
BY DEF CountInv, Held

\* The steps up to the start of the uploads keep CountInv.
LEMMA CountCallStep ==
    ASSUME TypeOK, TaskInv, CountInv, CallStep
    PROVE  CountInv'
<1>1. task' = task /\ pc # "parts"
  <2>1. CASE CallFresh \/ CallResume
    BY <2>1 DEF CallFresh, CallResume, StartCall, partVars
  <2>2. CASE StatRejects \/ StatSource
    BY <2>2 DEF StatRejects, StatSource, partVars
  <2>3. CASE CreateSession \/ CreateFails \/ ListParts
    BY <2>3 DEF CreateSession, CreateFails, ListParts, partVars
  <2> QED
    BY <2>1, <2>2, <2>3 DEF CallStep
<1>2. Active = {} /\ Active' = {}
  BY <1>1 DEF Active, TaskInv
<1>3. CASE CallFresh \/ CallResume
  BY <1>2, <1>3, NothingCounted DEF CallFresh, CallResume, StartCall
<1>4. CASE ListParts
  <2>1. Held' = reused'
    BY <1>4 DEF ListParts, Held
  <2> QED
    BY <1>2, <1>4, <2>1, FS_EmptySet, ConcurrencyAssumption DEF ListParts, CountInv
<1>5. CASE StatRejects \/ StatSource \/ CreateSession \/ CreateFails
  BY <1>2, <1>5, NothingMoves DEF StatRejects, StatSource, CreateSession, CreateFails
<1> QED
  BY <1>3, <1>4, <1>5 DEF CallStep

\* The steps that upload the parts keep CountInv.
LEMMA CountUploadStep ==
    ASSUME TypeOK, TaskInv, CountInv, UploadStep
    PROVE  CountInv'
<1>1. ASSUME NEW p \in Parts, StartPart(p)
      PROVE  CountInv'
  <2>1. Active' = Active \union {p} /\ p \notin Active
    BY <1>1 DEF StartPart, Active, TypeOK
  <2>2. Cardinality(Active') <= Concurrency
    <3>1. Cardinality(Active') = Cardinality(Active) + 1
      BY <2>1, ActiveIsFinite, FS_AddElement
    <3> QED
      BY <1>1, <3>1, ActiveIsFinite, ConcurrencyAssumption DEF StartPart
  <2> QED
    BY <1>1, <2>2 DEF StartPart, CountInv, Held
<1>2. ASSUME NEW p \in Parts, ReadPart(p) \/ PartRetries(p) \/ PartWakes(p)
      PROVE  CountInv'
  <2>1. Active' = Active
    BY <1>2 DEF ReadPart, PartRetries, PartWakes, Active, TypeOK
  <2> QED
    BY <1>2, <2>1, NothingMoves DEF ReadPart, PartRetries, PartWakes
<1>3. ASSUME NEW p \in Parts, HandlePart(p)
      PROVE  CountInv'
  BY <1>3, NothingMoves DEF HandlePart, Active
<1>4. ASSUME NEW p \in Parts, PartUploaded(p)
      PROVE  CountInv'
  <2>1. Held' = Held \union {p} /\ p \notin Held
    BY <1>4 DEF PartUploaded, Held, TypeOK, TaskInv, Manifest
  <2>2. Active' \subseteq Active
    BY <1>4 DEF PartUploaded, Active, TypeOK
  <2>3. Cardinality(Active') <= Concurrency
    <3>1. Cardinality(Active') <= Cardinality(Active)
      BY <2>2, ActiveIsFinite, FS_Subset
    <3>2. Cardinality(Active') \in Nat
      BY <2>2, ActiveIsFinite, FS_Subset, FS_CardinalityType
    <3> QED
      BY <3>1, <3>2, ActiveIsFinite, ConcurrencyAssumption DEF CountInv
  <2>4. Cardinality(Held') = Cardinality(Held) + 1
    BY <2>1, HeldIsFinite, FS_AddElement
  <2> QED
    BY <1>4, <2>3, <2>4 DEF PartUploaded, CountInv
<1> QED
  BY <1>1, <1>2, <1>3, <1>4 DEF UploadStep

\* The steps that complete, fail or abort the upload keep CountInv.
LEMMA CountEndStep ==
    ASSUME TypeOK, TaskInv, CountInv, EndStep
    PROVE  CountInv'
<1>1. CASE SourceUnchanged \/ HandleComplete \/ CompleteSucceeds \/ HandleAbort \/ AbortSucceeds
  BY <1>1, NothingMoves DEF SourceUnchanged, HandleComplete, CompleteSucceeds, HandleAbort,
     AbortSucceeds, Active, partVars
<1>2. CASE Failing
  BY <1>2, NothingCounted DEF Failing, FailRun, DropFutures, Active
<1>3. CASE KeepSnapshot
  <2>1. Active = {} /\ Active' = {}
    BY <1>3 DEF KeepSnapshot, DropFutures, Active, TaskInv
  <2> QED
    BY <1>3, <2>1, NothingMoves DEF KeepSnapshot
<1> QED
  BY <1>1, <1>2, <1>3 DEF EndStep

\* What R2, the file and the application do keeps CountInv.
LEMMA CountOutsideStep ==
    ASSUME TypeOK, TaskInv, CountInv, OutsideStep
    PROVE  CountInv'
<1>1. CASE Crash
  BY <1>1, NothingCounted DEF Crash, DropFutures, Active
<1>2. CASE RewriteFile \/ Cancel \/ LatePart \/ LateComplete \/ LateAbort
  BY <1>2, NothingMoves DEF RewriteFile, Cancel, LatePart, LateComplete, LateAbort, Active,
     partVars
<1> QED
  BY <1>1, <1>2 DEF OutsideStep

----------------------------------------------------------------------------
(* The versions of the bytes that were read *)

\* Initially VersionInv holds.
LEMMA VersionInit == Init => VersionInv
BY DEF Init, VersionInv, AsksForAll, Empty, NoPart, Fingerprinted, Running, Versions

\* A step that only moves pc, and not into `run`.
LEMMA VersionsStay ==
    ASSUME TypeOK, VersionInv,
           UNCHANGED <<file, fingerprint, buffer, manifest, reused, plan>>,
           pc' = pc \/ pc' \notin Fingerprinted \/ (pc \in Fingerprinted /\ pc' # "complete")
    PROVE  VersionInv'
BY DEF VersionInv, AsksForAll, Planned, Fingerprinted, Running

\* With nothing read, every fingerprint of a version so far will do.
LEMMA NoVersions ==
    ASSUME TypeOK, buffer' = Empty, manifest' = Empty, fingerprint' <= file'.version,
           pc' # "complete", pc' \in Fingerprinted => fingerprint' # NoPart
    PROVE  VersionInv'
BY DEF VersionInv, AsksForAll, Empty, NoPart

\* DropFutures leaves no buffer behind.
LEMMA NoBuffers ==
    ASSUME TypeOK, TaskInv, pc # "parts"
    PROVE  buffer = Empty
<1>1. \A p \in Parts : buffer[p] = NoPart
  BY DEF TaskInv
<1> QED
  BY <1>1 DEF TypeOK, Manifest, Empty

\* The steps up to the start of the uploads keep VersionInv.
LEMMA VersionCallStep ==
    ASSUME IInv, CallStep
    PROVE  VersionInv'
<1> USE DEF IInv
<1>1. pc # "parts" => buffer = Empty
  BY NoBuffers
<1>2. CASE CallFresh \/ CallResume
  <2>1. buffer' = Empty /\ file' = file
    BY <1>1, <1>2 DEF CallFresh, CallResume, StartCall, partVars, sourceVars
  <2>2. fingerprint' <= file.version
    BY <1>2 DEF CallFresh, CallResume, StartCall, TypeOK, Versions, NoPart
  <2> QED
    BY <1>2, <2>1, <2>2, NoVersions DEF CallFresh, CallResume, StartCall, Fingerprinted, Running
<1>3. CASE StatSource
  <2>1. buffer' = Empty /\ manifest' = Empty
    BY <1>1, <1>3 DEF StatSource, partVars, SessionInv
  <2>2. fingerprint' <= file'.version /\ fingerprint' # NoPart
    BY <1>3 DEF StatSource, TypeOK, Versions, NoPart, sourceVars
  <2> QED
    BY <1>3, <2>1, <2>2, NoVersions DEF StatSource, Fingerprinted, Running
<1>4. CASE CreateSession
  <2>1. buffer' = Empty /\ manifest' = Empty
    BY <1>1, <1>4 DEF CreateSession, partVars, SessionInv
  <2> QED
    BY <1>4, <2>1, NoVersions DEF CreateSession, VersionInv, Fingerprinted, Running, sourceVars, jobVars
<1>5. CASE StatRejects \/ CreateFails
  BY <1>5, VersionsStay DEF StatRejects, CreateFails, BeforeStart, Return, Fingerprinted, Running,
     sourceVars, jobVars, partVars
<1>6. CASE ListParts
  <2>1. buffer' = Empty /\ pc \in Fingerprinted
    BY <1>1, <1>6 DEF ListParts, partVars, Fingerprinted, Running
  <2> QED
    BY <1>6, <2>1 DEF ListParts, VersionInv, AsksForAll, Empty, NoPart, sourceVars
<1> QED
  BY <1>2, <1>3, <1>4, <1>5, <1>6 DEF CallStep

\* The steps that upload the parts keep VersionInv.
LEMMA VersionUploadStep ==
    ASSUME IInv, UploadStep
    PROVE  VersionInv'
<1> USE DEF IInv
<1>1. ASSUME NEW p \in Parts, StartPart(p) \/ HandlePart(p) \/ PartRetries(p) \/ PartWakes(p)
      PROVE  VersionInv'
  BY <1>1, VersionsStay DEF StartPart, HandlePart, PartRetries, PartWakes, sourceVars,
     jobVars
<1>2. ASSUME NEW p \in Parts, ReadPart(p)
      PROVE  VersionInv'
  <2>1. pc = "parts" /\ pc' = pc /\ file.version \in Nat
    BY <1>2 DEF ReadPart, TaskInv, TypeOK, Versions
  <2>2. \A q \in Parts : buffer'[q] = IF q = p THEN file.version ELSE buffer[q]
    BY <1>2 DEF ReadPart, TypeOK, Manifest
  <2>3. \A q \in Parts : buffer'[q] # NoPart =>
            fingerprint <= buffer'[q] /\ buffer'[q] <= file.version
    BY <2>1, <2>2 DEF VersionInv
  <2> QED
    BY <1>2, <2>1, <2>3 DEF ReadPart, VersionInv, AsksForAll, sourceVars, jobVars
<1>3. ASSUME NEW p \in Parts, PartUploaded(p)
      PROVE  VersionInv'
  <2>1. pc = "parts" /\ pc' = pc
    BY <1>3 DEF PartUploaded, TaskInv
  <2> QED
    BY <1>3, <2>1 DEF PartUploaded, VersionInv, AsksForAll, TypeOK, Manifest,
       sourceVars, jobVars
<1> QED
  BY <1>1, <1>2, <1>3 DEF UploadStep

\* The steps that complete, fail or abort the upload keep VersionInv.
LEMMA VersionEndStep ==
    ASSUME IInv, EndStep
    PROVE  VersionInv'
<1> USE DEF IInv
<1>1. CASE SourceUnchanged
  <2>1. \A p \in Planned : p \in Parts /\ manifest[p] # NoPart
    BY <1>1 DEF SourceUnchanged, Held
  <2>2. \A p \in Planned : p \in reused \/ manifest[p] = fingerprint
    BY <1>1, <2>1 DEF SourceUnchanged, VersionInv, TypeOK, Manifest, Etags, Versions, NoPart
  <2> QED
    BY <1>1, <2>1, <2>2 DEF SourceUnchanged, VersionInv, AsksForAll, Planned, Fingerprinted, Running,
       sourceVars, jobVars, partVars
<1>2. CASE HandleComplete \/ HandleAbort
  BY <1>2, VersionsStay DEF HandleComplete, HandleAbort, sourceVars, jobVars, partVars
<1>3. CASE CompleteSucceeds \/ AbortSucceeds
  BY <1>3, VersionsStay DEF CompleteSucceeds, AbortSucceeds, Return, Fingerprinted, Running, sourceVars,
     jobVars, partVars
<1>4. CASE Failing
  BY <1>4, NoVersions DEF Failing, FailRun, DropFutures, Fingerprinted, Running, VersionInv, sourceVars,
     jobVars
<1>5. CASE KeepSnapshot
  <2>1. buffer' = Empty /\ manifest' = Empty
    BY <1>5 DEF KeepSnapshot, DropFutures, SessionInv
  <2> QED
    BY <1>5, <2>1, NoVersions DEF KeepSnapshot, Return, Fingerprinted, Running, VersionInv, sourceVars,
       jobVars
<1> QED
  BY <1>1, <1>2, <1>3, <1>4, <1>5 DEF EndStep

\* What R2, the file and the application do keeps VersionInv.
LEMMA VersionOutsideStep ==
    ASSUME IInv, OutsideStep
    PROVE  VersionInv'
<1> USE DEF IInv
<1>1. CASE RewriteFile
  <2>1. file.version \in Nat /\ file'.version = file.version + 1
    BY <1>1 DEF RewriteFile, TypeOK, Versions
  <2>2. fingerprint \in Nat /\ \A p \in Parts : buffer[p] \in Nat /\ manifest[p] \in Nat
    BY DEF TypeOK, Manifest, Etags, Versions, NoPart
  <2> QED
    BY <1>1, <2>1, <2>2 DEF RewriteFile, VersionInv, AsksForAll, Planned, jobVars,
       partVars
<1>2. CASE Crash
  BY <1>2, NoVersions DEF Crash, DropFutures, Fingerprinted, Running, VersionInv, sourceVars, jobVars
<1>3. CASE Cancel \/ LatePart \/ LateComplete \/ LateAbort
  BY <1>3, VersionsStay DEF Cancel, LatePart, LateComplete, LateAbort, sourceVars, jobVars,
     partVars
<1> QED
  BY <1>1, <1>2, <1>3 DEF OutsideStep

----------------------------------------------------------------------------
(* A session that was never resumed *)

\* Initially FirstRunInv holds.
LEMMA FirstRunInit == Init => FirstRunInv
BY DEF Init, FirstRunInv

\* A first call that asks for completion names parts of one version only.
LEMMA CompletionIsOneVersion ==
    ASSUME IInv, ~resume, pc = "complete"
    PROVE  OneVersion(manifest)
BY DEF IInv, VersionInv, AsksForAll, FirstRunInv, OneVersion

\* So does the request for completion that it gives up on the wire.
LEMMA UnhandledAreOneVersion ==
    ASSUME IInv, ~resume
    PROVE  \A r \in Unhandled : r.op = "Complete" => OneVersion(r.manifest)
BY CompletionIsOneVersion DEF Unhandled

\* The steps up to the start of the uploads keep FirstRunInv.
LEMMA FirstRunCallStep ==
    ASSUME IInv, CallStep
    PROVE  FirstRunInv'
<1> USE DEF IInv, FirstRunInv, OneVersion, Planned
<1>1. run \in Nat
  BY MaxRunsAssumption DEF TypeOK
<1>2. CASE CallFresh
  BY <1>1, <1>2 DEF CallFresh, StartCall, remoteVars
<1>3. CASE CallResume
  BY <1>1, <1>3 DEF CallResume, StartCall, SessionInv
<1>4. CASE StatRejects
  BY <1>4 DEF StatRejects, BeforeStart, Return, remoteVars, callVars, jobVars
<1>5. CASE StatSource
  BY <1>5 DEF StatSource, remoteVars, callVars
<1>6. CASE CreateSession
  BY <1>6 DEF CreateSession, callVars, jobVars
<1>7. CASE CreateFails
  BY <1>7 DEF CreateFails, BeforeStart, Return, callVars, jobVars
<1>8. CASE ListParts
  BY <1>8 DEF ListParts, remoteVars, callVars
<1> QED
  BY <1>2, <1>3, <1>4, <1>5, <1>6, <1>7, <1>8 DEF CallStep

\* The steps that upload the parts keep FirstRunInv.
LEMMA FirstRunUploadStep ==
    ASSUME IInv, UploadStep
    PROVE  FirstRunInv'
<1> USE DEF IInv, FirstRunInv, OneVersion, Planned, remoteVars, callVars, jobVars
<1>1. ASSUME NEW p \in Parts, StartPart(p) \/ ReadPart(p) \/ PartUploaded(p) \/ PartWakes(p)
      PROVE  FirstRunInv'
  BY <1>1 DEF StartPart, ReadPart, PartUploaded, PartWakes
<1>2. ASSUME NEW p \in Parts, HandlePart(p)
      PROVE  FirstRunInv'
  BY <1>2 DEF HandlePart
<1>3. ASSUME NEW p \in Parts, PartRetries(p)
      PROVE  FirstRunInv'
  <2>1. pc = "parts"
    BY <1>3 DEF PartRetries, TaskInv
  <2>2. \A r \in strays' : r.op = "Complete" => r \in strays
    BY <1>3 DEF PartRetries
  <2> QED
    BY <1>3, <2>1, <2>2 DEF PartRetries
<1> QED
  BY <1>1, <1>2, <1>3 DEF UploadStep

\* The steps that complete, fail or abort the upload keep FirstRunInv.
LEMMA FirstRunEndStep ==
    ASSUME IInv, EndStep
    PROVE  FirstRunInv'
<1>1. run # 0 \/ pc = "idle"
  BY DEF IInv, FirstRunInv
<1>2. CASE SourceUnchanged
  BY <1>1, <1>2 DEF IInv, FirstRunInv, OneVersion, Planned, SourceUnchanged, remoteVars,
     callVars, jobVars
<1>3. CASE HandleComplete
  <2>1. ~resume => OneVersion(manifest)
    BY <1>3, CompletionIsOneVersion DEF HandleComplete
  <2> QED
    BY <1>1, <1>3, <2>1 DEF IInv, FirstRunInv, OneVersion, Planned, HandleComplete, Publish,
       callVars, jobVars
<1>4. CASE CompleteSucceeds \/ AbortSucceeds
  BY <1>1, <1>4 DEF IInv, FirstRunInv, OneVersion, Planned, CompleteSucceeds, AbortSucceeds,
     Return, remoteVars, callVars, jobVars
<1>5. CASE Failing \/ KeepSnapshot
  <2>1. strays' = strays \union Unhandled /\ pc' \in {"cleanup", "done"} /\ run # 0
    BY <1>1, <1>5 DEF Failing, FailRun, KeepSnapshot, DropFutures, Return, Running
  <2>2. UNCHANGED <<upload, object, run, resume, plan, fingerprint, reused>>
    BY <1>5 DEF Failing, FailRun, KeepSnapshot, remoteVars, callVars, jobVars
  <2> QED
    BY <2>1, <2>2, UnhandledAreOneVersion DEF IInv, FirstRunInv, OneVersion, Planned
<1>6. CASE HandleAbort
  BY <1>1, <1>6 DEF IInv, FirstRunInv, OneVersion, Planned, HandleAbort, callVars, jobVars
<1> QED
  BY <1>2, <1>3, <1>4, <1>5, <1>6 DEF EndStep

\* What R2, the file and the application do keeps FirstRunInv.
LEMMA FirstRunOutsideStep ==
    ASSUME IInv, OutsideStep
    PROVE  FirstRunInv'
<1>1. CASE RewriteFile \/ Cancel
  BY <1>1 DEF IInv, FirstRunInv, OneVersion, Planned, RewriteFile, Cancel, remoteVars,
     callVars, jobVars
<1>2. CASE Crash
  <2>1. strays' = strays \union Unhandled /\ pc' = "idle" /\ run # 0
    BY <1>2 DEF Crash, DropFutures, IInv, FirstRunInv
  <2>2. UNCHANGED <<upload, object, run, resume, plan, fingerprint, reused>>
    BY <1>2 DEF Crash, callVars, jobVars
  <2> QED
    BY <2>1, <2>2, UnhandledAreOneVersion DEF IInv, FirstRunInv, OneVersion, Planned
<1>3. CASE LatePart
  BY <1>3 DEF IInv, FirstRunInv, OneVersion, Planned, LatePart, callVars, jobVars
<1>4. CASE LateComplete
  BY <1>4 DEF IInv, FirstRunInv, OneVersion, Planned, LateComplete, Publish, callVars, jobVars
<1>5. CASE LateAbort
  BY <1>5 DEF IInv, FirstRunInv, OneVersion, Planned, LateAbort, callVars, jobVars
<1> QED
  BY <1>1, <1>2, <1>3, <1>4, <1>5 DEF OutsideStep

----------------------------------------------------------------------------
(* Answers, outcomes and the session at R2 *)

\* Initially SessionInv holds.
LEMMA SessionInit == Init => SessionInv
BY DEF Init, SessionInv, NoOutcome, Held, Empty, NoPart

\* The steps up to the start of the uploads keep SessionInv.
LEMMA SessionCallStep ==
    ASSUME IInv, CallStep
    PROVE  SessionInv'
<1> USE DEF IInv, SessionInv, Held
<1>1. CASE CallFresh
  BY <1>1, MaxRunsAssumption DEF CallFresh, StartCall, FirstRunInv, NoOutcome, Empty, NoPart, remoteVars
<1>2. CASE CallResume
  BY <1>2, MaxRunsAssumption DEF CallResume, StartCall, TypeOK, NoOutcome, Empty, NoPart, remoteVars
<1>3. CASE StatRejects
  BY <1>3 DEF StatRejects, BeforeStart, Return, FirstRunInv, TypeOK, remoteVars, callVars
<1>4. CASE StatSource
  BY <1>4 DEF StatSource, remoteVars, callVars, resultVars
<1>5. CASE CreateSession
  BY <1>5 DEF CreateSession, FirstRunInv, NoOutcome, Empty, NoPart, callVars, resultVars
<1>6. CASE CreateFails
  BY <1>6 DEF CreateFails, BeforeStart, Return, FirstRunInv, TypeOK, callVars
<1>7. CASE ListParts
  BY <1>7 DEF ListParts, NoOutcome, remoteVars, callVars, resultVars
<1> QED
  BY <1>1, <1>2, <1>3, <1>4, <1>5, <1>6, <1>7 DEF CallStep

\* The steps that upload the parts keep SessionInv.
LEMMA SessionUploadStep ==
    ASSUME IInv, UploadStep
    PROVE  SessionInv'
<1> USE DEF IInv, SessionInv, Held, remoteVars, callVars, jobVars, resultVars
<1>1. ASSUME NEW p \in Parts, StartPart(p) \/ ReadPart(p) \/ PartRetries(p) \/ PartWakes(p)
      PROVE  SessionInv'
  BY <1>1 DEF StartPart, ReadPart, PartRetries, PartWakes
<1>2. ASSUME NEW p \in Parts, HandlePart(p)
      PROVE  SessionInv'
  <2>1. \A q \in Parts : stored[q] # NoPart => stored'[q] # NoPart
    BY <1>2 DEF HandlePart, TypeOK, TaskInv, Manifest
  <2> QED
    BY <1>2, <2>1 DEF HandlePart
<1>3. ASSUME NEW p \in Parts, PartUploaded(p)
      PROVE  SessionInv'
  <2>1. pc = "parts" /\ pc' = "parts"
    BY <1>3 DEF PartUploaded, TaskInv
  <2>2. upload = "open" => \A q \in Held' : stored[q] # NoPart
    BY <1>3 DEF PartUploaded, TypeOK, TaskInv, Manifest
  <2> QED
    BY <1>3, <2>1, <2>2 DEF PartUploaded, NoOutcome
<1> QED
  BY <1>1, <1>2, <1>3 DEF UploadStep

\* The steps that complete, fail or abort the upload keep SessionInv.
LEMMA SessionEndStep ==
    ASSUME IInv, EndStep
    PROVE  SessionInv'
<1> USE DEF IInv, SessionInv, Held, NoOutcome
<1>1. CASE SourceUnchanged
  BY <1>1 DEF SourceUnchanged, remoteVars, callVars, resultVars
<1>2. CASE HandleComplete
  BY <1>2 DEF HandleComplete, Publish, Accepts, callVars, resultVars
<1>3. CASE CompleteSucceeds
  BY <1>3 DEF CompleteSucceeds, Return, remoteVars, callVars
<1>4. CASE Failing
  BY <1>4 DEF Failing, FailRun, DropFutures, Running, Empty, NoPart, remoteVars, callVars,
     resultVars
<1>5. CASE HandleAbort
  BY <1>5 DEF HandleAbort, callVars, resultVars
<1>6. CASE AbortSucceeds
  BY <1>6 DEF AbortSucceeds, Return, remoteVars, callVars
<1>7. CASE KeepSnapshot
  <2>1. saved'
    BY <1>7 DEF KeepSnapshot, Return
  <2>2. run > 0
    BY <1>7, MaxRunsAssumption DEF KeepSnapshot, FirstRunInv, TypeOK
  <2>3. outcome' = [result |-> "error", snapshot |-> TRUE, aborted |-> FALSE]
    BY <1>7 DEF KeepSnapshot, Return
  <2> QED
    BY <1>7, <2>1, <2>2, <2>3 DEF KeepSnapshot, Return, DropFutures, Empty, NoPart, remoteVars,
       callVars
<1> QED
  BY <1>1, <1>2, <1>3, <1>4, <1>5, <1>6, <1>7 DEF EndStep

\* What R2, the file and the application do keeps SessionInv.
LEMMA SessionOutsideStep ==
    ASSUME IInv, OutsideStep
    PROVE  SessionInv'
<1> USE DEF IInv, SessionInv, Held, NoOutcome
<1>1. CASE RewriteFile \/ Cancel
  BY <1>1 DEF RewriteFile, Cancel, remoteVars, callVars, resultVars
<1>2. CASE Crash
  BY <1>2 DEF Crash, DropFutures, Empty, NoPart, callVars, resultVars
<1>3. CASE LatePart
  <2>1. \A q \in Parts : stored[q] # NoPart => stored'[q] # NoPart
    BY <1>3 DEF LatePart, TypeOK, Manifest, Requests, Versions, NoPart
  <2> QED
    BY <1>3, <2>1 DEF LatePart, callVars, resultVars
<1>4. CASE LateComplete
  BY <1>4 DEF LateComplete, Publish, Accepts, callVars, resultVars
<1>5. CASE LateAbort
  BY <1>5 DEF LateAbort, callVars, resultVars
<1> QED
  BY <1>1, <1>2, <1>3, <1>4, <1>5 DEF OutsideStep

----------------------------------------------------------------------------
(* The inductive invariant and what follows from it *)

\* The inductive invariant holds when no call was made yet.
LEMMA InvInit == Init => IInv
BY TypeInit, TaskInit, CountInit, VersionInit, FirstRunInit, SessionInit DEF IInv

\* A step that changes no variable keeps the inductive invariant.
LEMMA InvStutters ==
    ASSUME IInv, UNCHANGED vars
    PROVE  IInv'
<1> USE DEF vars, sourceVars, remoteVars, callVars, jobVars, partVars, resultVars
<1>1. TypeOK' /\ TaskInv'
  BY DEF IInv, TypeOK, TaskInv, Planned
<1>2. CountInv' /\ VersionInv'
  BY DEF IInv, CountInv, VersionInv, AsksForAll, Held, Active, Planned
<1>3. FirstRunInv' /\ SessionInv'
  BY DEF IInv, FirstRunInv, SessionInv, OneVersion, Held, Planned
<1> QED
  BY <1>1, <1>2, <1>3 DEF IInv

\* Every step keeps the inductive invariant.
LEMMA InvStep ==
    ASSUME IInv, [Next]_vars
    PROVE  IInv'
<1>1. CASE Next
  <2>1. CallStep \/ UploadStep \/ EndStep \/ OutsideStep
    BY <1>1, NextIsStep DEF IInv
  <2>2. TypeOK'
    BY <2>1, TypeCallStep, TypeUploadStep, TypeEndStep, TypeOutsideStep DEF IInv
  <2>3. TaskInv'
    BY <2>1, TaskCallStep, TaskUploadStep, TaskEndStep, TaskOutsideStep DEF IInv
  <2>4. CountInv'
    BY <2>1, CountCallStep, CountUploadStep, CountEndStep, CountOutsideStep DEF IInv
  <2>5. VersionInv'
    BY <2>1, VersionCallStep, VersionUploadStep, VersionEndStep, VersionOutsideStep
  <2>6. FirstRunInv'
    BY <2>1, FirstRunCallStep, FirstRunUploadStep, FirstRunEndStep, FirstRunOutsideStep
  <2>7. SessionInv'
    BY <2>1, SessionCallStep, SessionUploadStep, SessionEndStep, SessionOutsideStep
  <2> QED
    BY <2>2, <2>3, <2>4, <2>5, <2>6, <2>7 DEF IInv
<1>2. CASE UNCHANGED vars
  BY <1>2, InvStutters
<1> QED
  BY <1>1, <1>2

\* The strengthened invariant holds throughout every behaviour of upload_file.
THEOREM Invariance == Spec => []IInv
BY InvInit, InvStep, PTL DEF Spec

\* Every variable keeps the type the code gives it; in particular no part is
\* sent more than MaxAttempts times.
THEOREM TypeCorrect == Spec => []TypeOK
<1>1. IInv => TypeOK
  BY DEF IInv
<1> QED
  BY <1>1, Invariance, PTL

\* A session that was never resumed publishes one version of the file, whole.
THEOREM PublishesOneVersion == Spec => []ObjectIsOneVersion
<1>1. IInv => ObjectIsOneVersion
  BY DEF IInv, ObjectIsOneVersion, FirstRunInv, OneVersion
<1> QED
  BY <1>1, Invariance, PTL

\* What run asks R2 to complete is every planned part, and what this call read is
\* of the version it started from; Ok is returned only if R2 published just that.
THEOREM CompletesSoundly == Spec => []CompletionIsSound
<1>1. IInv => CompletionIsSound
  BY DEF IInv, VersionInv, AsksForAll, SessionInv, CompletionIsSound
<1> QED
  BY <1>1, Invariance, PTL

\* was_aborted() is reported only of a session that is gone and published nothing.
THEOREM AbortedIsTrue == Spec => []AbortedIsGone
<1>1. IInv => AbortedIsGone
  BY DEF IInv, SessionInv, AbortedIsGone
<1> QED
  BY <1>1, Invariance, PTL

\* No error leaves a session the caller was told of open without a snapshot.
THEOREM NothingLeaks == Spec => []NoSilentLeak
<1>1. IInv => NoSilentLeak
  BY DEF IInv, SessionInv, NoSilentLeak
<1> QED
  BY <1>1, Invariance, PTL

\* Progress counts the parts in the manifest, which R2 holds.
THEOREM ProgressTells == Spec => []ProgressIsTrue
<1>1. IInv => ProgressIsTrue
  BY DEF IInv, CountInv, SessionInv, ProgressIsTrue
<1> QED
  BY <1>1, Invariance, PTL

\* Never more than `concurrency` parts are buffered at once.
THEOREM BudgetHolds == Spec => []BuffersWithinBudget
<1>1. IInv => BuffersWithinBudget
  <2> SUFFICES ASSUME IInv PROVE BuffersWithinBudget
    OBVIOUS
  <2> DEFINE B == {p \in Parts : buffer[p] # NoPart}
  <2>1. B \subseteq Active
    BY DEF IInv, TaskInv, Active
  <2>2. Cardinality(B) <= Cardinality(Active) /\ Cardinality(B) \in Nat
    BY <2>1, ActiveIsFinite, FS_Subset, FS_CardinalityType
  <2> QED
    BY <2>2, ActiveIsFinite, ConcurrencyAssumption DEF IInv, CountInv, BuffersWithinBudget
<1> QED
  BY <1>1, Invariance, PTL

\* Within a run the counter behind the progress reports moves by one part at a time.
THEOREM ProgressIsGradual == Spec => ProgressMovesByOne
<1> DEFINE Gradual == pc = "parts" /\ pc' = "parts" => completed' \in {completed, completed + 1}
<1>1. ASSUME IInv, Next PROVE Gradual
  <2>1. CASE CallStep
    BY <2>1 DEF CallStep, CallFresh, CallResume, StartCall, StatRejects, StatSource,
       CreateSession, CreateFails, ListParts
  <2>2. CASE UploadStep
    BY <2>2 DEF UploadStep, StartPart, ReadPart, HandlePart, PartUploaded, PartRetries, PartWakes
  <2>3. CASE EndStep
    BY <2>3 DEF EndStep, SourceUnchanged, HandleComplete, CompleteSucceeds, Failing, FailRun,
       HandleAbort, AbortSucceeds, KeepSnapshot
  <2>4. CASE OutsideStep
    BY <2>4 DEF OutsideStep, RewriteFile, Cancel, Crash, LatePart, LateComplete, LateAbort
  <2> QED
    BY <1>1, <2>1, <2>2, <2>3, <2>4, NextIsStep DEF IInv
<1>2. IInv /\ [Next]_vars => [Gradual]_vars
  BY <1>1
<1> QED
  BY <1>2, Invariance, PTL DEF Spec, ProgressMovesByOne

----------------------------------------------------------------------------
(* upload_file implements UploadContract *)

\* Before the first call the contract is in its initial state.
LEMMA ContractInit == Init => Contract!Init
BY DEF Init, Contract!Init, SessionNow, ReportNow, NoOutcome

\* A step that touches neither the session, the outcome nor the caller is a stutter.
LEMMA ContractStutters ==
    ASSUME UNCHANGED <<upload, outcome, saved>>,
           pc' \in {"idle", "done"} <=> pc \in {"idle", "done"}
    PROVE  UNCHANGED Contract!vars
BY DEF Contract!vars, SessionNow, ReportNow

\* The steps that begin a call or open its session are steps of the contract.
LEMMA ContractCallStep ==
    ASSUME IInv, CallStep
    PROVE  Contract!Next \/ UNCHANGED Contract!vars
<1> USE DEF SessionNow, ReportNow, NoOutcome, Contract!Next
<1>1. CASE CallFresh
  BY <1>1 DEF CallFresh, StartCall, IInv, FirstRunInv, SessionInv, Contract!Begin, remoteVars
<1>2. CASE CallResume
  BY <1>2 DEF CallResume, StartCall, Contract!Begin, remoteVars
<1>3. CASE StatRejects \/ CreateFails
  <2>1. upload' = upload /\ saved' = saved /\ (upload = "open" => saved)
    BY <1>3 DEF StatRejects, CreateFails, BeforeStart, Return, IInv, TypeOK, FirstRunInv,
       SessionInv, remoteVars
  <2>2. outcome' = [result |-> "error", snapshot |-> FALSE, aborted |-> FALSE]
    BY <1>3 DEF StatRejects, CreateFails, BeforeStart, Return
  <2> QED
    BY <1>3, <2>1, <2>2 DEF StatRejects, CreateFails, BeforeStart, Return, Contract!Fail, IInv,
       TypeOK
<1>4. CASE StatSource \/ ListParts
  BY <1>4, ContractStutters DEF StatSource, ListParts, remoteVars, resultVars
<1>5. CASE CreateSession
  BY <1>5 DEF CreateSession, IInv, FirstRunInv, SessionInv, Contract!Open, resultVars
<1> QED
  BY <1>1, <1>2, <1>3, <1>4, <1>5 DEF CallStep

\* The steps that upload parts change nothing the contract speaks of.
LEMMA ContractUploadStep ==
    ASSUME IInv, UploadStep
    PROVE  UNCHANGED Contract!vars
<1>1. ASSUME NEW p \in Parts,
             \/ StartPart(p) \/ ReadPart(p) \/ HandlePart(p)
             \/ PartUploaded(p) \/ PartRetries(p) \/ PartWakes(p)
      PROVE  UNCHANGED <<upload, outcome, saved, pc>>
  BY <1>1 DEF StartPart, ReadPart, HandlePart, PartUploaded, PartRetries, PartWakes, remoteVars,
     resultVars
<1> QED
  BY <1>1, ContractStutters DEF UploadStep

\* The steps that end a call tell the caller what the contract allows.
LEMMA ContractEndStep ==
    ASSUME IInv, EndStep
    PROVE  Contract!Next \/ UNCHANGED Contract!vars
<1> USE DEF SessionNow, ReportNow, Contract!Next, Contract!Ends
<1>1. CASE SourceUnchanged \/ Failing
  BY <1>1, ContractStutters DEF SourceUnchanged, Failing, FailRun, Running, remoteVars, resultVars
<1>2. CASE HandleComplete
  <2>1. CASE upload' = upload
    BY <1>2, <2>1, ContractStutters DEF HandleComplete, resultVars
  <2>2. CASE upload' # upload
    BY <1>2, <2>2 DEF HandleComplete, Publish, Accepts, Contract!Settle, resultVars
  <2> QED
    BY <2>1, <2>2
<1>3. CASE CompleteSucceeds
  <2>1. upload = "completed" /\ UNCHANGED <<upload, saved>>
    BY <1>3 DEF CompleteSucceeds, Return, IInv, TypeOK, SessionInv, remoteVars
  <2>2. outcome' = [result |-> "ok", snapshot |-> FALSE, aborted |-> FALSE]
    BY <1>3 DEF CompleteSucceeds, Return
  <2> QED
    BY <1>3, <2>1, <2>2 DEF CompleteSucceeds, Return, Contract!Confirm
<1>4. CASE HandleAbort
  <2>1. CASE upload' = upload
    BY <1>4, <2>1, ContractStutters DEF HandleAbort, resultVars
  <2>2. CASE upload' # upload
    BY <1>4, <2>2 DEF HandleAbort, Contract!Settle, resultVars
  <2> QED
    BY <2>1, <2>2
<1>5. CASE AbortSucceeds
  <2>1. upload = "aborted" /\ UNCHANGED <<upload, saved>>
    BY <1>5 DEF AbortSucceeds, Return, IInv, TypeOK, SessionInv, remoteVars
  <2>2. outcome' = [result |-> "error", snapshot |-> FALSE, aborted |-> TRUE]
    BY <1>5 DEF AbortSucceeds, Return
  <2> QED
    BY <1>5, <2>1, <2>2 DEF AbortSucceeds, Return, Contract!Confirm
<1>6. CASE KeepSnapshot
  <2>1. saved' = TRUE
    <3>1. saved' /\ saved' \in BOOLEAN
      BY <1>6, TypeEndStep DEF KeepSnapshot, Return, IInv, TypeOK
    <3> QED
      BY <3>1
  <2>2. upload' = upload
    BY <1>6 DEF KeepSnapshot, remoteVars
  <2>3. outcome' = [result |-> "error", snapshot |-> TRUE, aborted |-> FALSE]
    BY <1>6 DEF KeepSnapshot, Return
  <2>4. Contract!Fail
    <3>1. pc \notin {"idle", "done"} /\ pc' = "done"
      BY <1>6 DEF KeepSnapshot, Return
    <3>2. ReportNow' = "unsettled" /\ SessionNow' = SessionNow
      BY <2>2, <2>3
    <3>3. saved' \in {saved, TRUE} /\ (SessionNow = "open" => saved')
      BY <2>1
    <3> QED
      BY <3>1, <3>2, <3>3 DEF Contract!Fail
  <2> QED
    BY <2>4
<1> QED
  BY <1>1, <1>2, <1>3, <1>4, <1>5, <1>6 DEF EndStep

\* What R2, the file and the application do is a step of the contract.
LEMMA ContractOutsideStep ==
    ASSUME IInv, OutsideStep
    PROVE  Contract!Next \/ UNCHANGED Contract!vars
<1> USE DEF SessionNow, ReportNow, Contract!Next, Contract!Ends
<1>1. CASE RewriteFile \/ Cancel \/ LatePart
  BY <1>1, ContractStutters DEF RewriteFile, Cancel, LatePart, remoteVars, resultVars
<1>2. CASE Crash
  BY <1>2 DEF Crash, Contract!Vanish, resultVars
<1>3. CASE LateComplete \/ LateAbort
  BY <1>3 DEF LateComplete, LateAbort, Publish, Accepts, Contract!Settle, resultVars
<1> QED
  BY <1>1, <1>2, <1>3 DEF OutsideStep

\* Every behaviour of upload_file on a session is one the contract allows.
THEOREM ImplementsContract == Spec => KeepsContract
<1>1. ASSUME IInv, Next PROVE [Contract!Next]_(Contract!vars)
  BY <1>1, NextIsStep, ContractCallStep, ContractUploadStep, ContractEndStep,
     ContractOutsideStep DEF IInv
<1>2. ASSUME UNCHANGED vars PROVE UNCHANGED Contract!vars
  BY <1>2, ContractStutters DEF vars, remoteVars, resultVars
<1>3. IInv /\ [Next]_vars => [Contract!Next]_(Contract!vars)
  BY <1>1, <1>2
<1> QED
  BY <1>3, ContractInit, Invariance, PTL DEF Spec, Contract!Spec, KeepsContract

Promise == INSTANCE UploadContractProofs WITH
    session <- SessionNow,
    report  <- ReportNow,
    calling <- pc \notin {"idle", "done"},
    handle  <- saved

\* So what follows from the contract holds of upload_file: no late request and no later
\* call makes a report of it false, ends a session twice, or loses the snapshot.
THEOREM PromiseHolds == Spec => []Promise!ReportHolds /\ Promise!EndsOnce
<1>1. Contract!Init => Promise!Init
  BY DEF Contract!Init, Promise!Init
<1>2. [Contract!Next]_(Contract!vars) => [Promise!Next]_(Promise!vars)
  <2>1. Contract!Next <=> Promise!Next
    BY Zenon DEF Contract!Next, Contract!Begin, Contract!Open, Contract!Settle, Contract!Confirm,
       Contract!Fail, Contract!Vanish, Contract!Ends,
       Promise!Next, Promise!Begin, Promise!Open, Promise!Settle, Promise!Confirm,
       Promise!Fail, Promise!Vanish, Promise!Ends
  <2>2. UNCHANGED Contract!vars => UNCHANGED Promise!vars
    BY DEF Contract!vars, Promise!vars
  <2> QED
    BY <2>1, <2>2
<1> QED
  BY <1>1, <1>2, ImplementsContract, Promise!ReportStaysTrue, Promise!SessionEndsOnce, PTL
  DEF KeepsContract, Contract!Spec, Promise!Spec

----------------------------------------------------------------------------
(* Progress *)

\* A part is only taken off the list once it is in the manifest; the tasks of a call
\* that returned Ok are never looked at again.
UploadedInv ==
    \A p \in Parts : task[p] = "uploaded" =>
        \/ pc \in {"parts", "complete"} /\ manifest[p] # NoPart
        \/ pc # "parts" /\ upload = "completed"

LEMMA UploadedStep ==
    ASSUME IInv, UploadedInv, [Next]_vars
    PROVE  UploadedInv'
<1> USE DEF UploadedInv, sourceVars, remoteVars, callVars, jobVars, partVars, resultVars
<1>1. CASE CallStep
  <2>1. CASE CallFresh \/ CallResume
    BY <2>1 DEF CallFresh, CallResume, StartCall
  <2>2. CASE StatRejects \/ CreateFails
    BY <2>2 DEF StatRejects, CreateFails, BeforeStart, Return
  <2>3. CASE StatSource
    BY <2>3 DEF StatSource
  <2>4. CASE CreateSession
    <3>1. upload = "none"
      BY <2>4 DEF CreateSession, IInv, FirstRunInv, SessionInv
    <3> QED
      BY <2>4, <3>1 DEF CreateSession
  <2>5. CASE ListParts
    BY <2>5 DEF ListParts
  <2> QED
    BY <1>1, <2>1, <2>2, <2>3, <2>4, <2>5 DEF CallStep
<1>2. CASE UploadStep
  <2> USE DEF IInv, TypeOK, TaskInv, Manifest
  <2>1. ASSUME NEW p \in Parts, StartPart(p) PROVE UploadedInv'
    BY <2>1 DEF StartPart
  <2>2. ASSUME NEW p \in Parts, ReadPart(p) PROVE UploadedInv'
    BY <2>2 DEF ReadPart
  <2>3. ASSUME NEW p \in Parts, HandlePart(p) PROVE UploadedInv'
    BY <2>3 DEF HandlePart
  <2>4. ASSUME NEW p \in Parts, PartUploaded(p) PROVE UploadedInv'
    BY <2>4 DEF PartUploaded
  <2>5. ASSUME NEW p \in Parts, PartRetries(p) PROVE UploadedInv'
    BY <2>5 DEF PartRetries
  <2>6. ASSUME NEW p \in Parts, PartWakes(p) PROVE UploadedInv'
    BY <2>6 DEF PartWakes
  <2> QED
    BY <1>2, <2>1, <2>2, <2>3, <2>4, <2>5, <2>6 DEF UploadStep
<1>3. CASE EndStep
  <2>1. CASE SourceUnchanged
    BY <2>1 DEF SourceUnchanged
  <2>2. CASE HandleComplete
    BY <2>2 DEF HandleComplete, Publish, Accepts
  <2>3. CASE CompleteSucceeds
    <3>1. upload = "completed"
      BY <2>3 DEF CompleteSucceeds, IInv, SessionInv
    <3> QED
      BY <2>3, <3>1 DEF CompleteSucceeds, Return
  <2>4. CASE Failing \/ KeepSnapshot
    BY <2>4 DEF Failing, FailRun, KeepSnapshot, DropFutures
  <2>5. CASE HandleAbort
    BY <2>5 DEF HandleAbort
  <2>6. CASE AbortSucceeds
    BY <2>6 DEF AbortSucceeds, Return
  <2> QED
    BY <1>3, <2>1, <2>2, <2>3, <2>4, <2>5, <2>6 DEF EndStep
<1>4. CASE OutsideStep
  <2>1. CASE RewriteFile \/ Cancel
    BY <2>1 DEF RewriteFile, Cancel
  <2>2. CASE Crash
    BY <2>2 DEF Crash, DropFutures
  <2>3. CASE LatePart
    BY <2>3 DEF LatePart
  <2>4. CASE LateComplete
    BY <2>4 DEF LateComplete, Publish, Accepts
  <2>5. CASE LateAbort
    BY <2>5 DEF LateAbort
  <2> QED
    BY <1>4, <2>1, <2>2, <2>3, <2>4, <2>5 DEF OutsideStep
<1>5. CASE UNCHANGED vars
  BY <1>5 DEF vars
<1> QED
  BY <1>1, <1>2, <1>3, <1>4, <1>5, NextIsStep DEF IInv

THEOREM UploadedInvariance == Spec => [](IInv /\ UploadedInv)
<1>1. Init => UploadedInv
  BY DEF Init, UploadedInv
<1> QED
  BY <1>1, UploadedStep, Invariance, PTL DEF Spec

\* Steps a part has still to come at most: a read, and for each attempt a request
\* and a sleep.
PartRank(p) ==
    CASE task[p] = "waiting"  -> 2 * MaxAttempts + 1
      [] task[p] = "reading"  -> 2 * MaxAttempts
      [] task[p] = "sleeping" -> 2 * (MaxAttempts - attempt[p]) + 2
      [] task[p] = "sending"  -> 2 * (MaxAttempts - attempt[p]) + 1
      [] task[p] = "uploaded" -> 0

\* Stages the call has still to come.
StageRank ==
    CASE pc = "stat"     -> 5
      [] pc = "create"   -> 4
      [] pc = "list"     -> 4
      [] pc = "parts"    -> 3
      [] pc = "complete" -> 2
      [] pc = "cleanup"  -> 1
      [] pc \in {"idle", "done"} -> 0

\* The call is nearer to its end: it enters a later stage, or one of its parts takes
\* a step and none goes back.
Nearer ==
    \/ StageRank' < StageRank
    \/ /\ StageRank' = StageRank
       /\ \E p \in Parts : PartRank(p)' < PartRank(p)
       /\ \A p \in Parts : PartRank(p)' < PartRank(p) \/ PartRank(p)' = PartRank(p)

LEMMA RanksAreNatural ==
    IInv => StageRank \in 0..5 /\ \A p \in Parts : PartRank(p) \in 0..(2 * MaxAttempts + 2)
<1> SUFFICES ASSUME IInv
             PROVE  /\ StageRank \in 0..5
                    /\ \A p \in Parts : PartRank(p) \in 0..(2 * MaxAttempts + 2)
  OBVIOUS
<1>1. StageRank \in 0..5
  BY DEF IInv, TypeOK, StageRank
<1>2. ASSUME NEW p \in Parts PROVE PartRank(p) \in 0..(2 * MaxAttempts + 2)
  <2>1. /\ attempt[p] \in 0..MaxAttempts /\ MaxAttempts \in Nat
        /\ task[p] \in {"waiting", "reading", "sending", "sleeping", "uploaded"}
    BY MaxAttemptsAssumption DEF IInv, TypeOK
  <2> QED
    BY <2>1 DEF PartRank
<1> QED
  BY <1>1, <1>2

\* A step of one part that lowers its rank and leaves the others brings the call nearer.
LEMMA OnePartNearer ==
    ASSUME NEW p \in Parts, IInv, pc' = pc, PartRank(p)' < PartRank(p),
           \A q \in Parts \ {p} : task'[q] = task[q] /\ attempt'[q] = attempt[q]
    PROVE  Nearer
<1>1. StageRank' = StageRank
  BY DEF StageRank
<1>2. ASSUME NEW q \in Parts \ {p} PROVE PartRank(q)' = PartRank(q)
  BY <1>2 DEF PartRank
<1> QED
  BY <1>1, <1>2 DEF Nearer

LEMMA PartStepIsNearer ==
    ASSUME IInv, NEW p \in Parts, PartStep(p)
    PROVE  Nearer
<1>1. /\ attempt[p] \in 0..MaxAttempts /\ MaxAttempts \in Nat \ {0}
      /\ task \in [Parts -> {"waiting", "reading", "sending", "sleeping", "uploaded"}]
      /\ attempt \in [Parts -> 0..MaxAttempts]
  BY MaxAttemptsAssumption DEF IInv, TypeOK
<1> USE DEF callVars, jobVars, resultVars
<1>2. CASE ReadFails(p) \/ PartFails(p)
  <2>1. pc = "parts" /\ pc' = "cleanup"
    BY <1>2 DEF ReadFails, PartFails, FailRun, IInv, TaskInv
  <2> QED
    BY <2>1 DEF Nearer, StageRank
<1>3. CASE StartPart(p)
  <2>1. /\ pc' = pc /\ task[p] = "waiting" /\ task'[p] = "reading"
        /\ \A q \in Parts \ {p} : task'[q] = task[q] /\ attempt'[q] = attempt[q]
    BY <1>1, <1>3 DEF StartPart
  <2>2. PartRank(p)' < PartRank(p)
    BY <1>1, <2>1 DEF PartRank
  <2> QED
    BY <2>1, <2>2, OnePartNearer
<1>4. CASE ReadPart(p)
  <2>1. /\ pc' = pc /\ task[p] = "reading" /\ task'[p] = "sending" /\ attempt'[p] = 1
        /\ \A q \in Parts \ {p} : task'[q] = task[q] /\ attempt'[q] = attempt[q]
    BY <1>1, <1>4 DEF ReadPart
  <2>2. PartRank(p)' < PartRank(p)
    BY <1>1, <2>1 DEF PartRank
  <2> QED
    BY <2>1, <2>2, OnePartNearer
<1>5. CASE PartUploaded(p)
  <2>1. /\ pc' = pc /\ task[p] = "sending" /\ task'[p] = "uploaded"
        /\ \A q \in Parts \ {p} : task'[q] = task[q] /\ attempt'[q] = attempt[q]
    BY <1>1, <1>5 DEF PartUploaded
  <2>2. PartRank(p)' < PartRank(p)
    BY <1>1, <2>1 DEF PartRank
  <2> QED
    BY <2>1, <2>2, OnePartNearer
<1>6. CASE PartRetries(p)
  <2>1. /\ pc' = pc /\ task[p] = "sending" /\ task'[p] = "sleeping"
        /\ attempt[p] < MaxAttempts /\ attempt'[p] = attempt[p] + 1
        /\ \A q \in Parts \ {p} : task'[q] = task[q] /\ attempt'[q] = attempt[q]
    BY <1>1, <1>6 DEF PartRetries
  <2>2. PartRank(p)' < PartRank(p)
    BY <1>1, <2>1 DEF PartRank
  <2> QED
    BY <2>1, <2>2, OnePartNearer
<1>7. CASE PartWakes(p)
  <2>1. /\ pc' = pc /\ task[p] = "sleeping" /\ task'[p] = "sending" /\ attempt'[p] = attempt[p]
        /\ \A q \in Parts \ {p} : task'[q] = task[q] /\ attempt'[q] = attempt[q]
    BY <1>1, <1>7 DEF PartWakes
  <2>2. PartRank(p)' < PartRank(p)
    BY <1>1, <2>1 DEF PartRank
  <2> QED
    BY <2>1, <2>2, OnePartNearer
<1> QED
  BY <1>2, <1>3, <1>4, <1>5, <1>6, <1>7 DEF PartStep

LEMMA ClientStepIsNearer ==
    ASSUME IInv, ClientStep \/ Crash
    PROVE  Nearer
<1> DEFINE Later == StageRank' < StageRank
<1> USE DEF StageRank
<1>1. StatRejects \/ CreateSession \/ CreateFails \/ ListParts => Later
  <2>1. StatRejects => pc = "stat" /\ pc' = "done"
    BY DEF StatRejects, BeforeStart, Return
  <2>2. CreateSession \/ CreateFails => pc = "create" /\ pc' \in {"parts", "done"}
    BY DEF CreateSession, CreateFails, BeforeStart, Return
  <2>3. ListParts => pc = "list" /\ pc' = "parts"
    BY DEF ListParts
  <2> QED
    BY <2>1, <2>2, <2>3
<1>5. StatSource => Later
  <2>1. StatSource => pc = "stat" /\ pc' \in {"list", "create"}
    BY DEF StatSource
  <2> QED
    BY <2>1
<1>2. ListFails \/ SourceUnchanged \/ SourceChanged \/ CompleteFails \/ CancelWins => Later
  BY DEF ListFails, SourceUnchanged, SourceChanged, CompleteFails, CancelWins, FailRun, Running
<1>3. CompleteSucceeds \/ AbortSucceeds \/ KeepSnapshot => Later
  BY DEF CompleteSucceeds, AbortSucceeds, KeepSnapshot, Return
<1>4. Crash => Later
  BY DEF Crash, IInv, TypeOK
<1> QED
  BY <1>1, <1>2, <1>3, <1>4, <1>5, PartStepIsNearer DEF ClientStep, Nearer

\* During a call only its own steps, and a crash, touch what the ranks are made of.
LEMMA NearerOrNothing ==
    ASSUME IInv, [Next]_vars, pc \notin {"idle", "done"}
    PROVE  \/ ClientStep \/ Crash
           \/ UNCHANGED <<pc, task, attempt, plan, manifest>>
<1> USE DEF sourceVars, callVars, jobVars, partVars
<1>1. RemoteStep => UNCHANGED <<pc, task, attempt, plan, manifest>>
  BY DEF RemoteStep, HandlePart, HandleComplete, HandleAbort, LatePart, LateComplete, LateAbort
<1>2. RewriteFile \/ Cancel \/ UNCHANGED vars => UNCHANGED <<pc, task, attempt, plan, manifest>>
  BY DEF RewriteFile, Cancel, vars
<1>3. ~CallFresh /\ ~CallResume
  BY DEF CallFresh, CallResume
<1> QED
  BY <1>1, <1>2, <1>3 DEF Next, EnvironmentStep

\* No call of upload_file runs for ever: every step of it enters a later stage or
\* takes one part forward and none back, retries included, the stages and the steps
\* of a part are finitely many, and nothing R2, the file or the application does
\* gives one back.
THEOREM CallsAreBounded ==
    Spec => /\ [](/\ StageRank \in 0..5
                  /\ \A p \in Parts : PartRank(p) \in 0..(2 * MaxAttempts + 2))
            /\ [][pc \notin {"idle", "done"} =>
                     IF ClientStep \/ Crash THEN Nearer
                     ELSE UNCHANGED <<pc, task, attempt>>]_vars
<1>1. IInv /\ [Next]_vars => (pc \notin {"idle", "done"} =>
                     IF ClientStep \/ Crash THEN Nearer
                     ELSE UNCHANGED <<pc, task, attempt>>)
  BY ClientStepIsNearer, NearerOrNothing
<1> QED
  BY <1>1, RanksAreNatural, Invariance, PTL DEF Spec

\* When ClientStep can be taken.
ClientReady ==
    \/ pc \in {"stat", "create", "list", "complete", "cleanup"}
    \/ pc = "parts" /\ Active # {}
    \/ pc = "parts" /\ Planned \subseteq Held
    \/ /\ pc = "parts" /\ Cardinality(Active) < Concurrency
       /\ \E p \in Planned : /\ task[p] = "waiting" /\ p \notin Held
                             /\ \A q \in 1..(p - 1) : q \in Held \/ task[q] # "waiting"

\* What the fairness of FairSpec is read with: no prover here computes ENABLED.
GuardsEnable == ClientReady => ENABLED <<ClientStep>>_vars

\* Every set of natural numbers that is not empty has a least element.
LEMMA LeastElement ==
    ASSUME NEW S \in SUBSET Nat, S # {}
    PROVE  \E m \in S : \A k \in S : m <= k
<1> DEFINE less == {ss \in Nat \X Nat : ss[1] < ss[2]}
<1>1. IsWellFoundedOn(less, Nat)
  BY NatLessThanWellFounded DEF OpToRel
<1>2. \A k, m \in Nat : k < m => <<k, m>> \in less
  OBVIOUS
<1> HIDE DEF less
<1>3. PICK m \in S : \A k \in S : ~(<<k, m>> \in less)
  BY <1>1, WFMin
<1>4. ASSUME NEW k \in S PROVE m <= k
  <2>1. ~(k < m)
    BY <1>2, <1>3
  <2> QED
    BY <2>1
<1> QED
  BY <1>4

\* While a call runs, its future is never left without anything to do: if no part is
\* active and some are missing, the first of those can be started.
LEMMA SomethingIsReady == IInv /\ UploadedInv /\ pc \notin {"idle", "done"} => ClientReady
<1> SUFFICES ASSUME IInv, UploadedInv, pc = "parts", Active = {}, ~(Planned \subseteq Held)
             PROVE  ClientReady
  BY DEF ClientReady, IInv, TypeOK
<1> USE DEF IInv, TypeOK
<1>1. Planned \subseteq Nat /\ Planned \subseteq Parts
  BY MaxPartsAssumption DEF Planned, Parts
<1>2. Planned \ Held \in SUBSET Nat /\ Planned \ Held # {}
  BY <1>1
<1>3. PICK p \in Planned \ Held : \A k \in Planned \ Held : p <= k
  BY <1>2, LeastElement
<1>4. task[p] = "waiting"
  BY <1>1, <1>3 DEF Active, Held, UploadedInv
<1>5. ASSUME NEW q \in 1..(p - 1) PROVE q \in Held
  <2>1. q \in Planned /\ ~(p <= q)
    BY <1>1, <1>3, MaxPartsAssumption DEF Planned
  <2> QED
    BY <1>3, <2>1
<1>6. Cardinality(Active) < Concurrency
  BY FS_EmptySet, ConcurrencyAssumption
<1> QED
  BY <1>3, <1>4, <1>5, <1>6 DEF ClientReady

LEMMA NearerIsAStep == IInv /\ Nearer => vars' # vars
<1> SUFFICES ASSUME IInv, Nearer, vars' = vars PROVE FALSE
  OBVIOUS
<1>1. StageRank' = StageRank /\ \A p \in Parts : PartRank(p)' = PartRank(p)
  BY DEF vars, partVars, StageRank, PartRank
<1>2. StageRank \in Nat /\ \A p \in Parts : PartRank(p) \in Nat
  BY RanksAreNatural, MaxAttemptsAssumption
<1> QED
  BY <1>1, <1>2 DEF Nearer

\* As long as upload_file has not returned there is always a step to come that brings
\* it nearer to its end; by CallsAreBounded there are only so many, so it returns
\* (CallReturns).
THEOREM WorkGoesOn ==
    FairSpec /\ []GuardsEnable => [](pc \notin {"idle", "done"} => <><<Nearer>>_vars)
<1>1. IInv /\ pc \notin {"idle", "done"} /\ ClientReady /\ [Next]_vars =>
          \/ <<Nearer>>_vars
          \/ (pc \notin {"idle", "done"} /\ ClientReady)'
  <2> SUFFICES ASSUME IInv, pc \notin {"idle", "done"}, ClientReady, [Next]_vars
               PROVE  \/ <<Nearer>>_vars
                      \/ (pc \notin {"idle", "done"} /\ ClientReady)'
    OBVIOUS
  <2>1. CASE ClientStep \/ Crash
    BY <2>1, ClientStepIsNearer, NearerIsAStep
  <2>2. CASE UNCHANGED <<pc, task, attempt, plan, manifest>>
    BY <2>2 DEF ClientReady, Active, Planned, Held
  <2> QED
    BY <2>1, <2>2, NearerOrNothing
<1>2. IInv /\ <<ClientStep>>_vars => <<Nearer>>_vars
  BY ClientStepIsNearer
<1> QED
  BY <1>1, <1>2, SomethingIsReady, UploadedInvariance, PTL DEF FairSpec, Spec, GuardsEnable
=============================================================================
