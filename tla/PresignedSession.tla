-------------------------- MODULE PresignedSession --------------------------
(***************************************************************************)
(* A presigned multipart session (PresignedMultipart,                      *)
(* src/src/multipart.rs): clients upload its parts to R2 with the requests *)
(* the server signed, as often and as long as the signatures are valid,    *)
(* while the server reconciles what R2 holds, page by page, and completes  *)
(* the session from the ETags the clients reported or R2 listed.           *)
(*                                                                         *)
(* The calls of one server are modelled in detail, from the creation of    *)
(* the session on; it may crash and restore the session from the record it *)
(* kept of it.  Other processes that did so complete or abort the session  *)
(* meanwhile.  R2 is external.  A request given up may reach R2 late.      *)
(*                                                                         *)
(* The ETag of a part is the body it was uploaded with.                    *)
(***************************************************************************)
EXTENDS Naturals, FiniteSets

CONSTANTS
    PartCount,      \* parts of the MultipartPlan
    PageSize,       \* parts in a page of ListParts (max_parts)
    Bodies,         \* bodies clients upload
    Exact,          \* those of the length the plan gives their part
    NoBody,
    MaxRestarts     \* bound on the times the session is restored

ASSUME SessionAssumption ==
    /\ PartCount \in Nat \ {0}
    /\ PageSize \in Nat \ {0}
    /\ Exact \subseteq Bodies
    /\ NoBody \notin Bodies
    /\ MaxRestarts \in Nat

VARIABLES
    upload,         \* R2: state of the session
    stored,         \* R2: the body of each part
    object,         \* R2: the bodies of the published object
    late,           \* requests given up before R2 handled them
    pc,             \* where the server's call stands
    restarts,       \* times the session was restored
    manifest,       \* the CompletionManifest
    verified,       \* complete_verified was called, not complete
    marker,         \* part_number_marker of the next page
    found,          \* parts the pages have listed so far
    known,          \* history: parts R2 held when reconcile was called
    answer,         \* R2's answer to the completion, in transit
    outcome,        \* what the call returned
    unverified      \* history: some completion was sent without verification

remoteVars == <<upload, stored, object>>
listVars   == <<marker, found, known>>
sessionVars == <<restarts, unverified>>
vars == <<remoteVars, late, pc, manifest, verified, listVars, answer, outcome, sessionVars>>

Parts == 1..PartCount
Manifest == [Parts -> Bodies \union {NoBody}]
Empty == [p \in Parts |-> NoBody]
Present(m) == {p \in Parts : m[p] # NoBody}

Return(result) ==
    /\ pc' = "done"
    /\ outcome' = result
    /\ answer' = "none"

----------------------------------------------------------------------------
(* The session *)

\* PresignedMultipartBuilder::create, whose session the server then records.
CreateSession ==
    /\ pc = "create"
    /\ upload' = "open"
    /\ pc' = "idle"
    /\ UNCHANGED <<stored, object, late, manifest, verified, listVars, answer, outcome,
                   sessionVars>>

\* No plan, a rejected request, or an answer that is lost: with no upload ID
\* nobody can use the session that R2 may have created.
CreateFails ==
    /\ pc = "create"
    /\ Return("error")
    /\ UNCHANGED <<remoteVars, late, manifest, verified, listVars, sessionVars>>

\* The server crashes, or gives its call up, and restores the session from its
\* record (MultipartSessionSnapshot::restore, resume_presigned_multipart): the
\* plan is made anew, all else that a call knew is lost.
Restore ==
    /\ pc # "create"
    /\ upload # "none"
    /\ restarts < MaxRestarts
    /\ restarts' = restarts + 1
    /\ late' = late \union (IF pc = "complete" /\ answer = "none" THEN {manifest} ELSE {})
    /\ pc' = "idle"
    /\ manifest' = Empty
    /\ verified' = FALSE
    /\ marker' = 0
    /\ found' = Empty
    /\ known' = {}
    /\ answer' = "none"
    /\ outcome' = "none"
    /\ UNCHANGED <<remoteVars, unverified>>

----------------------------------------------------------------------------
(* The clients *)

\* A client uses a request of presign_part, again if it wants: the signature binds
\* the session and the part number, and no length.
ClientUploads(p, b) ==
    /\ upload = "open"
    /\ stored' = [stored EXCEPT ![p] = b]
    /\ UNCHANGED <<upload, object, late, pc, manifest, verified, listVars, answer,
                   outcome, sessionVars>>

----------------------------------------------------------------------------
(* reconcile *)

StartListing ==
    /\ marker' = 0
    /\ found' = Empty
    /\ known' = Present(stored)

Reconcile ==
    /\ pc = "idle"
    /\ pc' = "reconcile"
    /\ StartListing
    /\ UNCHANGED <<remoteVars, late, manifest, verified, answer, outcome, sessionVars>>

\* ListParts returns the parts after the marker; R2 may also go back and return those
\* after an earlier one, from.
Remaining(from) == {p \in Present(stored) : p > from}
Page(from) ==
    {p \in Remaining(from) : Cardinality({q \in Remaining(from) : q <= p}) <= PageSize}
Truncated(from) == Page(from) # Remaining(from)

\* Mutant: a part that is listed twice is taken twice.
PageIsExact(from) == upload = "open" /\ \A p \in Page(from) : stored[p] \in Exact

\* Every part of the page has the length the plan gives it, and none was listed before.
PageIsValid(from) ==
    /\ upload = "open"
    /\ \A p \in Page(from) : stored[p] \in Exact /\ found[p] = NoBody

TakePage(from) ==
    found' = [p \in Parts |-> IF p \in Page(from) THEN stored[p] ELSE found[p]]

\* Mutant: the next page starts one part after its marker.
ListPageSkips(from) ==
    /\ pc \in {"reconcile", "verify"}
    /\ PageIsValid(from)
    /\ Truncated(from)
    /\ TakePage(from)
    /\ \E p \in Page(from) : (\A q \in Page(from) : q <= p) /\ marker' = p + 1
    /\ UNCHANGED <<remoteVars, late, pc, manifest, verified, known, answer, outcome,
                   sessionVars>>

\* A page that is not the last: next_part_number_marker names its last part.
ListPage(from) ==
    /\ pc \in {"reconcile", "verify"}
    /\ PageIsValid(from)
    /\ Truncated(from)
    /\ TakePage(from)
    /\ \E p \in Page(from) : (\A q \in Page(from) : q <= p) /\ marker' = p
    /\ UNCHANGED <<remoteVars, late, pc, manifest, verified, known, answer, outcome,
                   sessionVars>>

\* Mutant: the marker moves past the last part of the last page.
ReconcileOverruns(from) ==
    /\ pc = "reconcile"
    /\ PageIsValid(from)
    /\ ~Truncated(from)
    /\ TakePage(from)
    /\ pc' = "reconciled"
    /\ \/ Page(from) = {} /\ UNCHANGED marker
       \/ \E p \in Page(from) : (\A q \in Page(from) : q <= p) /\ marker' = p + 1
    /\ UNCHANGED <<remoteVars, late, manifest, verified, known, answer, outcome,
                   sessionVars>>

\* The last page of reconcile, called by the application.
ReconcileReturns(from) ==
    /\ pc = "reconcile"
    /\ PageIsValid(from)
    /\ ~Truncated(from)
    /\ TakePage(from)
    /\ pc' = "reconciled"
    /\ UNCHANGED <<remoteVars, late, manifest, verified, marker, known, answer,
                   outcome, sessionVars>>

\* ListParts fails, the session is gone, or a part has an unexpected size or was
\* listed before.
ListFails ==
    /\ pc \in {"reconcile", "verify"}
    /\ Return("error")
    /\ UNCHANGED <<remoteVars, late, manifest, verified, listVars, sessionVars>>

----------------------------------------------------------------------------
(* complete and complete_verified *)

\* Mutant: complete does not count the parts of its manifest.
CompleteAny(m, verify) ==
    /\ manifest' = m
    /\ verified' = verify
    /\ \/ verify /\ pc' = "verify" /\ StartListing
       \/ ~verify /\ pc' = "complete" /\ UNCHANGED listVars
    /\ unverified' = (unverified \/ ~verify)
    /\ UNCHANGED <<remoteVars, late, answer, outcome, restarts>>

Complete(m, verify) ==
    /\ manifest' = m
    /\ verified' = verify
    /\ \/ /\ verify
          /\ pc' = "verify"
          /\ StartListing
          /\ UNCHANGED <<answer, outcome, unverified>>
       \/ /\ ~verify /\ Present(m) = Parts
          /\ pc' = "complete"
          /\ unverified' = TRUE
          /\ UNCHANGED <<listVars, answer, outcome>>
       \/ /\ ~verify /\ Present(m) # Parts
          /\ Return("error")
          /\ UNCHANGED <<listVars, unverified>>
    /\ UNCHANGED <<remoteVars, late, restarts>>

\* CompletionManifest::try_from_receipts: receipts may be stale, mistaken or missing.
CompleteFromReceipts ==
    /\ pc = "idle"
    /\ \E m \in Manifest \ {Empty}, verify \in BOOLEAN : Complete(m, verify)

\* MultipartReconciliation::into_completion_manifest
CompleteFromReconciliation ==
    /\ pc = "reconciled"
    /\ Present(found) = Parts
    /\ \E verify \in BOOLEAN : Complete(found, verify)

\* Parts are missing: the application gives up, or asks the clients again.
MissingParts ==
    /\ pc = "reconciled"
    /\ Present(found) # Parts
    /\ pc' = "idle"
    /\ UNCHANGED <<remoteVars, late, manifest, verified, listVars, answer, outcome,
                   sessionVars>>

\* Mutant: only the part numbers are compared.
MatchesNumbers(from) ==
    /\ pc = "verify"
    /\ PageIsValid(from)
    /\ ~Truncated(from)
    /\ TakePage(from)
    /\ Present(found') = Parts
    /\ Present(manifest) = Parts
    /\ pc' = "complete"
    /\ UNCHANGED <<remoteVars, late, manifest, verified, marker, known, answer,
                   outcome, sessionVars>>

\* The last page of complete_verified's reconcile, which found what the manifest says.
ReceiptsMatch(from) ==
    /\ pc = "verify"
    /\ PageIsValid(from)
    /\ ~Truncated(from)
    /\ TakePage(from)
    /\ Present(found') = Parts
    /\ found' = manifest
    /\ pc' = "complete"
    /\ UNCHANGED <<remoteVars, late, manifest, verified, marker, known, answer,
                   outcome, sessionVars>>

ReceiptsDiffer(from) ==
    /\ pc = "verify"
    /\ PageIsValid(from)
    /\ ~Truncated(from)
    /\ TakePage(from)
    /\ Present(found') # Parts \/ found' # manifest
    /\ Return("error")
    /\ UNCHANGED <<remoteVars, late, manifest, verified, marker, known, sessionVars>>

\* R2 completes a session with the parts listed, if it holds them with these ETags.
Accepts(m) == upload = "open" /\ \A p \in Present(m) : stored[p] = m[p]
Publish(m) ==
    /\ upload' = "completed"
    /\ object' = m

HandleComplete ==
    /\ pc = "complete"
    /\ answer = "none"
    /\ \/ /\ Accepts(manifest)
          /\ Publish(manifest)
          /\ answer' \in {"ok", "none"}
       \/ /\ ~Accepts(manifest) \/ \E p \in Parts : manifest[p] \notin Exact
          /\ answer' = "rejected"
          /\ UNCHANGED <<upload, object>>
    /\ UNCHANGED <<stored, late, pc, manifest, verified, listVars, outcome,
                   sessionVars>>

CompleteSucceeds ==
    /\ pc = "complete"
    /\ answer = "ok"
    /\ Return("ok")
    /\ UNCHANGED <<remoteVars, late, manifest, verified, listVars, sessionVars>>

\* R2 rejects it, the answer is lost, or the connection is given up.
CompleteFails ==
    /\ pc = "complete"
    /\ Return("error")
    /\ late' = late \union (IF answer = "none" THEN {manifest} ELSE {})
    /\ UNCHANGED <<remoteVars, manifest, verified, listVars, sessionVars>>

LateComplete ==
    \E m \in late :
        /\ Accepts(m)
        /\ Publish(m)
        /\ late' = late \ {m}
        /\ UNCHANGED <<stored, pc, manifest, verified, listVars, answer, outcome,
                       sessionVars>>

----------------------------------------------------------------------------
(* Other processes with the same session *)

OtherCompletes ==
    /\ Present(stored) = Parts
    /\ Accepts(stored)
    /\ Publish(stored)
    /\ unverified' = TRUE
    /\ UNCHANGED <<stored, late, pc, manifest, verified, listVars, answer, outcome,
                   restarts>>

\* PresignedMultipart::abort or Bucket::abort_multipart_upload.
OtherAborts ==
    /\ upload = "open"
    /\ upload' = "aborted"
    /\ stored' = Empty
    /\ UNCHANGED <<object, late, pc, manifest, verified, listVars, answer, outcome,
                   sessionVars>>

----------------------------------------------------------------------------
Init ==
    /\ upload = "none"
    /\ stored = Empty
    /\ object = Empty
    /\ late = {}
    /\ pc = "create"
    /\ restarts = 0
    /\ manifest = Empty
    /\ verified = FALSE
    /\ marker = 0
    /\ found = Empty
    /\ known = {}
    /\ answer = "none"
    /\ outcome = "none"
    /\ unverified = FALSE

ListStep ==
    \/ \E from \in 0..marker :
          ListPage(from) \/ ReconcileReturns(from) \/ ReceiptsMatch(from) \/ ReceiptsDiffer(from)
    \/ ListFails

ServerStep ==
    \/ CreateSession
    \/ CreateFails
    \/ Restore
    \/ Reconcile
    \/ CompleteFromReceipts
    \/ CompleteFromReconciliation
    \/ MissingParts
    \/ CompleteSucceeds
    \/ CompleteFails

RemoteStep ==
    \/ HandleComplete
    \/ LateComplete

OthersStep ==
    \/ \E p \in Parts, b \in Bodies : ClientUploads(p, b)
    \/ OtherCompletes
    \/ OtherAborts

Next == ListStep \/ ServerStep \/ RemoteStep \/ OthersStep

Spec == Init /\ [][Next]_vars

\* The application awaits the call, and R2 answers ListParts or a timeout fires.
FairSpec == Spec /\ WF_vars(ListStep)

----------------------------------------------------------------------------
(* Properties *)

TypeOK ==
    /\ upload \in {"none", "open", "completed", "aborted"}
    /\ stored \in Manifest
    /\ object \in Manifest
    /\ late \subseteq Manifest
    /\ pc \in {"create", "idle", "reconcile", "reconciled", "verify", "complete", "done"}
    /\ manifest \in Manifest
    /\ verified \in BOOLEAN
    /\ marker \in 0..PartCount
    /\ found \in Manifest
    /\ known \subseteq Parts
    /\ answer \in {"none", "ok", "rejected"}
    /\ outcome \in {"none", "ok", "error"}
    /\ restarts \in 0..MaxRestarts
    /\ unverified \in BOOLEAN

\* No published object lacks a part of the plan, whatever the receipts said.
ObjectIsWhole == upload = "completed" => Present(object) = Parts

\* Ok of complete_verified means that what was published was listed by R2 part by
\* part, although clients replaced parts after they were listed.  If nothing but
\* complete_verified completes the session, then whatever is published has the
\* planned lengths: also by a completion whose answer was lost, that came late, or
\* that a crash left behind.
VerifiedIsExact ==
    /\ verified /\ outcome = "ok" => object = found
    /\ upload = "completed" /\ ~unverified => \A p \in Parts : object[p] \in Exact

\* reconcile misses no part that R2 already held when it was called, on whatever
\* page it is, whatever clients upload between two pages and wherever R2 goes back to.
ReconcileSeesAll ==
    pc = "reconciled" => known \subseteq Present(found)

\* reconcile ends although clients go on uploading behind and ahead of its marker, and
\* although R2 goes back and repeats a page: what was listed before is refused.
ListingEnds == pc \in {"reconcile", "verify"} ~> pc \notin {"reconcile", "verify"}

\* "signs exact content lengths" (PresignedMultipartBuilder::file_size): no part
\* uploaded with a signed request has another length than the plan gives it.
SignedLengthsHold == \A p \in Present(stored) : stored[p] \in Exact
=============================================================================
