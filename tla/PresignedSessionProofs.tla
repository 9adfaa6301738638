------------------------ MODULE PresignedSessionProofs ------------------------
(*****************************************************************************)
(* Proofs about PresignedSession for every number of parts, page size, set   *)
(* of bodies and number of restarts.                                         *)
(*                                                                           *)
(* The inductive invariant IInv is TypeOK with four further parts:           *)
(*   LifeInv    what was listed or uploaded stays until the session aborts;  *)
(*   FoundInv   what the pages read so far have of it;                       *)
(*   WholeInv   every completion on the wire names every part;               *)
(*   ExactInv   what was verified of completions, those left behind by a     *)
(*              crash included.                                              *)
(* Then progress of the listing: each page adds parts to what was found.     *)
(*****************************************************************************)
EXTENDS PresignedSession, FiniteSetTheorems, TLAPS

LifeInv ==
    /\ pc = "create" => upload = "none" /\ known = {}
    /\ upload # "aborted" => \A p \in known : stored[p] # NoBody

FoundInv ==
    /\ \A p \in Parts : found[p] # NoBody => found[p] \in Exact
    /\ pc \in {"reconcile", "verify"} => \A p \in known : p <= marker => found[p] # NoBody
    /\ pc = "reconciled" => \A p \in known : found[p] # NoBody

Whole(m) == \A p \in Parts : m[p] # NoBody
AllExact(m) == \A p \in Parts : m[p] \in Exact

WholeInv ==
    /\ \A m \in late : Whole(m)
    /\ pc = "complete" => Whole(manifest)
    /\ upload = "completed" => Whole(object)

ExactInv ==
    /\ pc = "verify" => verified
    /\ pc = "complete" /\ ~unverified => verified
    /\ pc = "complete" /\ verified => manifest = found
    /\ ~unverified => \A m \in late : AllExact(m)
    /\ ~unverified /\ upload = "completed" => AllExact(object)
    /\ answer = "ok" => pc = "complete" /\ upload = "completed" /\ object = manifest
    /\ outcome # "none" => pc = "done"
    /\ outcome = "ok" => upload = "completed" /\ object = manifest
    /\ outcome = "ok" /\ verified => manifest = found

IInv == TypeOK /\ LifeInv /\ FoundInv /\ WholeInv /\ ExactInv

USE SessionAssumption DEF SessionAssumption

----------------------------------------------------------------------------
(* Manifests and pages *)

LEMMA WholeIsPresent ==
    ASSUME NEW m
    PROVE  Present(m) = Parts <=> Whole(m)
  BY DEF Present, Whole

LEMMA EmptyManifest == Empty \in Manifest /\ \A p \in Parts : Empty[p] = NoBody
  BY DEF Empty, Manifest

\* A page has every remaining part up to its last one.
LEMMA PageIsPrefix ==
    ASSUME NEW from, NEW last \in Page(from), NEW p \in Remaining(from), p <= last
    PROVE  p \in Page(from)
<1> DEFINE upTo(r) == {q \in Remaining(from) : q <= r}
<1>1. Remaining(from) \subseteq Parts /\ Page(from) \subseteq Remaining(from)
  BY DEF Remaining, Page, Present
<1>2. IsFiniteSet(Parts)
  BY FS_Interval DEF Parts
<1>3. IsFiniteSet(upTo(last))
  BY <1>1, <1>2, FS_Subset
<1>4. upTo(p) \in SUBSET upTo(last)
  <2>1. p \in Nat /\ last \in Nat /\ \A q \in Remaining(from) : q \in Nat
    BY <1>1 DEF Parts
  <2>2. \A q \in Remaining(from) : q <= p => q <= last
    BY <2>1
  <2> QED
    BY <2>2
<1>5. Cardinality(upTo(p)) <= Cardinality(upTo(last))
  BY <1>3, <1>4, FS_Subset
<1>6. Cardinality(upTo(last)) \in Nat /\ Cardinality(upTo(p)) \in Nat
  BY <1>3, <1>4, FS_Subset, FS_CardinalityType
<1>7. Cardinality(upTo(last)) <= PageSize
  BY DEF Page
<1>8. Cardinality(upTo(p)) <= PageSize
  BY <1>5, <1>6, <1>7
<1> QED
  BY <1>8 DEF Page

\* What a listing starts from.
LEMMA ListingStarted ==
    ASSUME TypeOK, StartListing
    PROVE  /\ marker' = 0 /\ marker' \in 0..PartCount
           /\ found' = Empty
           /\ known' \in SUBSET Parts
           /\ \A p \in known' : stored[p] # NoBody /\ ~(p <= marker')
  BY DEF TypeOK, StartListing, Present, Parts

\* The two ways to complete.
LEMMA CompleteCases ==
    ASSUME TypeOK, CompleteFromReceipts \/ CompleteFromReconciliation
    PROVE  /\ pc \in {"idle", "reconciled"}
           /\ manifest' \in Manifest /\ verified' \in BOOLEAN
           /\ UNCHANGED <<remoteVars, late, restarts>>
           /\ \/ /\ pc' = "verify" /\ verified' /\ StartListing
                 /\ UNCHANGED <<answer, outcome, unverified>>
              \/ /\ pc' = "complete" /\ ~verified' /\ Whole(manifest') /\ unverified' = TRUE
                 /\ UNCHANGED <<listVars, answer, outcome>>
              \/ /\ pc' = "done" /\ outcome' = "error" /\ answer' = "none"
                 /\ UNCHANGED <<listVars, unverified>>
<1>1. CASE CompleteFromReceipts
  <2>1. PICK m \in Manifest, verify \in BOOLEAN : Complete(m, verify)
    BY <1>1 DEF CompleteFromReceipts
  <2> QED
    BY <1>1, <2>1, WholeIsPresent DEF CompleteFromReceipts, Complete, Return
<1>2. CASE CompleteFromReconciliation
  <2>1. PICK verify \in BOOLEAN : Complete(found, verify)
    BY <1>2 DEF CompleteFromReconciliation
  <2> QED
    BY <1>2, <2>1, WholeIsPresent DEF CompleteFromReconciliation, Complete, Return, TypeOK
<1> QED
  BY <1>1, <1>2

\* What taking a valid page does to what was found.
LEMMA PageTaken ==
    ASSUME TypeOK, NEW from, PageIsValid(from), TakePage(from)
    PROVE  /\ found' \in Manifest
           /\ \A p \in Page(from) : p \in Parts /\ found'[p] \in Exact /\ found'[p] # NoBody
           /\ \A p \in Page(from) : found[p] = NoBody
           /\ \A p \in Parts \ Page(from) : found'[p] = found[p]
<1>1. Page(from) \subseteq Parts
  BY DEF Page, Remaining, Present
<1> QED
  BY <1>1 DEF TypeOK, PageIsValid, TakePage, Manifest

----------------------------------------------------------------------------
(* The invariant *)

ClientStep == \E p \in Parts, b \in Bodies : ClientUploads(p, b)

LEMMA InitInv == Init => IInv
<1> SUFFICES ASSUME Init PROVE IInv
  OBVIOUS
<1>1. TypeOK
  <2>1. marker \in 0..PartCount /\ restarts \in 0..MaxRestarts
    BY DEF Init
  <2>2. Empty \in Manifest
    BY EmptyManifest
  <2> QED
    BY <2>1, <2>2 DEF Init, TypeOK
<1>2. LifeInv /\ FoundInv
  BY EmptyManifest DEF Init, LifeInv, FoundInv
<1>3. WholeInv /\ ExactInv
  BY DEF Init, WholeInv, ExactInv
<1> QED
  BY <1>1, <1>2, <1>3 DEF IInv

LEMMA TypeStep ==
    ASSUME IInv, [Next]_vars
    PROVE  TypeOK'
<1> USE DEF IInv, TypeOK, remoteVars, listVars, sessionVars
<1>1. CASE CreateSession
  BY <1>1 DEF CreateSession
<1>2. CASE CreateFails
  BY <1>2 DEF CreateFails, Return
<1>3. CASE Restore
  <2>1. late' \subseteq Manifest
    BY <1>3 DEF Restore
  <2>2. restarts' \in 0..MaxRestarts /\ marker' \in 0..PartCount
    BY <1>3 DEF Restore
  <2> QED
    BY <1>3, <2>1, <2>2, EmptyManifest DEF Restore
<1>4. CASE Reconcile
  BY <1>4, ListingStarted, EmptyManifest DEF Reconcile
<1>5. CASE CompleteFromReceipts
  BY <1>5, CompleteCases, ListingStarted, EmptyManifest
<1>6. CASE CompleteFromReconciliation
  BY <1>6, CompleteCases, ListingStarted, EmptyManifest
<1>7. CASE MissingParts
  BY <1>7 DEF MissingParts
<1>8. CASE CompleteSucceeds
  BY <1>8 DEF CompleteSucceeds, Return
<1>9. CASE CompleteFails
  BY <1>9 DEF CompleteFails, Return
<1>10. ASSUME NEW from \in 0..marker, ListPage(from) PROVE TypeOK'
  <2>1. found' \in Manifest /\ marker' \in Parts
    BY <1>10, PageTaken DEF ListPage
  <2>2. marker' \in 0..PartCount
    BY <2>1 DEF Parts
  <2> QED
    BY <1>10, <2>1, <2>2 DEF ListPage
<1>11. ASSUME NEW from \in 0..marker, ReconcileReturns(from) PROVE TypeOK'
  BY <1>11, PageTaken DEF ReconcileReturns
<1>12. CASE ListFails
  BY <1>12 DEF ListFails, Return
<1>13. ASSUME NEW from \in 0..marker, ReceiptsMatch(from) PROVE TypeOK'
  BY <1>13, PageTaken DEF ReceiptsMatch
<1>14. ASSUME NEW from \in 0..marker, ReceiptsDiffer(from) PROVE TypeOK'
  BY <1>14, PageTaken DEF ReceiptsDiffer, Return
<1>15. CASE HandleComplete
  BY <1>15 DEF HandleComplete, Accepts, Publish
<1>16. CASE LateComplete
  BY <1>16 DEF LateComplete, Accepts, Publish
<1>17. CASE ClientStep
  <2>1. PICK p \in Parts, b \in Bodies : ClientUploads(p, b)
    BY <1>17 DEF ClientStep
  <2>2. stored' \in Manifest
    BY <2>1 DEF ClientUploads, Manifest
  <2> QED
    BY <2>1, <2>2 DEF ClientUploads
<1>18. CASE OtherCompletes
  BY <1>18 DEF OtherCompletes, Accepts, Publish
<1>19. CASE OtherAborts
  BY <1>19, EmptyManifest DEF OtherAborts
<1>20. CASE UNCHANGED vars
  BY <1>20 DEF vars
<1> QED
  BY <1>1, <1>2, <1>3, <1>4, <1>5, <1>6, <1>7, <1>8, <1>9, <1>10, <1>11, <1>12,
     <1>13, <1>14, <1>15, <1>16, <1>17, <1>18, <1>19, <1>20
  DEF Next, ListStep, ServerStep, RemoteStep, OthersStep, ClientStep

LEMMA LifeStep ==
    ASSUME IInv, [Next]_vars
    PROVE  LifeInv'
<1> USE DEF IInv, TypeOK, LifeInv, Present, Manifest, remoteVars, listVars, sessionVars
<1>1. CASE CreateSession
  BY <1>1 DEF CreateSession
<1>2. CASE CreateFails
  BY <1>2 DEF CreateFails, Return
<1>3. CASE Restore
  BY <1>3, EmptyManifest DEF Restore
<1>4. CASE Reconcile
  BY <1>4, ListingStarted, EmptyManifest DEF Reconcile
<1>5. CASE CompleteFromReceipts
  BY <1>5, CompleteCases, ListingStarted, EmptyManifest
<1>6. CASE CompleteFromReconciliation
  BY <1>6, CompleteCases, ListingStarted, EmptyManifest
<1>7. CASE MissingParts
  BY <1>7 DEF MissingParts
<1>8. CASE CompleteSucceeds
  BY <1>8 DEF CompleteSucceeds, Return
<1>9. CASE CompleteFails
  BY <1>9 DEF CompleteFails, Return
<1>10. ASSUME NEW from \in 0..marker, ListPage(from) PROVE LifeInv'
  BY <1>10, PageTaken DEF ListPage
<1>11. ASSUME NEW from \in 0..marker, ReconcileReturns(from) PROVE LifeInv'
  BY <1>11, PageTaken DEF ReconcileReturns
<1>12. CASE ListFails
  BY <1>12 DEF ListFails, Return
<1>13. ASSUME NEW from \in 0..marker, ReceiptsMatch(from) PROVE LifeInv'
  BY <1>13, PageTaken DEF ReceiptsMatch
<1>14. ASSUME NEW from \in 0..marker, ReceiptsDiffer(from) PROVE LifeInv'
  BY <1>14, PageTaken DEF ReceiptsDiffer, Return
<1>15. CASE HandleComplete
  BY <1>15 DEF HandleComplete, Accepts, Publish
<1>16. CASE LateComplete
  BY <1>16 DEF LateComplete, Accepts, Publish
<1>17. CASE ClientStep
  <2>1. PICK p \in Parts, b \in Bodies : ClientUploads(p, b)
    BY <1>17 DEF ClientStep
  <2>2. \A q \in Parts : stored[q] # NoBody => stored'[q] # NoBody
    BY <2>1 DEF ClientUploads
  <2> QED
    BY <2>1, <2>2 DEF ClientUploads
<1>18. CASE OtherCompletes
  BY <1>18 DEF OtherCompletes, Accepts, Publish
<1>19. CASE OtherAborts
  BY <1>19, EmptyManifest DEF OtherAborts
<1>20. CASE UNCHANGED vars
  BY <1>20 DEF vars
<1> QED
  BY <1>1, <1>2, <1>3, <1>4, <1>5, <1>6, <1>7, <1>8, <1>9, <1>10, <1>11, <1>12,
     <1>13, <1>14, <1>15, <1>16, <1>17, <1>18, <1>19, <1>20
  DEF Next, ListStep, ServerStep, RemoteStep, OthersStep, ClientStep

LEMMA FoundStep ==
    ASSUME IInv, [Next]_vars
    PROVE  FoundInv'
<1> USE DEF IInv, TypeOK, FoundInv, LifeInv, remoteVars, listVars, sessionVars
<1>1. CASE CreateSession
  BY <1>1 DEF CreateSession
<1>2. CASE CreateFails
  BY <1>2 DEF CreateFails, Return
<1>3. CASE Restore
  BY <1>3, EmptyManifest DEF Restore
<1>4. CASE Reconcile
  BY <1>4, ListingStarted, EmptyManifest DEF Reconcile
<1>5. CASE CompleteFromReceipts
  BY <1>5, CompleteCases, ListingStarted, EmptyManifest
<1>6. CASE CompleteFromReconciliation
  BY <1>6, CompleteCases, ListingStarted, EmptyManifest
<1>7. CASE MissingParts
  BY <1>7 DEF MissingParts
<1>8. CASE CompleteSucceeds
  BY <1>8 DEF CompleteSucceeds, Return
<1>9. CASE CompleteFails
  BY <1>9 DEF CompleteFails, Return
<1>10. ASSUME NEW from \in 0..marker, ListPage(from) PROVE FoundInv'
  <2>1. PICK last \in Page(from) : (\A q \in Page(from) : q <= last) /\ marker' = last
    BY <1>10 DEF ListPage
  <2>2. ASSUME NEW p \in known, p <= last, ~(p <= marker)
        PROVE  p \in Page(from)
    <3>1. p \in Parts /\ stored[p] # NoBody
      BY <1>10 DEF ListPage, PageIsValid
    <3>2. p > from
      BY <1>10, <2>2, <3>1 DEF Parts
    <3>3. p \in Remaining(from)
      BY <3>1, <3>2 DEF Remaining, Present
    <3> QED
      BY <2>2, <3>3, PageIsPrefix
  <2>3. \A p \in known : p <= marker' => found'[p] # NoBody
    BY <1>10, <2>1, <2>2, PageTaken DEF ListPage
  <2> QED
    BY <1>10, <2>3, PageTaken DEF ListPage
<1>11. ASSUME NEW from \in 0..marker, ReconcileReturns(from) PROVE FoundInv'
  <2>1. ASSUME NEW p \in known
        PROVE  p \in Page(from) \/ found[p] # NoBody
    <3>1. p \in Parts /\ stored[p] # NoBody
      BY <1>11 DEF ReconcileReturns, PageIsValid
    <3>2. CASE p <= marker
      BY <1>11, <3>2 DEF ReconcileReturns
    <3>3. CASE ~(p <= marker)
      <4>1. p > from
        BY <1>11, <3>1, <3>3 DEF Parts
      <4> QED
        BY <1>11, <3>1, <4>1 DEF ReconcileReturns, Truncated, Remaining, Present
    <3> QED
      BY <3>2, <3>3
  <2>2. \A p \in known : found'[p] # NoBody
    BY <1>11, <2>1, PageTaken DEF ReconcileReturns
  <2> QED
    BY <1>11, <2>2, PageTaken DEF ReconcileReturns
<1>12. CASE ListFails
  BY <1>12 DEF ListFails, Return
<1>13. ASSUME NEW from \in 0..marker, ReceiptsMatch(from) PROVE FoundInv'
  BY <1>13, PageTaken DEF ReceiptsMatch
<1>14. ASSUME NEW from \in 0..marker, ReceiptsDiffer(from) PROVE FoundInv'
  BY <1>14, PageTaken DEF ReceiptsDiffer, Return
<1>15. CASE HandleComplete
  BY <1>15 DEF HandleComplete, Accepts, Publish
<1>16. CASE LateComplete
  BY <1>16 DEF LateComplete, Accepts, Publish
<1>17. CASE ClientStep
  BY <1>17 DEF ClientStep, ClientUploads
<1>18. CASE OtherCompletes
  BY <1>18 DEF OtherCompletes, Accepts, Publish
<1>19. CASE OtherAborts
  BY <1>19, EmptyManifest DEF OtherAborts
<1>20. CASE UNCHANGED vars
  BY <1>20 DEF vars
<1> QED
  BY <1>1, <1>2, <1>3, <1>4, <1>5, <1>6, <1>7, <1>8, <1>9, <1>10, <1>11, <1>12,
     <1>13, <1>14, <1>15, <1>16, <1>17, <1>18, <1>19, <1>20
  DEF Next, ListStep, ServerStep, RemoteStep, OthersStep, ClientStep

LEMMA WholeStep ==
    ASSUME IInv, [Next]_vars
    PROVE  WholeInv'
<1> USE DEF IInv, TypeOK, WholeInv, remoteVars, listVars, sessionVars
<1>1. CASE CreateSession
  BY <1>1, WholeIsPresent DEF CreateSession
<1>2. CASE CreateFails
  BY <1>2, WholeIsPresent DEF CreateFails, Return
<1>3. CASE Restore
  BY <1>3, EmptyManifest, WholeIsPresent DEF Restore
<1>4. CASE Reconcile
  BY <1>4, ListingStarted, EmptyManifest DEF Reconcile
<1>5. CASE CompleteFromReceipts
  BY <1>5, CompleteCases, ListingStarted, EmptyManifest
<1>6. CASE CompleteFromReconciliation
  BY <1>6, CompleteCases, ListingStarted, EmptyManifest
<1>7. CASE MissingParts
  BY <1>7, WholeIsPresent DEF MissingParts
<1>8. CASE CompleteSucceeds
  BY <1>8, WholeIsPresent DEF CompleteSucceeds, Return
<1>9. CASE CompleteFails
  BY <1>9, WholeIsPresent DEF CompleteFails, Return
<1>10. ASSUME NEW from \in 0..marker, ListPage(from) PROVE WholeInv'
  BY <1>10, PageTaken, WholeIsPresent DEF ListPage
<1>11. ASSUME NEW from \in 0..marker, ReconcileReturns(from) PROVE WholeInv'
  BY <1>11, PageTaken, WholeIsPresent DEF ReconcileReturns
<1>12. CASE ListFails
  BY <1>12, WholeIsPresent DEF ListFails, Return
<1>13. ASSUME NEW from \in 0..marker, ReceiptsMatch(from) PROVE WholeInv'
  BY <1>13, PageTaken, WholeIsPresent DEF ReceiptsMatch
<1>14. ASSUME NEW from \in 0..marker, ReceiptsDiffer(from) PROVE WholeInv'
  BY <1>14, PageTaken, WholeIsPresent DEF ReceiptsDiffer, Return
<1>15. CASE HandleComplete
  BY <1>15, WholeIsPresent DEF HandleComplete, Accepts, Publish
<1>16. CASE LateComplete
  BY <1>16, WholeIsPresent DEF LateComplete, Accepts, Publish
<1>17. CASE ClientStep
  BY <1>17, WholeIsPresent DEF ClientStep, ClientUploads
<1>18. CASE OtherCompletes
  BY <1>18, WholeIsPresent DEF OtherCompletes, Accepts, Publish
<1>19. CASE OtherAborts
  BY <1>19, EmptyManifest, WholeIsPresent DEF OtherAborts
<1>20. CASE UNCHANGED vars
  BY <1>20 DEF vars
<1> QED
  BY <1>1, <1>2, <1>3, <1>4, <1>5, <1>6, <1>7, <1>8, <1>9, <1>10, <1>11, <1>12,
     <1>13, <1>14, <1>15, <1>16, <1>17, <1>18, <1>19, <1>20
  DEF Next, ListStep, ServerStep, RemoteStep, OthersStep, ClientStep

LEMMA ExactStep ==
    ASSUME IInv, [Next]_vars
    PROVE  ExactInv'
<1> USE DEF IInv, TypeOK, ExactInv, FoundInv, WholeInv, Whole, AllExact, remoteVars, listVars, sessionVars
<1>1. CASE CreateSession
  BY <1>1, WholeIsPresent DEF CreateSession
<1>2. CASE CreateFails
  BY <1>2, WholeIsPresent DEF CreateFails, Return
<1>3. CASE Restore
  BY <1>3, EmptyManifest, WholeIsPresent DEF Restore
<1>4. CASE Reconcile
  BY <1>4, ListingStarted, EmptyManifest DEF Reconcile
<1>5. CASE CompleteFromReceipts
  BY <1>5, CompleteCases, ListingStarted, EmptyManifest
<1>6. CASE CompleteFromReconciliation
  BY <1>6, CompleteCases, ListingStarted, EmptyManifest
<1>7. CASE MissingParts
  BY <1>7, WholeIsPresent DEF MissingParts
<1>8. CASE CompleteSucceeds
  BY <1>8, WholeIsPresent DEF CompleteSucceeds, Return
<1>9. CASE CompleteFails
  BY <1>9, WholeIsPresent DEF CompleteFails, Return
<1>10. ASSUME NEW from \in 0..marker, ListPage(from) PROVE ExactInv'
  BY <1>10, PageTaken, WholeIsPresent DEF ListPage
<1>11. ASSUME NEW from \in 0..marker, ReconcileReturns(from) PROVE ExactInv'
  BY <1>11, PageTaken, WholeIsPresent DEF ReconcileReturns
<1>12. CASE ListFails
  BY <1>12, WholeIsPresent DEF ListFails, Return
<1>13. ASSUME NEW from \in 0..marker, ReceiptsMatch(from) PROVE ExactInv'
  <2>1. manifest = found' /\ verified
    BY <1>13 DEF ReceiptsMatch
  <2> QED
    BY <1>13, <2>1 DEF ReceiptsMatch
<1>14. ASSUME NEW from \in 0..marker, ReceiptsDiffer(from) PROVE ExactInv'
  BY <1>14, PageTaken, WholeIsPresent DEF ReceiptsDiffer, Return
<1>15. CASE HandleComplete
  BY <1>15, WholeIsPresent DEF HandleComplete, Accepts, Publish
<1>16. CASE LateComplete
  BY <1>16, WholeIsPresent DEF LateComplete, Accepts, Publish
<1>17. CASE ClientStep
  BY <1>17, WholeIsPresent DEF ClientStep, ClientUploads
<1>18. CASE OtherCompletes
  BY <1>18, WholeIsPresent DEF OtherCompletes, Accepts, Publish
<1>19. CASE OtherAborts
  BY <1>19, EmptyManifest, WholeIsPresent DEF OtherAborts
<1>20. CASE UNCHANGED vars
  BY <1>20 DEF vars
<1> QED
  BY <1>1, <1>2, <1>3, <1>4, <1>5, <1>6, <1>7, <1>8, <1>9, <1>10, <1>11, <1>12,
     <1>13, <1>14, <1>15, <1>16, <1>17, <1>18, <1>19, <1>20
  DEF Next, ListStep, ServerStep, RemoteStep, OthersStep, ClientStep

THEOREM Invariance == Spec => []IInv
<1>1. IInv /\ [Next]_vars => IInv'
  BY TypeStep, LifeStep, FoundStep, WholeStep, ExactStep DEF IInv
<1> QED
  BY InitInv, <1>1, PTL DEF Spec

----------------------------------------------------------------------------
(* The properties *)

\* Types of every variable of PresignedSession.
THEOREM TypeCorrect == Spec => []TypeOK
<1>1. IInv => TypeOK
  BY DEF IInv
<1> QED
  BY Invariance, <1>1, PTL

\* complete and complete_verified publish nothing with a part of the plan missing,
\* for any receipts, late completions and crashes included.
THEOREM PublishesWhole == Spec => []ObjectIsWhole
<1>1. IInv => ObjectIsWhole
  BY WholeIsPresent DEF IInv, WholeInv, ObjectIsWhole
<1> QED
  BY Invariance, <1>1, PTL

\* Ok of complete_verified is about what R2 listed, and a session that nothing else
\* completes only ever publishes the planned lengths.
THEOREM VerificationHolds == Spec => []VerifiedIsExact
<1>1. IInv => VerifiedIsExact
  BY DEF IInv, ExactInv, AllExact, VerifiedIsExact
<1> QED
  BY Invariance, <1>1, PTL

\* Whatever clients upload between two pages, reconcile has every part that R2 held
\* when it was called, for any number of parts and size of page.
THEOREM ReconcileIsComplete == Spec => []ReconcileSeesAll
<1>1. IInv => ReconcileSeesAll
  BY DEF IInv, TypeOK, FoundInv, ReconcileSeesAll, Present
<1> QED
  BY Invariance, <1>1, PTL

----------------------------------------------------------------------------
(* Progress *)

Listing == pc \in {"reconcile", "verify"}

Listed == Cardinality(Present(found))

\* A page ends the listing or adds parts to what was found.
PageTurned == ~Listing' \/ Listed' > Listed

LEMMA ListedIsBounded ==
    ASSUME NEW m
    PROVE  /\ IsFiniteSet(Present(m))
           /\ Cardinality(Present(m)) \in 0..PartCount
<1>1. IsFiniteSet(Parts) /\ Cardinality(Parts) = PartCount
  <2>1. 1 \in Int /\ PartCount \in Int
    OBVIOUS
  <2> QED
    BY <2>1, FS_Interval DEF Parts
<1>2. Present(m) \in SUBSET Parts
  BY DEF Present
<1> QED
  BY <1>1, <1>2, FS_Subset, FS_CardinalityType

LEMMA ListStepTurns ==
    ASSUME TypeOK, ListStep
    PROVE  PageTurned
<1> USE DEF PageTurned, Listing
<1>1. ASSUME NEW from \in 0..marker, ListPage(from) PROVE PageTurned
  <2>1. PICK p \in Page(from) : marker' = p
    BY <1>1 DEF ListPage
  <2>2. p \in Present(found') /\ p \notin Present(found)
    BY <1>1, PageTaken DEF ListPage, Present
  <2>3. Present(found) \in SUBSET Present(found')
    BY <1>1, PageTaken DEF ListPage, Present
  <2>4. Cardinality(Present(found)) <= Cardinality(Present(found'))
    BY <2>3, ListedIsBounded, FS_Subset
  <2>5. Cardinality(Present(found)) # Cardinality(Present(found'))
    BY <2>2, <2>3, ListedIsBounded, FS_Subset
  <2>6. Cardinality(Present(found)) \in 0..PartCount
        /\ Cardinality(Present(found')) \in 0..PartCount
    BY ListedIsBounded
  <2>7. Cardinality(Present(found')) > Cardinality(Present(found))
    BY <2>4, <2>5, <2>6
  <2> QED
    BY <2>7 DEF Listed, Present
<1>2. ASSUME NEW from \in 0..marker, ReceiptsDiffer(from) PROVE PageTurned
  BY <1>2 DEF ReceiptsDiffer, Return
<1>3. ASSUME NEW from \in 0..marker, ReconcileReturns(from) \/ ReceiptsMatch(from)
      PROVE  PageTurned
  BY <1>3 DEF ReconcileReturns, ReceiptsMatch
<1>4. CASE ListFails
  BY <1>4 DEF ListFails, Return
<1> QED
  BY <1>1, <1>2, <1>3, <1>4 DEF ListStep

\* Nothing but a page, or a restart of the server, touches a listing under way.
LEMMA OnlyPagesTurn ==
    ASSUME Listing, [Next]_vars, ~ListStep
    PROVE  ~Listing' \/ UNCHANGED <<pc, found>>
<1> USE DEF Listing, remoteVars, listVars, sessionVars
<1>1. ServerStep => ~Listing'
  BY DEF ServerStep, CreateSession, CreateFails, Restore, Reconcile, CompleteFromReceipts,
     CompleteFromReconciliation, MissingParts, CompleteSucceeds, CompleteFails
<1>2. RemoteStep \/ OthersStep \/ UNCHANGED vars => UNCHANGED <<pc, found>>
  BY DEF RemoteStep, HandleComplete, LateComplete, OthersStep, ClientUploads, OtherCompletes,
     OtherAborts, vars
<1> QED
  BY <1>1, <1>2 DEF Next

\* Neither clients nor R2 can keep reconcile or complete_verified listing: whatever is
\* uploaded between two pages and whichever page R2 repeats, each page that is accepted
\* adds to what was found, which is at most the plan, and nothing takes it away.
THEOREM PagesAdvance ==
    Spec => /\ [](Listed \in 0..PartCount)
            /\ [][Listing /\ Listing' =>
                     IF ListStep THEN Listed' > Listed ELSE found' = found]_vars
<1>1. IInv /\ [Next]_vars =>
          (Listing /\ Listing' => IF ListStep THEN Listed' > Listed ELSE found' = found)
  BY ListStepTurns, OnlyPagesTurn DEF IInv, PageTurned
<1>2. Listed \in 0..PartCount
  BY ListedIsBounded DEF Listed
<1> QED
  BY <1>1, <1>2, Invariance, PTL DEF Spec

\* What the fairness of FairSpec is read with: no prover here computes ENABLED.
GuardsEnable == Listing => ENABLED <<ListStep>>_vars

\* As long as the listing goes on there is another page to come, or its end; by
\* PagesAdvance there are only so many, so it ends (ListingEnds).
THEOREM WorkGoesOn == FairSpec /\ []GuardsEnable => [](Listing => <><<PageTurned>>_vars)
<1>1. Listing /\ [Next]_vars /\ IInv => Listing' \/ <<PageTurned>>_vars
  <2> SUFFICES ASSUME Listing, [Next]_vars, ~Listing'
               PROVE  <<PageTurned>>_vars
    OBVIOUS
  <2>1. vars' # vars
    BY DEF Listing, vars
  <2> QED
    BY <2>1 DEF PageTurned
<1>2. IInv /\ <<ListStep>>_vars => <<PageTurned>>_vars
  BY ListStepTurns DEF IInv
<1> QED
  BY <1>1, <1>2, Invariance, PTL DEF FairSpec, Spec, GuardsEnable
==============================================================================
