--------------------------- MODULE CleanupProofs ---------------------------
(***************************************************************************)
(* Proofs about Listing and Cleanup for every number of keys, of uploads   *)
(* per key, of entries in a page and of keys in a batch.                   *)
(*                                                                         *)
(* The inductive invariant IInv is CleanupTypeOK with four further parts:  *)
(*   PageInv      what the stream has of the entries that stayed;          *)
(*   PhaseInv     what each phase of the clean-up has left to do;          *)
(*   DeletionInv  where every requested key is, and what was removed;      *)
(*   CountInv     the requests there can still be.                         *)
(* Then progress of the listing: its rank, which every step of it lowers.  *)
(***************************************************************************)
EXTENDS Cleanup, FiniteSetTheorems, TLAPS

PageInv ==
    /\ pc = "open" =>
          \A e \in stable : Before(marker, e) \/ e \in page \/ e \in yielded
    /\ pc \in {"last", "ended"} => stable \subseteq page \union yielded
    /\ pc \in {"ended", "failed"} => page = {}
    /\ FailsForAReason

PhaseInv ==
    /\ phase = "list" =>
          /\ todo = {} /\ batch = {} /\ late = {} /\ removed = {}
          /\ result = NoResult /\ response = NoAnswer /\ outcome = "none" /\ requested = {}
    /\ phase # "list" => pc \in {"ended", "failed"}
    /\ phase = "delete" => outcome = "none" /\ (batch = {} => response = NoAnswer)
    /\ phase = "delete" \/ outcome = "ok" => stable \subseteq requested
    /\ outcome = "ok" => todo = {} /\ batch = {}

DeletionInv ==
    /\ todo \intersect batch = {}
    /\ \A b \in late : todo \intersect b = {}
    /\ removed \intersect todo = {}
    /\ removed \intersect stable = {}
    /\ response.deleted \subseteq removed
    /\ result.deleted \subseteq removed
    /\ response.answered =>
          batch \subseteq UNION {response.deleted, response.failed, omitted}
    /\ phase # "list" /\ outcome # "invalid" =>
          requested \subseteq UNION {result.deleted, result.failures, omitted, todo, batch}

Pending == todo \union batch

CountInv ==
    phase # "done" => result.requests + Cardinality(Pending) <= Cardinality(Entries)

IInv == CleanupTypeOK /\ PageInv /\ PhaseInv /\ DeletionInv /\ CountInv

USE ListingAssumption, BatchAssumption DEF ListingAssumption, BatchAssumption

----------------------------------------------------------------------------
(* Entries and pages *)

LEMMA EntryType ==
    /\ Entries \subseteq Entry
    /\ \A e \in Entries : e.key \in Nat /\ e.upload \in Nat
    /\ Start.key \in Nat /\ Start.upload \in Nat
  BY DEF Entries, Entry, Start

LEMMA EntriesFinite == IsFiniteSet(Entries)
<1> DEFINE pairs == (1..Keys) \X (1..UploadsPerKey)
           entryOf == [t \in pairs |-> [key |-> t[1], upload |-> t[2]]]
<1>1. IsFiniteSet(1..Keys) /\ IsFiniteSet(1..UploadsPerKey)
  BY FS_Interval
<1>2. IsFiniteSet(pairs)
  BY <1>1, FS_Product
<1>3. entryOf \in [pairs -> Entry]
  BY DEF Entry
<1>4. ASSUME NEW e \in Entry PROVE \E t \in pairs : entryOf[t] = e
  <2>1. <<e.key, e.upload>> \in pairs
    BY DEF Entry
  <2>2. entryOf[<<e.key, e.upload>>] = e
    BY <2>1 DEF Entry
  <2> QED
    BY <2>1, <2>2
<1>5. entryOf \in Surjection(pairs, Entry)
  BY <1>3, <1>4 DEF Surjection
<1>6. IsFiniteSet(Entry)
  BY <1>2, <1>5, FS_Surjection
<1> QED
  BY <1>6, EntryType, FS_Subset

LEMMA SubsetFinite ==
    ASSUME NEW s \in SUBSET Entries
    PROVE  /\ IsFiniteSet(s) /\ Cardinality(s) \in Nat
           /\ Cardinality(s) <= Cardinality(Entries)
  BY EntriesFinite, FS_Subset, FS_CardinalityType

\* A page has every remaining entry up to its last one.
LEMMA PageIsPrefix ==
    ASSUME TypeOK,
           NEW last \in Page, NEW e \in Remaining, ~Before(last, e)
    PROVE  e \in Page
<1> DEFINE upTo(r) == {d \in Remaining : ~Before(r, d)}
<1>1. Remaining \subseteq Entries /\ Page \subseteq Remaining
  BY DEF Remaining, Page, TypeOK
<1>2. upTo(last) \in SUBSET Entries
  BY <1>1
<1>3. upTo(e) \in SUBSET upTo(last)
  <2>1. ASSUME NEW d \in Remaining, ~Before(e, d)
        PROVE  ~Before(last, d)
    BY <2>1, <1>1, EntryType DEF Before
  <2> QED
    BY <2>1
<1>4. IsFiniteSet(upTo(last)) /\ Cardinality(upTo(last)) \in Nat
  BY <1>2, SubsetFinite
<1>5. Cardinality(upTo(e)) <= Cardinality(upTo(last))
  BY <1>3, <1>4, FS_Subset
<1>6. Cardinality(upTo(e)) \in Nat
  BY <1>2, <1>3, SubsetFinite
<1>7. Cardinality(upTo(last)) <= Limit
  BY DEF Page
<1>8. Cardinality(upTo(e)) <= Limit
  BY <1>4, <1>5, <1>6, <1>7
<1> QED
  BY <1>8 DEF Page

\* The last entry of a page is past the marker, so it repeats nothing.
LEMMA NextIsNew ==
    ASSUME TypeOK, NEW next \in Page
    PROVE  ~Repeats(next)
<1>1. next \in Entries /\ Before(marker, next)
  BY DEF Page, Remaining, TypeOK
<1> QED
  BY <1>1, EntryType DEF Before, Repeats, TypeOK

----------------------------------------------------------------------------
(* The listing *)

LEMMA KindStays ==
    ASSUME [CleanupNext]_cleanupVars
    PROVE  kind' = kind
  BY DEF CleanupNext, ListingStep, StreamStep, FetchPage, FetchLastPage, FetchRepeatedToken,
         FetchFails, YieldEntry, EndStream, OthersStep, PutEntry, DeleteEntry, DeletionStep,
         ListingFailed, RefuseKeys, TakeKeys, SendBatch, ResendBatch, TakeAnswer,
         TakeKeylessAnswer, RequestFails, RemoteStep, HandleDelete, HandleLate, Remove,
         cleanupVars, listingVars, vars

LEMMA EntriesStay ==
    ASSUME [CleanupNext]_cleanupVars
    PROVE  Entries' = Entries /\ Start' = Start /\ Entry' = Entry
  BY KindStays DEF Entries, Entry, Start

\* A step of the stream.
LEMMA StreamInv ==
    ASSUME TypeOK, PageInv, StreamStep, Entries' = Entries, Start' = Start
    PROVE  TypeOK' /\ PageInv' /\ UNCHANGED <<bucket, stable>> /\ pc \in {"open", "last"}
<1> USE DEF TypeOK, PageInv, FailsForAReason
<1>0. Page \subseteq Entries /\ Page \subseteq Remaining /\ Remaining \subseteq bucket
  BY DEF Page, Remaining
<1>1. CASE FetchPage
  <2>1. PICK next \in Page : IsLast(next, Page) /\ Receive(next)
    BY <1>1 DEF FetchPage
  <2>2. page' = Page /\ marker' = next /\ pc' = pc
    BY <2>1, NextIsNew DEF Receive, Continue
  <2>3. UNCHANGED <<kind, bucket, yielded, stable, faulty>> /\ pc = "open" /\ page = {}
    BY <1>1 DEF FetchPage, Asking
  <2>4. ASSUME NEW e \in stable
        PROVE  Before(next, e) \/ e \in Page \/ e \in yielded
    <3>1. CASE Before(marker, e)
      <4>1. e \in Remaining
        BY <3>1 DEF Remaining
      <4> QED
        BY <4>1, PageIsPrefix
    <3> QED
      BY <2>3, <3>1
  <2> QED
    BY <1>0, <2>2, <2>3, <2>4 DEF Before
<1>2. CASE FetchLastPage
  <2>1. stable \subseteq Remaining \union yielded
    BY <1>2 DEF FetchLastPage, Asking, Remaining
  <2> QED
    BY <1>0, <1>2, <2>1 DEF FetchLastPage, Asking, Truncated
<1>3. CASE FetchRepeatedToken
  BY <1>3 DEF FetchRepeatedToken, Asking, Receive, Repeats, Fail
<1>4. CASE FetchFails
  BY <1>4 DEF FetchFails, Asking, Fail
<1>5. CASE YieldEntry
  BY <1>5 DEF YieldEntry, Before
<1>6. CASE EndStream
  BY <1>6 DEF EndStream
<1> QED
  BY <1>1, <1>2, <1>3, <1>4, <1>5, <1>6 DEF StreamStep

\* Entries come and go: what stayed only shrinks.
LEMMA BucketShrinksInv ==
    ASSUME TypeOK, PageInv, Entries' = Entries, Start' = Start,
           UNCHANGED <<kind, pc, marker, page, yielded, faulty>>,
           bucket' \subseteq Entries, stable' \subseteq bucket', stable' \subseteq stable
    PROVE  TypeOK' /\ PageInv'
  BY DEF TypeOK, PageInv, FailsForAReason, Before

----------------------------------------------------------------------------
(* The steps of the clean-up *)

LEMMA InitInv == CleanupInit => IInv
<1> SUFFICES ASSUME CleanupInit PROVE IInv
  OBVIOUS
<1> USE DEF CleanupInit, Init, NoResult, NoAnswer
<1>1. Cardinality(Entries) \in Nat /\ Cardinality({}) = 0
  BY SubsetFinite, FS_EmptySet
<1>2. CleanupTypeOK
  <2>1. result.requests \in 0..Cardinality(Entries)
    BY <1>1
  <2> QED
    BY <2>1 DEF CleanupTypeOK, TypeOK
<1>3. PageInv
  <2>1. \A e \in Entries : Before(Start, e)
    BY DEF Start, Before, Entries, Entry
  <2> QED
    BY <2>1 DEF PageInv, FailsForAReason
<1>4. PhaseInv /\ DeletionInv
  BY DEF PhaseInv, DeletionInv
<1>5. CountInv
  BY <1>1 DEF CountInv, Pending
<1> QED
  BY <1>2, <1>3, <1>4, <1>5 DEF IInv

LEMMA ListingStepInv ==
    ASSUME IInv, ListingStep, Entries' = Entries, Start' = Start
    PROVE  IInv'
<1>1. TypeOK' /\ PageInv' /\ UNCHANGED <<bucket, stable>> /\ pc \in {"open", "last"}
  BY StreamInv DEF IInv, CleanupTypeOK, ListingStep
<1>2. UNCHANGED <<deletionVars, removed, omitted>>
  BY DEF ListingStep
<1>3. phase = "list"
  BY <1>1 DEF IInv, PhaseInv
<1> QED
  BY <1>1, <1>2, <1>3
  DEF IInv, CleanupTypeOK, PhaseInv, DeletionInv, CountInv, Pending, deletionVars

LEMMA OthersStepInv ==
    ASSUME IInv, OthersStep, Entries' = Entries, Start' = Start
    PROVE  IInv'
<1>1. UNCHANGED <<kind, pc, marker, page, yielded, faulty, deletionVars, removed, omitted>>
  BY DEF OthersStep, PutEntry, DeleteEntry
<1>2. bucket' \subseteq Entries /\ stable' \subseteq bucket' /\ stable' \subseteq stable
  BY DEF OthersStep, PutEntry, DeleteEntry, IInv, CleanupTypeOK, TypeOK
<1>3. TypeOK' /\ PageInv'
  BY <1>1, <1>2, BucketShrinksInv DEF IInv, CleanupTypeOK
<1> QED
  BY <1>1, <1>2, <1>3
  DEF IInv, CleanupTypeOK, PhaseInv, DeletionInv, CountInv, Pending, deletionVars

\* R2 removes entries of which none is still to be sent.
LEMMA RemoveInv ==
    ASSUME IInv, NEW s \in SUBSET Entries, Remove(s), s \intersect todo = {},
           phase # "list", Entries' = Entries, Start' = Start, UNCHANGED todo
    PROVE  /\ TypeOK' /\ PageInv'
           /\ removed' = removed \union s /\ removed' \subseteq Entries
           /\ removed' \intersect todo = {} /\ removed' \intersect stable' = {}
           /\ stable' \subseteq stable /\ pc' = pc
<1>1. UNCHANGED <<kind, pc, marker, page, yielded, faulty>>
  BY DEF Remove
<1>2. bucket' \subseteq Entries /\ stable' \subseteq bucket' /\ stable' \subseteq stable
  BY DEF Remove, IInv, CleanupTypeOK, TypeOK
<1>3. TypeOK' /\ PageInv'
  BY <1>1, <1>2, BucketShrinksInv DEF IInv, CleanupTypeOK
<1> QED
  BY <1>1, <1>2, <1>3 DEF Remove, IInv, CleanupTypeOK, DeletionInv

LEMMA HandleDeleteInv ==
    ASSUME IInv, HandleDelete, Entries' = Entries, Start' = Start
    PROVE  IInv'
<1> USE DEF IInv
<1>1. PICK refused \in SUBSET batch, silent \in SUBSET batch, keyless \in BOOLEAN :
          /\ Remove(batch \ refused)
          /\ response' = Answer(batch \ (refused \union silent), refused \ silent, keyless)
          /\ omitted' = omitted \union silent
  BY DEF HandleDelete
<1>2. /\ phase = "delete" /\ batch # {}
      /\ UNCHANGED <<phase, todo, batch, late, result, outcome, requested>>
  BY DEF HandleDelete, InFlight
<1>3. /\ TypeOK' /\ PageInv'
      /\ removed' = removed \union (batch \ refused) /\ removed' \subseteq Entries
      /\ removed' \intersect todo = {} /\ removed' \intersect stable' = {}
      /\ stable' \subseteq stable /\ pc' = pc
  <2>1. batch \ refused \in SUBSET Entries /\ (batch \ refused) \intersect todo = {}
    BY DEF CleanupTypeOK, DeletionInv
  <2> QED
    BY <1>1, <1>2, <2>1, RemoveInv
<1>4. CleanupTypeOK'
  BY <1>1, <1>2, <1>3 DEF CleanupTypeOK, Answer
<1>5. PhaseInv'
  BY <1>2, <1>3 DEF PhaseInv
<1>6. DeletionInv'
  <2>1. response'.deleted \subseteq removed'
    BY <1>1, <1>3 DEF Answer
  <2>2. batch \subseteq UNION {response'.deleted, response'.failed, omitted'}
    BY <1>1 DEF Answer
  <2>3. result.deleted \subseteq removed'
    BY <1>3 DEF DeletionInv
  <2>4. outcome # "invalid" =>
           requested \subseteq UNION {result.deleted, result.failures, omitted', todo, batch}
    BY <1>1, <1>2 DEF DeletionInv
  <2> QED
    BY <1>1, <1>2, <1>3, <2>1, <2>2, <2>3, <2>4 DEF DeletionInv
<1>7. CountInv'
  BY <1>2 DEF CountInv, Pending
<1> QED
  BY <1>3, <1>4, <1>5, <1>6, <1>7

LEMMA HandleLateInv ==
    ASSUME IInv, HandleLate, Entries' = Entries, Start' = Start
    PROVE  IInv'
<1> USE DEF IInv
<1>1. PICK b \in late, refused \in SUBSET Entries :
          /\ Remove(b \ refused)
          /\ late' = late \ {b}
          /\ UNCHANGED <<phase, todo, batch, response, result, outcome, requested, omitted>>
  BY DEF HandleLate
<1>2. phase # "list"
  BY <1>1 DEF PhaseInv
<1>3. /\ TypeOK' /\ PageInv'
      /\ removed' = removed \union (b \ refused) /\ removed' \subseteq Entries
      /\ removed' \intersect todo = {} /\ removed' \intersect stable' = {}
      /\ stable' \subseteq stable /\ pc' = pc
  <2>1. b \ refused \in SUBSET Entries /\ (b \ refused) \intersect todo = {}
    BY <1>1 DEF CleanupTypeOK, DeletionInv
  <2> QED
    BY <1>1, <1>2, <2>1, RemoveInv
<1>4. CleanupTypeOK'
  BY <1>1, <1>3 DEF CleanupTypeOK
<1>5. PhaseInv'
  BY <1>1, <1>2, <1>3 DEF PhaseInv
<1>6. DeletionInv'
  BY <1>1, <1>3 DEF DeletionInv
<1>7. CountInv'
  BY <1>1 DEF CountInv, Pending
<1> QED
  BY <1>3, <1>4, <1>5, <1>6, <1>7

\* The steps of the client leave the bucket and the listing alone.
LEMMA ListingStays ==
    ASSUME IInv, Entries' = Entries, Start' = Start, UNCHANGED listingVars
    PROVE  TypeOK' /\ PageInv' /\ pc' = pc /\ stable' = stable /\ yielded' = yielded
  BY DEF IInv, CleanupTypeOK, TypeOK, PageInv, FailsForAReason, Before, listingVars, vars

LEMMA StartInv ==
    ASSUME IInv, ListingFailed \/ RefuseKeys \/ TakeKeys, Entries' = Entries, Start' = Start
    PROVE  IInv'
<1> USE DEF IInv, Finish
<1>1. TypeOK' /\ PageInv' /\ pc' = pc /\ stable' = stable /\ yielded' = yielded
  BY ListingStays DEF ListingFailed, RefuseKeys, TakeKeys
<1>2. /\ phase = "list" /\ pc \in {"ended", "failed"}
      /\ UNCHANGED <<batch, response, late, result, removed, omitted>>
  BY DEF ListingFailed, RefuseKeys, TakeKeys
<1>3. /\ todo = {} /\ batch = {} /\ late = {} /\ removed = {} /\ outcome = "none"
      /\ result = NoResult /\ response = NoAnswer
  BY <1>2 DEF PhaseInv
<1>4. yielded \subseteq Entries
  BY DEF CleanupTypeOK, TypeOK
<1>5. CASE ListingFailed
  BY <1>1, <1>2, <1>3, <1>5
  DEF ListingFailed, CleanupTypeOK, PhaseInv, DeletionInv, CountInv, NoResult, NoAnswer
<1>6. CASE RefuseKeys
  BY <1>1, <1>2, <1>3, <1>4, <1>6
  DEF RefuseKeys, CleanupTypeOK, PhaseInv, DeletionInv, CountInv, NoResult, NoAnswer
<1>7. CASE TakeKeys
  <2>1. /\ requested' = yielded /\ todo' = yielded
        /\ \/ yielded = {} /\ phase' = "done" /\ outcome' = "ok"
           \/ phase' = "delete" /\ outcome' = "none"
    BY <1>3, <1>7 DEF TakeKeys
  <2>2. stable \subseteq yielded
    BY <1>7 DEF TakeKeys, PageInv
  <2>3. CleanupTypeOK'
    BY <1>1, <1>2, <1>3, <1>4, <2>1 DEF CleanupTypeOK
  <2>4. PhaseInv'
    BY <1>1, <1>2, <1>3, <2>1, <2>2 DEF PhaseInv
  <2>5. DeletionInv'
    BY <1>1, <1>2, <1>3, <2>1 DEF DeletionInv, NoResult, NoAnswer
  <2>6. CountInv'
    <3>1. Pending' \in SUBSET Entries /\ result'.requests = 0
      BY <1>2, <1>3, <1>4, <2>1 DEF Pending, NoResult
    <3> QED
      BY <3>1, SubsetFinite DEF CountInv
  <2> QED
    BY <1>1, <2>3, <2>4, <2>5, <2>6
<1> QED
  BY <1>5, <1>6, <1>7

LEMMA SendBatchInv ==
    ASSUME IInv, SendBatch, Entries' = Entries, Start' = Start
    PROVE  IInv'
<1> USE DEF IInv
<1>1. TypeOK' /\ PageInv' /\ pc' = pc /\ stable' = stable
  BY ListingStays DEF SendBatch
<1>2. /\ phase = "delete" /\ batch = {}
      /\ batch' \subseteq todo /\ todo' = todo \ batch'
      /\ UNCHANGED <<phase, response, late, result, outcome, requested, removed, omitted>>
  BY DEF SendBatch, Chunk
<1>3. CleanupTypeOK'
  BY <1>1, <1>2 DEF CleanupTypeOK
<1>4. PhaseInv'
  BY <1>1, <1>2 DEF PhaseInv
<1>5. DeletionInv'
  <2>1. UNION {result.deleted, result.failures, omitted, todo', batch'}
           = UNION {result.deleted, result.failures, omitted, todo, batch}
    BY <1>2
  <2>2. outcome' # "invalid" => requested' \subseteq
           UNION {result'.deleted, result'.failures, omitted', todo', batch'}
    BY <1>2, <2>1 DEF DeletionInv
  <2>3. ~response'.answered
    BY <1>2 DEF PhaseInv, NoAnswer
  <2> QED
    BY <1>1, <1>2, <2>2, <2>3 DEF DeletionInv
<1>6. CountInv'
  BY <1>2 DEF CountInv, Pending
<1> QED
  BY <1>1, <1>3, <1>4, <1>5, <1>6

\* The batch goes out of use: given up, sent again or failed.
LEMMA GiveUpInv ==
    ASSUME IInv, ResendBatch \/ RequestFails, Entries' = Entries, Start' = Start
    PROVE  IInv'
<1> USE DEF IInv
<1>1. TypeOK' /\ PageInv' /\ pc' = pc /\ stable' = stable
  BY ListingStays DEF ResendBatch, RequestFails
<1>2. /\ phase = "delete" /\ late' \subseteq late \union {batch} /\ response' = NoAnswer
      /\ UNCHANGED <<todo, batch, result, requested, removed, omitted>>
      /\ \/ UNCHANGED <<phase, outcome>>
         \/ phase' = "done" /\ outcome' = "error"
  BY DEF ResendBatch, RequestFails, InFlight, Finish
<1>3. CleanupTypeOK'
  BY <1>1, <1>2 DEF CleanupTypeOK, NoAnswer
<1>4. PhaseInv'
  BY <1>1, <1>2 DEF PhaseInv
<1>5. DeletionInv'
  BY <1>1, <1>2 DEF DeletionInv, PhaseInv, NoAnswer
<1>6. CountInv'
  BY <1>2 DEF CountInv, Pending
<1> QED
  BY <1>1, <1>3, <1>4, <1>5, <1>6

\* What an answer adds to the result.
LEMMA AnswerCounted ==
    ASSUME IInv, InFlight
    PROVE  /\ result.requests + 1 + Cardinality(todo) <= Cardinality(Entries)
           /\ result.requests + 1 \in 0..Cardinality(Entries)
<1> USE DEF IInv
<1>1. /\ Pending \in SUBSET Entries /\ todo \in SUBSET Pending /\ todo # Pending
      /\ phase # "done"
  BY DEF CleanupTypeOK, DeletionInv, InFlight, Pending
<1>2. IsFiniteSet(Pending) /\ Cardinality(Pending) \in Nat
  BY <1>1, SubsetFinite
<1>3. Cardinality(todo) \in Nat
  BY <1>1, SubsetFinite DEF CleanupTypeOK
<1>4. Cardinality(todo) <= Cardinality(Pending) /\ Cardinality(todo) # Cardinality(Pending)
  BY <1>1, <1>2, FS_Subset
<1>5. Cardinality(Entries) \in Nat /\ result.requests \in Nat
  BY EntriesFinite, FS_CardinalityType DEF CleanupTypeOK
<1>6. result.requests + Cardinality(Pending) <= Cardinality(Entries)
  BY <1>1 DEF CountInv
<1> HIDE DEF Pending
<1> QED
  BY <1>2, <1>3, <1>4, <1>5, <1>6

LEMMA TakeAnswerInv ==
    ASSUME IInv, TakeAnswer, Entries' = Entries, Start' = Start
    PROVE  IInv'
<1> USE DEF IInv
<1>1. TypeOK' /\ PageInv' /\ pc' = pc /\ stable' = stable
  BY ListingStays DEF TakeAnswer
<1>2. /\ phase = "delete" /\ outcome = "none" /\ batch' = {} /\ response' = NoAnswer
      /\ result' = Record /\ response.answered
      /\ UNCHANGED <<todo, late, requested, removed, omitted>>
      /\ \/ phase' = phase /\ outcome' = outcome
         \/ todo = {} /\ phase' = "done" /\ outcome' = "ok"
  BY DEF TakeAnswer, InFlight, Finish, PhaseInv
<1>3. /\ result'.deleted = result.deleted \union response.deleted
      /\ result'.failures = result.failures \union response.failed
      /\ result'.requests = result.requests + 1
      /\ result' \in [deleted : SUBSET Entries, failures : SUBSET Entries,
                      requests : 0..Cardinality(Entries)]
  <2>1. result.requests + 1 \in 0..Cardinality(Entries)
    BY AnswerCounted DEF TakeAnswer
  <2> QED
    BY <1>2, <2>1 DEF Record, CleanupTypeOK
<1>4. CleanupTypeOK'
  BY <1>1, <1>2, <1>3 DEF CleanupTypeOK, NoAnswer
<1>5. PhaseInv'
  BY <1>1, <1>2 DEF PhaseInv
<1>6. DeletionInv'
  <2>1. requested' \subseteq
           UNION {result'.deleted, result'.failures, omitted', todo', batch'}
    BY <1>2, <1>3 DEF DeletionInv
  <2>2. result'.deleted \subseteq removed'
    BY <1>2, <1>3 DEF DeletionInv
  <2> QED
    BY <1>1, <1>2, <2>1, <2>2 DEF DeletionInv, NoAnswer
<1>7. CountInv'
  <2>1. Pending' = todo
    BY <1>2 DEF Pending
  <2> QED
    BY <1>2, <1>3, <2>1, AnswerCounted DEF CountInv, TakeAnswer
<1> QED
  BY <1>1, <1>4, <1>5, <1>6, <1>7

LEMMA TakeKeylessAnswerInv ==
    ASSUME IInv, TakeKeylessAnswer, Entries' = Entries, Start' = Start
    PROVE  IInv'
<1> USE DEF IInv
<1>1. TypeOK' /\ PageInv' /\ pc' = pc /\ stable' = stable
  BY ListingStays DEF TakeKeylessAnswer
<1>2. PICK before \in SUBSET response.failed :
         result' = [Record EXCEPT !.failures = result.failures \union before]
  BY DEF TakeKeylessAnswer
<1>3. /\ phase = "delete" /\ outcome = "none" /\ response' = NoAnswer
      /\ phase' = "done" /\ outcome' = "error"
      /\ UNCHANGED <<todo, batch, late, requested, removed, omitted>>
  BY DEF TakeKeylessAnswer, InFlight, Finish, PhaseInv
<1>4. /\ result'.deleted = result.deleted \union response.deleted
      /\ result'.failures = result.failures \union before
      /\ result' \in [deleted : SUBSET Entries, failures : SUBSET Entries,
                      requests : 0..Cardinality(Entries)]
  <2>1. result.requests + 1 \in 0..Cardinality(Entries)
    BY AnswerCounted DEF TakeKeylessAnswer
  <2> QED
    BY <1>2, <2>1 DEF Record, CleanupTypeOK
<1>5. CleanupTypeOK'
  BY <1>1, <1>3, <1>4 DEF CleanupTypeOK, NoAnswer
<1>6. PhaseInv'
  BY <1>1, <1>3 DEF PhaseInv
<1>7. DeletionInv'
  <2>1. requested \subseteq
           UNION {result'.deleted, result'.failures, omitted, todo, batch}
    BY <1>3, <1>4 DEF DeletionInv
  <2>2. result'.deleted \subseteq removed
    BY <1>4 DEF DeletionInv
  <2> QED
    BY <1>1, <1>3, <2>1, <2>2 DEF DeletionInv, NoAnswer
<1>8. CountInv'
  BY <1>3 DEF CountInv
<1> QED
  BY <1>1, <1>5, <1>6, <1>7, <1>8

THEOREM Invariance == CleanupSpec => []IInv
<1>1. IInv /\ [CleanupNext]_cleanupVars => IInv'
  <2> SUFFICES ASSUME IInv, [CleanupNext]_cleanupVars PROVE IInv'
    OBVIOUS
  <2>1. Entries' = Entries /\ Start' = Start
    BY EntriesStay
  <2>2. CASE ListingStep
    BY <2>1, <2>2, ListingStepInv
  <2>3. CASE OthersStep
    BY <2>1, <2>3, OthersStepInv
  <2>4. CASE DeletionStep
    BY <2>1, <2>4, StartInv, SendBatchInv, GiveUpInv, TakeAnswerInv, TakeKeylessAnswerInv
    DEF DeletionStep
  <2>5. CASE RemoteStep
    BY <2>1, <2>5, HandleDeleteInv, HandleLateInv DEF RemoteStep
  <2>6. CASE UNCHANGED cleanupVars
    BY <2>1, <2>6, ListingStays
    DEF IInv, CleanupTypeOK, PhaseInv, DeletionInv, CountInv, Pending, cleanupVars,
        deletionVars
  <2> QED
    BY <2>2, <2>3, <2>4, <2>5, <2>6 DEF CleanupNext
<1> QED
  BY InitInv, <1>1, PTL DEF CleanupSpec

----------------------------------------------------------------------------
(* The properties *)

\* Types of every variable of Listing and Cleanup.
THEOREM TypeCorrect == CleanupSpec => []CleanupTypeOK
<1>1. IInv => CleanupTypeOK
  BY DEF IInv
<1> QED
  BY Invariance, <1>1, PTL

\* into_stream has every entry that was there all the time, for any number of keys,
\* uploads per key and size of page, whatever is put and deleted between the pages.
THEOREM ListingIsComplete == CleanupSpec => []ListsWhatStayed
<1>1. IInv => ListsWhatStayed
  BY DEF IInv, PageInv, ListsWhatStayed
<1> QED
  BY Invariance, <1>1, PTL

\* The guard against repeated tokens and markers stops no listing that advances.
THEOREM GuardIsSound == CleanupSpec => []FailsForAReason
<1>1. IInv => FailsForAReason
  BY DEF IInv, PageInv
<1> QED
  BY Invariance, <1>1, PTL

\* delete_objects, whichever batch fails and however, reports only what is true and
\* leaves nothing unsaid but the batch that failed and what R2 left out.
THEOREM ReportsAreTrue == CleanupSpec => []ResultIsTrue
<1>1. IInv => ResultIsTrue
  <2> SUFFICES ASSUME IInv PROVE ResultIsTrue
    OBVIOUS
  <2>1. phase = "list" => requested = {} /\ result.deleted = {}
    BY DEF IInv, PhaseInv, NoResult
  <2> QED
    BY <2>1 DEF IInv, DeletionInv, ResultIsTrue
<1> QED
  BY Invariance, <1>1, PTL

\* A clean-up that returns Ok with nothing failed or left out has emptied the prefix
\* of what was there all the time: listing, batches and answers lose no key.
THEOREM CleanupRemovesAll == CleanupSpec => []CleanupIsThorough
<1>1. IInv => CleanupIsThorough
  <2> SUFFICES ASSUME IInv, outcome = "ok", result.failures = {}, omitted = {}
               PROVE  stable = {}
    BY DEF CleanupIsThorough
  <2>1. phase # "list" /\ todo = {} /\ batch = {} /\ stable \subseteq requested
    BY DEF IInv, PhaseInv
  <2>2. requested \subseteq UNION {result.deleted, {}}
    BY <2>1 DEF IInv, DeletionInv
  <2>3. result.deleted \intersect stable = {}
    BY DEF IInv, DeletionInv
  <2> QED
    BY <2>1, <2>2, <2>3
<1> QED
  BY Invariance, <1>1, PTL

----------------------------------------------------------------------------
(* Progress of the listing *)

\* The names the stream has not asked for yet.
Ahead == {e \in Entries : Before(marker, e)}

\* Steps still to come at most: an open stream asks for a name and yields it.
Rank ==
    CASE pc = "open" -> 2 * Cardinality(Ahead) + Cardinality(page) + 2
      [] pc = "last" -> Cardinality(page) + 1
      [] pc \in {"ended", "failed"} -> 0

LEMMA DisjointParts ==
    ASSUME NEW a \in SUBSET Entries, NEW b \in SUBSET Entries, NEW c \in SUBSET Entries,
           a \intersect b = {}, a \union b \subseteq c
    PROVE  Cardinality(a) + Cardinality(b) <= Cardinality(c)
<1>1. /\ IsFiniteSet(a) /\ Cardinality(a) \in Nat
      /\ IsFiniteSet(b) /\ Cardinality(b) \in Nat
      /\ IsFiniteSet(c) /\ Cardinality(c) \in Nat
  BY SubsetFinite
<1>2. Cardinality(a \union b) = Cardinality(a) + Cardinality(b) - Cardinality(a \intersect b)
  BY <1>1, FS_Union
<1>3. Cardinality(a \intersect b) = 0
  BY FS_EmptySet
<1>4. Cardinality(a \union b) <= Cardinality(c)
  BY <1>1, FS_Subset
<1> QED
  BY <1>1, <1>2, <1>3, <1>4

LEMMA RankIsNatural == IInv => /\ Rank \in Nat
                               /\ Cardinality(Ahead) \in Nat /\ Cardinality(page) \in Nat
<1> SUFFICES ASSUME IInv
             PROVE  Rank \in Nat /\ Cardinality(Ahead) \in Nat /\ Cardinality(page) \in Nat
  OBVIOUS
<1>1. Cardinality(Ahead) \in Nat /\ Cardinality(page) \in Nat
  BY SubsetFinite DEF Ahead, IInv, CleanupTypeOK, TypeOK
<1> QED
  BY <1>1 DEF Rank, IInv, CleanupTypeOK, TypeOK

LEMMA StreamLowersRank ==
    ASSUME IInv, StreamStep, Entries' = Entries
    PROVE  Rank' < Rank
<1> USE DEF IInv, CleanupTypeOK, TypeOK
<1>0. Cardinality(Ahead) \in Nat /\ Cardinality(page) \in Nat
  BY RankIsNatural
<1>1. Page \in SUBSET Entries /\ Page \in SUBSET Ahead /\ Ahead \in SUBSET Entries
  BY DEF Page, Remaining, Ahead
<1>2. CASE FetchPage
  <2>1. PICK next \in Page : IsLast(next, Page) /\ Receive(next)
    BY <1>2 DEF FetchPage
  <2>2. page' = Page /\ marker' = next /\ pc = "open" /\ pc' = "open" /\ page = {}
    BY <1>2, <2>1, NextIsNew DEF FetchPage, Asking, Receive, Continue
  <2>3. Ahead' = {e \in Entries : Before(next, e)}
    BY <2>2 DEF Ahead, Before
  <2>4. Ahead' \in SUBSET Entries /\ Ahead' \intersect Page = {}
    BY <2>1, <2>3 DEF IsLast
  <2>5. Ahead' \subseteq Ahead
    <3>1. next \in Entries /\ Before(marker, next)
      BY <1>1 DEF Ahead
    <3>2. ASSUME NEW e \in Entries, Before(next, e) PROVE Before(marker, e)
      BY <3>1, <3>2, EntryType DEF Before
    <3> QED
      BY <2>3, <3>2 DEF Ahead
  <2>6. Cardinality(Ahead') + Cardinality(Page) <= Cardinality(Ahead)
    BY <1>1, <2>4, <2>5, DisjointParts
  <2>7. /\ Cardinality(Page) \in Nat \ {0} /\ Cardinality(Ahead') \in Nat
        /\ Cardinality(page) = 0
    BY <1>1, <2>2, <2>4, SubsetFinite, FS_EmptySet
  <2>8. /\ Rank = 2 * Cardinality(Ahead) + 2
        /\ Rank' = 2 * Cardinality(Ahead') + Cardinality(Page) + 2
    BY <1>0, <2>2, <2>7 DEF Rank
  <2>9. \A a, b \in Nat : \A c \in Nat \ {0} :
           b + c <= a => 2 * b + c + 2 < 2 * a + 2
    OBVIOUS
  <2> QED
    BY <1>0, <2>6, <2>7, <2>8, <2>9
<1>3. CASE FetchLastPage
  <2>1. pc = "open" /\ pc' = "last" /\ page' = Page
    BY <1>3 DEF FetchLastPage, Asking
  <2>2. /\ Cardinality(Page) \in Nat /\ Cardinality(Page) <= Cardinality(Ahead)
    BY <1>1, SubsetFinite, FS_Subset
  <2>3. Rank = 2 * Cardinality(Ahead) + Cardinality(page) + 2
        /\ Rank' = Cardinality(Page) + 1
    BY <2>1 DEF Rank
  <2> QED
    BY <1>0, <2>2, <2>3
<1>4. CASE FetchRepeatedToken \/ FetchFails \/ EndStream
  <2>1. pc \in {"open", "last"} /\ pc' \in {"failed", "ended"}
    BY <1>4 DEF FetchRepeatedToken, FetchFails, EndStream, Asking, Receive, Repeats, Fail
  <2>2. Rank' = 0 /\ Rank \in Nat \ {0}
    BY <1>0, <2>1 DEF Rank
  <2> QED
    BY <2>2
<1>5. CASE YieldEntry
  <2>1. PICK e \in page : page' = page \ {e}
    BY <1>5 DEF YieldEntry
  <2>2. UNCHANGED <<pc, marker>> /\ pc \in {"open", "last"}
    BY <1>5, <2>1 DEF YieldEntry, PageInv
  <2>3. Cardinality(page') = Cardinality(page) - 1
    BY <2>1, SubsetFinite, FS_RemoveElement
  <2>4. Ahead' = Ahead
    BY <2>2 DEF Ahead, Before
  <2> QED
    BY <1>0, <2>2, <2>3, <2>4 DEF Rank
<1> QED
  BY <1>2, <1>3, <1>4, <1>5 DEF StreamStep

\* Only the stream's own steps touch what its rank is made of.
LEMMA StreamOrNothing ==
    ASSUME [CleanupNext]_cleanupVars
    PROVE  ListingStep \/ UNCHANGED <<kind, pc, marker, page>>
  BY DEF CleanupNext, OthersStep, PutEntry, DeleteEntry, DeletionStep,
         ListingFailed, RefuseKeys, TakeKeys, SendBatch, ResendBatch, TakeAnswer,
         TakeKeylessAnswer, RequestFails, RemoteStep, HandleDelete, HandleLate, Remove,
         cleanupVars, listingVars, vars

\* A listing cannot go on for ever: each page asks for names that come after all those
\* asked for before, each entry is yielded once, and neither a repeated token of R2
\* nor what others put and delete meanwhile gives a step back.
THEOREM ListingIsBounded ==
    CleanupSpec => /\ [](Rank \in Nat)
                   /\ [][IF ListingStep THEN Rank' < Rank ELSE Rank' = Rank]_cleanupVars
<1>1. ASSUME IInv, [CleanupNext]_cleanupVars
      PROVE  IF ListingStep THEN Rank' < Rank ELSE Rank' = Rank
  <2>1. CASE ListingStep
    BY <1>1, <2>1, StreamLowersRank, EntriesStay DEF ListingStep
  <2>2. CASE UNCHANGED <<kind, pc, marker, page>> /\ ~ListingStep
    <3>1. Ahead' = Ahead
      BY <1>1, <2>2, EntriesStay DEF Ahead, Before
    <3> QED
      BY <2>2, <3>1 DEF Rank
  <2> QED
    BY <1>1, <2>1, <2>2, StreamOrNothing
<1>2. IInv => Rank \in Nat
  BY RankIsNatural
<1> QED
  BY <1>1, <1>2, Invariance, PTL DEF CleanupSpec

\* When ListingStep can be taken.
ListingReady ==
    \/ Asking
    \/ pc = "last" /\ page = {}
    \/ \E e \in page : \A d \in page : ~Before(d, e)

\* What the fairness of FairCleanupSpec is read with: no prover here computes ENABLED.
GuardsEnable == ListingReady => ENABLED <<ListingStep>>_cleanupVars

\* A page that is not used up has a first entry.
LEMMA FirstEntry ==
    ASSUME NEW s \in SUBSET Entries, s # {}
    PROVE  \E e \in s : \A d \in s : ~Before(d, e)
<1> DEFINE below(e) == {d \in s : Before(d, e)}
           T == {below(e) : e \in s}
<1>1. IsFiniteSet(s)
  BY SubsetFinite
<1>2. IsWellFoundedOn(StrictSubsetOrdering(s), SUBSET s)
  BY <1>1, FS_StrictSubsetOrderingWellFounded, FS_FiniteSubsetsOfFinite
<1>3. T \subseteq SUBSET s /\ T # {}
  OBVIOUS
<1>4. PICK x \in T : \A y \in T : ~(<<y, x>> \in StrictSubsetOrdering(s))
  <2> HIDE DEF T
  <2> QED
    BY <1>2, <1>3, WFMin
<1>5. PICK e \in s : x = below(e)
  BY <1>4
<1>6. ASSUME NEW d \in s, Before(d, e) PROVE FALSE
  <2>1. below(d) \subseteq below(e)
    BY <1>6, EntryType DEF Before
  <2>2. d \in below(e) /\ d \notin below(d)
    BY <1>6, EntryType DEF Before
  <2>3. <<below(d), below(e)>> \in StrictSubsetOrdering(s)
    BY <2>1, <2>2 DEF StrictSubsetOrdering
  <2>4. below(d) \in T
    OBVIOUS
  <2> QED
    BY <1>4, <1>5, <2>3, <2>4
<1> QED
  BY <1>6

\* As long as the stream has not ended there is another step of it to come, whatever
\* the other writers do; by ListingIsBounded there are only so many, so it ends
\* (ListingEnds).
THEOREM ListingGoesOn ==
    FairCleanupSpec /\ []GuardsEnable
        => [](pc \notin {"ended", "failed"} => <><<Rank' < Rank>>_cleanupVars)
<1>1. IInv /\ pc \notin {"ended", "failed"} => ListingReady
  BY FirstEntry DEF IInv, CleanupTypeOK, TypeOK, ListingReady, Asking
<1>2. IInv /\ <<ListingStep>>_cleanupVars => <<Rank' < Rank>>_cleanupVars
  <2> SUFFICES ASSUME IInv, ListingStep PROVE Rank' < Rank
    OBVIOUS
  <2>1. CleanupNext
    BY DEF CleanupNext
  <2> QED
    BY <2>1, StreamLowersRank, EntriesStay DEF ListingStep
<1>3. IInv /\ pc \notin {"ended", "failed"} /\ [CleanupNext]_cleanupVars =>
          (pc \notin {"ended", "failed"})' \/ <<Rank' < Rank>>_cleanupVars
  <2> SUFFICES ASSUME IInv, pc \notin {"ended", "failed"}, [CleanupNext]_cleanupVars,
                      pc' \in {"ended", "failed"}
               PROVE  <<Rank' < Rank>>_cleanupVars
    OBVIOUS
  <2>1. ListingStep
    BY StreamOrNothing
  <2>2. cleanupVars' # cleanupVars
    BY DEF cleanupVars, listingVars, vars
  <2> QED
    BY <2>1, <2>2, StreamLowersRank, EntriesStay DEF ListingStep
<1> QED
  BY <1>1, <1>2, <1>3, Invariance, PTL DEF FairCleanupSpec, CleanupSpec, GuardsEnable
=============================================================================
