------------------------------ MODULE Listing ------------------------------
(***************************************************************************)
(* Listing a bucket page by page: ListObjectsBuilder::into_pages and       *)
(* into_stream (src/src/object.rs) and                                     *)
(* ListMultipartUploadsBuilder::into_pages (src/src/multipart.rs).         *)
(*                                                                         *)
(* An entry is a key and the rank of an upload of that key; a listing of   *)
(* objects has one entry for each key.  The token that continues a listing *)
(* of objects is opaque and stands for the last key of the page; uploads   *)
(* are continued by two markers, of which the code compares each.          *)
(*                                                                         *)
(* R2 is external: it lists what is there when it answers.  It may also    *)
(* answer with the token it was asked with, or with none at all.  Cleanup  *)
(* composes this module with what is done to the entries listed.           *)
(***************************************************************************)
EXTENDS Naturals, FiniteSets

CONSTANTS
    Keys,           \* number of keys
    UploadsPerKey,  \* number of uploads that a key can have
    Limit           \* entries in a page

ASSUME ListingAssumption ==
    /\ Keys \in Nat \ {0}
    /\ UploadsPerKey \in Nat \ {0}
    /\ Limit \in Nat \ {0}

VARIABLES
    kind,           \* "objects" or "uploads"
    bucket,         \* R2: the entries that are there
    pc,             \* state of the stream
    marker,         \* where the builder's next request continues
    page,           \* entries of the last page not yet yielded
    yielded,        \* entries yielded
    stable,         \* history: entries that were there all the time
    faulty          \* history: a request failed or R2 gave a bad token

vars == <<kind, bucket, pc, marker, page, yielded, stable, faulty>>

Entry == [key : 1..Keys, upload : 1..UploadsPerKey]
Entries == IF kind = "objects" THEN {e \in Entry : e.upload = 1} ELSE Entry
Start == [key |-> 0, upload |-> 0]

Before(a, b) == a.key < b.key \/ (a.key = b.key /\ a.upload < b.upload)

----------------------------------------------------------------------------
(* The bucket *)

PutEntry(e) ==
    /\ bucket' = bucket \union {e}
    /\ UNCHANGED <<kind, pc, marker, page, yielded, stable, faulty>>

DeleteEntry(e) ==
    /\ bucket' = bucket \ {e}
    /\ stable' = stable \ {e}
    /\ UNCHANGED <<kind, pc, marker, page, yielded, faulty>>

\* What R2 answers a request that continues at the marker.
Remaining == {e \in bucket : Before(marker, e)}
Page == {e \in Remaining :
            Cardinality({d \in Remaining : ~Before(e, d)}) <= Limit}
Truncated == Page # Remaining
IsLast(e, s) == e \in s /\ \A d \in s : ~Before(e, d)

----------------------------------------------------------------------------
(* The stream: each page is requested when the one before is used up *)

Asking == pc = "open" /\ page = {}

\* Mutant: one of the two markers being the same is taken for a repetition.
RepeatsEither(next) ==
    IF kind = "objects" THEN next = marker
    ELSE next.key = marker.key \/ next.upload = marker.upload

\* The guard of into_pages: the continuation is the one that was asked for.
Repeats(next) ==
    IF kind = "objects" THEN next = marker
    ELSE next.key = marker.key /\ next.upload = marker.upload

\* Mutant: the key of the last upload is asked for from its start.
ContinueFromKey(next) ==
    /\ page' = Page
    /\ marker' = [next EXCEPT !.upload = 0]
    /\ UNCHANGED pc

\* Mutant: only the key of the last upload is kept.
ContinueAtKey(next) ==
    /\ page' = Page
    /\ marker' = [next EXCEPT !.upload = UploadsPerKey]
    /\ UNCHANGED pc

\* The page is yielded, and the next request continues where it ends.
Continue(next) ==
    /\ page' = Page
    /\ marker' = next
    /\ UNCHANGED pc

Fail ==
    /\ pc' = "failed"
    /\ UNCHANGED <<page, marker>>

Receive(next) == IF Repeats(next) THEN Fail ELSE Continue(next)

FetchPage ==
    /\ Asking
    /\ Truncated
    /\ \E next \in Page : IsLast(next, Page) /\ Receive(next)
    /\ UNCHANGED <<kind, bucket, yielded, stable, faulty>>

\* is_truncated is not true: the next state of the unfold is None.
FetchLastPage ==
    /\ Asking
    /\ ~Truncated
    /\ page' = Page
    /\ pc' = "last"
    /\ UNCHANGED <<kind, bucket, marker, yielded, stable, faulty>>

\* Mutant: R2's word is taken for it that there is more.
FollowRepeatedToken ==
    /\ Asking
    /\ marker # Start
    /\ faulty' = TRUE
    /\ Continue(marker)
    /\ UNCHANGED <<kind, bucket, yielded, stable>>

\* R2 says there is more and gives the token it was asked with.
FetchRepeatedToken ==
    /\ Asking
    /\ marker # Start
    /\ faulty' = TRUE
    /\ Receive(marker)
    /\ UNCHANGED <<kind, bucket, yielded, stable>>

\* The request fails, an entry lacks its key, or a truncated page has no token.
FetchFails ==
    /\ Asking
    /\ faulty' = TRUE
    /\ Fail
    /\ UNCHANGED <<kind, bucket, yielded, stable>>

\* into_stream hands out the entries of the page in order.
YieldEntry ==
    /\ \E e \in page :
          /\ \A d \in page : ~Before(d, e)
          /\ page' = page \ {e}
          /\ yielded' = yielded \union {e}
    /\ UNCHANGED <<kind, bucket, pc, marker, stable, faulty>>

EndStream ==
    /\ pc = "last"
    /\ page = {}
    /\ pc' = "ended"
    /\ UNCHANGED <<kind, bucket, marker, page, yielded, stable, faulty>>

----------------------------------------------------------------------------
Init ==
    /\ kind \in {"objects", "uploads"}
    /\ bucket \in SUBSET Entries
    /\ pc = "open"
    /\ marker = Start
    /\ page = {}
    /\ yielded = {}
    /\ stable = bucket
    /\ faulty = FALSE

StreamStep ==
    \/ FetchPage
    \/ FetchLastPage
    \/ FetchRepeatedToken
    \/ FetchFails
    \/ YieldEntry
    \/ EndStream

BucketStep == \E e \in Entries : PutEntry(e) \/ DeleteEntry(e)

Next == StreamStep \/ BucketStep

Spec == Init /\ [][Next]_vars

----------------------------------------------------------------------------
(* Properties *)

TypeOK ==
    /\ kind \in {"objects", "uploads"}
    /\ bucket \subseteq Entries
    /\ pc \in {"open", "last", "ended", "failed"}
    /\ marker \in Entries \union {Start}
    /\ page \subseteq Entries
    /\ yielded \subseteq Entries
    /\ stable \subseteq bucket
    /\ faulty \in BOOLEAN

\* A listing that ends has every entry that was there all the time, although
\* entries came and went between its pages and between the uploads of one key.
ListsWhatStayed == pc = "ended" => stable \subseteq yielded

\* An R2 that answers as it should is never taken for one that repeats itself,
\* even when a key has more uploads than a page holds.
FailsForAReason == pc = "failed" => faulty

\* "Streams every listing page until R2 reports that the listing is complete."
\* (object.rs:1071): with finitely many names the stream ends, also when R2
\* repeats its token and whatever is put and deleted meanwhile.
ListingEnds == <>(pc \in {"ended", "failed"})
=============================================================================
