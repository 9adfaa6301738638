--------------------------- MODULE MultipartPlan ---------------------------
(***************************************************************************)
(* How a file is cut into parts (src/src/multipart.rs, src/src/managed.rs). *)
(*                                                                         *)
(* Three pieces of code must agree on the cut: MultipartPlan, which counts *)
(* the parts and gives each its length; UploadFileBuilder::send, which     *)
(* raises the part size of a large file until a plan exists; and the       *)
(* reader of run_stream, which never asks the plan for a length but counts *)
(* down the bytes that remain.  complete() refuses any other manifest than *)
(* parts 1..part_count, and R2 any other lengths than equal ones and a     *)
(* shorter last one.                                                       *)
(***************************************************************************)
EXTENDS Integers, Sequences

CONSTANTS
    MaxObjectSize,  \* MAX_MULTIPART_OBJECT_SIZE
    MinPartSize,    \* MIN_MULTIPART_PART_SIZE
    MaxPartSize,    \* MAX_MULTIPART_PART_SIZE
    MaxParts,       \* MAX_PARTS
    CountWidth,     \* 2^16, the range of the u16 that holds part_count
    MaxConcurrency, \* MAX_CONCURRENCY
    MaxBudget       \* bound: the largest max_buffered_bytes tried

ASSUME LimitsAssumption ==
    /\ MaxObjectSize \in Nat \ {0}
    /\ MinPartSize \in Nat \ {0}
    /\ MaxPartSize \in Nat
    /\ MinPartSize <= MaxPartSize
    /\ MaxParts \in Nat \ {0}
    /\ CountWidth \in Nat
    /\ MaxParts < CountWidth
    /\ MaxConcurrency \in Nat \ {0}
    /\ MaxBudget \in Nat

\* 10,000 parts of 5 GiB - 5 MiB hold the 5 TiB - 5 GiB of the largest object.
ASSUME LargestObjectFits == MaxObjectSize <= MaxParts * MaxPartSize

VARIABLES
    pc,             \* "ask", "cut", "done" or "rejected"
    asker,          \* "plan": MultipartPlan::new called directly; "presigned":
                    \* presign_upload; "managed": a managed upload; "adaptive":
                    \* UploadFileBuilder::send
    fileSize,
    concurrency,    \* of a managed or an adaptive upload
    budget,         \* its max_buffered_bytes
    partSize,       \* part_size of the plan
    partCount,      \* part_count of the plan
    remaining,      \* run_stream's reader: bytes still to be read
    cut             \* run_stream's reader: lengths of the parts it sent

input == <<asker, fileSize, concurrency, budget>>
vars == <<pc, input, partSize, partCount, remaining, cut>>

Askers == {"plan", "presigned", "managed", "adaptive"}
Raises == asker \in {"presigned", "adaptive"}   \* those that raise the part size
Managed == asker \in {"managed", "adaptive"}     \* those that r2kit itself uploads

\* u64::div_ceil
DivCeil(a, b) == (a + b - 1) \div b

ValidPartSize(s) == s \in MinPartSize..MaxPartSize

\* Mutant: the count is compared with MAX_PARTS after the cast to u16.
ChecksTruncatedCount(f, s) ==
    /\ f \in 1..MaxObjectSize
    /\ ValidPartSize(s)
    /\ DivCeil(f, s) % CountWidth <= MaxParts

\* The checks of MultipartPlan::new.
HasPlan(f, s) ==
    /\ f \in 1..MaxObjectSize
    /\ ValidPartSize(s)
    /\ DivCeil(f, s) <= MaxParts

PartStart(n) == (n - 1) * partSize

\* MultipartPlan::part_length, of a part number within the plan.
PartLength(n) ==
    IF fileSize - PartStart(n) < partSize THEN fileSize - PartStart(n) ELSE partSize

\* Mutant: the division rounds down.
RoundsDown(f, s) ==
    IF f \div MaxParts > s THEN f \div MaxParts ELSE s

\* effective_part_size of UploadFileBuilder::send and of presign_upload.
EffectivePartSize(f, s) ==
    IF DivCeil(f, MaxParts) > s THEN DivCeil(f, MaxParts) ELSE s

----------------------------------------------------------------------------
Init ==
    /\ pc = "ask"
    /\ asker \in Askers
    /\ fileSize \in 0..(MaxObjectSize + 1)
    /\ Raises => fileSize >= MinPartSize            \* UploadThreshold::MIN_BYTES
    /\ concurrency \in 0..(MaxConcurrency + 1)
    /\ budget \in 0..MaxBudget
    /\ partSize \in 0..(MaxPartSize + 1)
    /\ asker = "presigned" => ValidPartSize(partSize)     \* UploadThreshold::DEFAULT_BYTES
    /\ partCount = 0
    /\ remaining = 0
    /\ cut = <<>>

\* The part size that a plan is asked for.
Requested == IF Raises THEN EffectivePartSize(fileSize, partSize) ELSE partSize

\* validate() of ManagedMultipartBuilder and of UploadFileBuilder.
Validates(s) ==
    /\ ValidPartSize(s)
    /\ concurrency \in 1..MaxConcurrency
    /\ s * concurrency <= budget

\* Mutant: the upload send() starts is not validated again.
ChecksRequestOnly ==
    /\ Managed => Validates(partSize)
    /\ HasPlan(fileSize, Requested)

\* What stands between the settings and a plan: send validates the size it was
\* given, and the managed upload it starts the size that send raised it to.
Accepts ==
    /\ asker = "adaptive" => Validates(partSize)
    /\ Managed => Validates(Requested)
    /\ HasPlan(fileSize, Requested)

MakePlan ==
    /\ pc = "ask"
    /\ Accepts
    /\ partSize' = Requested
    /\ partCount' = DivCeil(fileSize, Requested) % CountWidth
    /\ remaining' = fileSize
    /\ pc' = "cut"
    /\ UNCHANGED <<input, cut>>

RejectPlan ==
    /\ pc = "ask"
    /\ ~Accepts
    /\ pc' = "rejected"
    /\ UNCHANGED <<input, partSize, partCount, remaining, cut>>

\* Mutant: the loop ends when less than a full part remains.
CutDropsTail ==
    /\ pc = "cut"
    /\ LET length == IF remaining < partSize THEN remaining ELSE partSize
       IN  /\ cut' = Append(cut, length)
           /\ remaining' = remaining - length
    /\ pc' = IF remaining' < partSize THEN "done" ELSE "cut"
    /\ UNCHANGED <<input, partSize, partCount>>

\* Mutant: the bytes sent are taken off twice.
CutCountsTwice ==
    /\ pc = "cut"
    /\ LET length == IF remaining < partSize THEN remaining ELSE partSize
       IN  /\ cut' = Append(cut, length)
           /\ remaining' = remaining - 2 * length
    /\ pc' = IF remaining' <= 0 THEN "done" ELSE "cut"
    /\ UNCHANGED <<input, partSize, partCount>>

\* One turn of `while remaining > 0` in the reader of run_stream.
CutPart ==
    /\ pc = "cut"
    /\ LET length == IF remaining < partSize THEN remaining ELSE partSize
       IN  /\ cut' = Append(cut, length)
           /\ remaining' = remaining - length
    /\ pc' = IF remaining' = 0 THEN "done" ELSE "cut"
    /\ UNCHANGED <<input, partSize, partCount>>

Next == MakePlan \/ RejectPlan \/ CutPart

Spec == Init /\ [][Next]_vars

----------------------------------------------------------------------------
(* Properties *)

TypeOK ==
    /\ pc \in {"ask", "cut", "done", "rejected"}
    /\ asker \in Askers
    /\ fileSize \in 0..(MaxObjectSize + 1)
    /\ concurrency \in 0..(MaxConcurrency + 1)
    /\ budget \in 0..MaxBudget
    /\ partSize \in 0..(MaxPartSize + 1)
    /\ partCount \in 0..MaxParts
    /\ remaining \in 0..MaxObjectSize
    /\ cut \in Seq(1..MaxPartSize)

\* The stream reader, which counts bytes down, sends exactly the parts the plan
\* counts with, each of the length part_length gives it: so complete() accepts
\* its manifest and reconcile() the sizes R2 reports.
ReaderFollowsPlan ==
    /\ pc \in {"cut", "done"} => /\ Len(cut) <= partCount
                                 /\ \A n \in 1..Len(cut) : cut[n] = PartLength(n)
    /\ pc = "done" => Len(cut) = partCount

\* The parts of a plan tile the file: all but the last are of the same full
\* length, the last is not empty, and it ends where the file ends.
PlanTilesFile ==
    pc \in {"cut", "done"} =>
        /\ partCount >= 1
        /\ \A n \in 1..(partCount - 1) : PartLength(n) = partSize
        /\ PartLength(partCount) \in 1..partSize
        /\ PartStart(partCount) + PartLength(partCount) = fileSize

\* The part size is raised enough: a file R2 can hold never fails with
\* TooManyParts or PartSizeOutOfRange; what refuses it is the number of buffers,
\* or a budget that does not hold them at the size that the file needs.
AdaptiveSizeAlwaysFits ==
    /\ pc = "rejected"
    /\ Raises
    /\ ValidPartSize(partSize)
    /\ Managed => concurrency \in 1..MaxConcurrency /\ Requested * concurrency <= budget
    => fileSize > MaxObjectSize

\* The part size that send raises does not escape the memory budget: the parts
\* that a managed upload reads and holds at once, as many as it may have in
\* flight, fit max_buffered_bytes whoever asked for the upload.
BuffersFitBudget ==
    pc \in {"cut", "done"} /\ Managed =>
        \A n \in 1..partCount : PartLength(n) * concurrency <= budget
=============================================================================
