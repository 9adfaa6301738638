------------------------ MODULE MultipartPlanProofs ------------------------
(***************************************************************************)
(* Proofs of the properties of MultipartPlan, for all limits.              *)
(*                                                                         *)
(* The prover is weak at multiplication, so the facts about the product    *)
(* (n - 1) * partSize that the steps need are lemmas of their own.         *)
(***************************************************************************)
EXTENDS MultipartPlan, TLAPS

\* div_ceil gives the least number of parts of b bytes that holds a bytes.
LEMMA DivCeilRange ==
    ASSUME NEW a \in Nat, NEW b \in Nat \ {0}
    PROVE  /\ DivCeil(a, b) \in Nat
           /\ a <= DivCeil(a, b) * b
           /\ DivCeil(a, b) * b < a + b
BY Z3 DEF DivCeil

\* Products with a positive factor keep the order of the other factor.
LEMMA ProductOrder ==
    ASSUME NEW x \in Int, NEW y \in Int, NEW b \in Nat \ {0}, x < y
    PROVE  x * b + b <= y * b
<1>1. PICK d \in Nat : y = x + 1 + d
  <2>1. y - x - 1 \in Nat /\ y = x + 1 + (y - x - 1)
    OBVIOUS
  <2> QED
    BY <2>1
<1>2. y * b = x * b + b + d * b
  BY <1>1, Z3
<1>3. d * b \in Nat
  BY <1>1, Z3
<1>4. x * b \in Int /\ y * b \in Int
  BY Z3
<1> QED
  BY <1>2, <1>3, <1>4

\* A number of parts that holds the bytes is no less than div_ceil's.
LEMMA DivCeilLeast ==
    ASSUME NEW a \in Nat, NEW b \in Nat \ {0}, NEW k \in Nat, a <= k * b
    PROVE  DivCeil(a, b) <= k
<1> SUFFICES ASSUME k < DivCeil(a, b) PROVE FALSE
  BY DivCeilRange
<1>1. DivCeil(a, b) \in Nat /\ DivCeil(a, b) * b < a + b
  BY DivCeilRange
<1>2. k * b + b <= DivCeil(a, b) * b
  BY <1>1, ProductOrder
<1>3. k * b \in Int /\ DivCeil(a, b) * b \in Int
  BY <1>1, Z3
<1> QED
  BY <1>1, <1>2, <1>3

\* The largest part size that UploadFileBuilder::send may have to ask for.
LEMMA EffectiveSizeHasPlan ==
    ASSUME NEW f \in 1..MaxObjectSize, NEW s, ValidPartSize(s)
    PROVE  HasPlan(f, EffectivePartSize(f, s))
<1> DEFINE d == DivCeil(f, MaxParts)
           e == EffectivePartSize(f, s)
<1> USE LimitsAssumption
<1>1. d \in Nat /\ f <= d * MaxParts
  BY DivCeilRange
<1>2. d <= MaxPartSize
  <2>1. MaxParts * MaxPartSize = MaxPartSize * MaxParts
    BY Z3
  <2>2. MaxParts * MaxPartSize \in Int
    BY Z3
  <2>3. f <= MaxPartSize * MaxParts
    BY <2>1, <2>2, LargestObjectFits
  <2> QED
    BY <2>3, DivCeilLeast
<1>3. /\ e \in MinPartSize..MaxPartSize
      /\ e \in Nat \ {0}
      /\ d <= e
  BY <1>1, <1>2 DEF EffectivePartSize, ValidPartSize
<1>4. f <= MaxParts * e
  <2>1. d * MaxParts <= e * MaxParts
    <3>1. CASE d = e
      <4>1. e * MaxParts \in Int
        BY <1>3, Z3
      <4> QED
        BY <3>1, <4>1
    <3>2. CASE d < e
      <4>1. d * MaxParts + MaxParts <= e * MaxParts
        BY <1>1, <1>3, <3>2, ProductOrder
      <4>2. d * MaxParts \in Int /\ e * MaxParts \in Int
        BY <1>1, <1>3, Z3
      <4> QED
        BY <4>1, <4>2
    <3> QED
      BY <1>1, <1>3, <3>1, <3>2
  <2>2. /\ e * MaxParts = MaxParts * e
        /\ d * MaxParts \in Int
        /\ e * MaxParts \in Int
    BY <1>1, <1>3, Z3
  <2> QED
    BY <1>1, <2>1, <2>2
<1>5. DivCeil(f, e) <= MaxParts
  BY <1>3, <1>4, DivCeilLeast
<1> QED
  BY <1>3, <1>5 DEF HasPlan, ValidPartSize

----------------------------------------------------------------------------
(* The inductive invariant *)

Planned == pc \in {"cut", "done"}

InputInv ==
    /\ pc \in {"ask", "cut", "done", "rejected"}
    /\ asker \in Askers
    /\ fileSize \in 0..(MaxObjectSize + 1)
    /\ concurrency \in 0..(MaxConcurrency + 1)
    /\ budget \in 0..MaxBudget
    /\ partSize \in 0..(MaxPartSize + 1)
    /\ Raises => fileSize >= MinPartSize
    /\ ~Planned => partCount = 0 /\ remaining = 0 /\ cut = <<>>

\* The plan's count is the one that holds the file with no empty part.
PlanInv ==
    Planned =>
        /\ fileSize \in 1..MaxObjectSize
        /\ partSize \in MinPartSize..MaxPartSize
        /\ partCount \in 1..MaxParts
        /\ (partCount - 1) * partSize < fileSize
        /\ fileSize <= partCount * partSize

\* Where the reader's count of bytes stands in the plan.
CutInv ==
    Planned =>
        /\ cut \in Seq(1..MaxPartSize)
        /\ Len(cut) <= partCount
        /\ \A n \in 1..Len(cut) : cut[n] = PartLength(n)
        /\ pc = "cut" => remaining > 0 /\ remaining = fileSize - Len(cut) * partSize
        /\ pc = "done" => remaining = 0 /\ Len(cut) = partCount

\* validate() accepted the part size of the plan, raised or not.
BudgetInv == Planned /\ Managed => partSize * concurrency <= budget

IInv == InputInv /\ PlanInv /\ CutInv /\ BudgetInv /\ AdaptiveSizeAlwaysFits

\* The inductive invariant holds before a plan is asked for.
LEMMA InitIInv == Init => IInv
BY LimitsAssumption
   DEF Init, IInv, InputInv, PlanInv, CutInv, BudgetInv, AdaptiveSizeAlwaysFits, Planned

\* A new plan has the least number of parts that holds the file.
LEMMA PlanStep ==
    ASSUME IInv, MakePlan
    PROVE  IInv'
<1> USE LimitsAssumption
<1> DEFINE s == Requested
           d == DivCeil(fileSize, s)
<1>1. /\ pc' = "cut"
      /\ UNCHANGED <<asker, fileSize, concurrency, budget>>
      /\ partSize' = s
      /\ partCount' = d % CountWidth
      /\ remaining' = fileSize
      /\ cut' = <<>>
  BY DEF MakePlan, IInv, InputInv, Planned, input
<1>2. /\ fileSize \in 1..MaxObjectSize
      /\ s \in MinPartSize..MaxPartSize
      /\ s \in Nat \ {0}
      /\ d <= MaxParts
  BY DEF MakePlan, Accepts, HasPlan, ValidPartSize
<1>3. d \in Nat /\ fileSize <= d * s /\ d * s < fileSize + s
  BY <1>2, DivCeilRange
<1>4. d >= 1
  <2>1. d = 0 => d * s = 0
    BY <1>2, Z3
  <2> QED
    BY <1>2, <1>3, <2>1
<1>5. partCount' = d
  BY <1>1, <1>2, <1>3, Z3
<1>6. (d - 1) * s = d * s - s
  BY <1>2, <1>3, Z3
<1>7. d * s \in Int /\ 0 * s = 0
  BY <1>2, <1>3, Z3
<1>8. InputInv'
  BY <1>1, <1>2 DEF IInv, InputInv, Planned, Raises
<1>9. PlanInv'
  BY <1>1, <1>2, <1>3, <1>4, <1>5, <1>6, <1>7 DEF PlanInv
<1>10. CutInv'
  BY <1>1, <1>2, <1>4, <1>5, <1>7 DEF CutInv
<1>11. AdaptiveSizeAlwaysFits'
  BY <1>1 DEF AdaptiveSizeAlwaysFits
<1>12. BudgetInv'
  BY <1>1 DEF BudgetInv, MakePlan, Accepts, Validates, Managed
<1> QED
  BY <1>8, <1>9, <1>10, <1>11, <1>12 DEF IInv

\* The size send was given needs no more memory than the one it asks for.
LEMMA RequestIsCheaper ==
    ASSUME NEW f \in Nat, NEW s \in Nat, NEW c \in Nat \ {0}
    PROVE  s * c <= EffectivePartSize(f, s) * c
<1> DEFINE e == EffectivePartSize(f, s)
<1>1. e \in Nat /\ s <= e
  BY DivCeilRange, LimitsAssumption DEF EffectivePartSize
<1>2. s * c \in Int /\ e * c \in Int
  BY <1>1, Z3
<1>3. CASE s = e
  BY <1>2, <1>3
<1>4. CASE s < e
  <2>1. s * c + c <= e * c
    BY <1>1, <1>4, ProductOrder
  <2> QED
    BY <1>2, <2>1
<1> QED
  BY <1>1, <1>3, <1>4

\* A refusal is never the fault of the part size that is asked for.
LEMMA RejectStep ==
    ASSUME IInv, RejectPlan
    PROVE  IInv'
<1> USE LimitsAssumption
<1>1. UNCHANGED <<asker, fileSize, concurrency, budget, partSize, partCount, remaining, cut>>
  BY DEF RejectPlan, input
<1>2. AdaptiveSizeAlwaysFits'
  <2> SUFFICES ASSUME Raises, ValidPartSize(partSize), fileSize <= MaxObjectSize,
                      Managed => /\ concurrency \in 1..MaxConcurrency
                                 /\ Requested * concurrency <= budget
               PROVE  FALSE
    BY <1>1 DEF AdaptiveSizeAlwaysFits, ValidPartSize, IInv, InputInv, Raises, Managed,
                Requested, EffectivePartSize, DivCeil
  <2>1. fileSize \in 1..MaxObjectSize
    BY DEF IInv, InputInv
  <2>2. HasPlan(fileSize, Requested) /\ ValidPartSize(Requested)
    BY <2>1, EffectiveSizeHasPlan DEF Requested, HasPlan
  <2>3. Managed => Validates(Requested)
    BY <2>2 DEF Validates
  <2>4. asker = "adaptive" => Validates(partSize)
    <3> SUFFICES ASSUME asker = "adaptive" PROVE Validates(partSize)
      OBVIOUS
    <3>1. Requested = EffectivePartSize(fileSize, partSize)
      BY DEF Requested
    <3>2. /\ fileSize \in Nat /\ partSize \in Nat /\ concurrency \in Nat \ {0}
          /\ budget \in Nat /\ Requested \in Nat
      BY <2>1, <2>2 DEF ValidPartSize, Managed, IInv, InputInv
    <3>3. partSize * concurrency <= Requested * concurrency
      BY <3>1, <3>2, RequestIsCheaper
    <3>4. partSize * concurrency \in Int /\ Requested * concurrency \in Int
      BY <3>2, Z3
    <3> QED
      BY <3>2, <3>3, <3>4 DEF Validates, Managed
  <2> QED
    BY <2>2, <2>3, <2>4 DEF RejectPlan, Accepts
<1>3. InputInv' /\ PlanInv' /\ CutInv' /\ BudgetInv'
  BY <1>1 DEF RejectPlan, IInv, InputInv, PlanInv, CutInv, BudgetInv, Planned, Raises
<1> QED
  BY <1>2, <1>3 DEF IInv

\* The k parts the reader sent and the part it sends next, against the plan's count c.
LEMMA NextPart ==
    ASSUME NEW f \in Nat, NEW s \in Nat \ {0}, NEW c \in Nat, NEW k \in Nat, k <= c,
           (c - 1) * s < f, f <= c * s, k * s < f
    PROVE  /\ k < c
           /\ f - k * s <= s => k + 1 = c
           /\ (k + 1) * s = k * s + s
<1>1. k < c
  BY Z3
<1>2. (k + 1) * s = k * s + s /\ k * s \in Int /\ (c - 1) * s \in Int
  BY Z3
<1>3. ASSUME f - k * s <= s, k + 1 < c
      PROVE  FALSE
  <2>1. f <= (k + 1) * s
    BY <1>2, <1>3
  <2>2. CASE k + 1 = c - 1
    BY <1>2, <2>1, <2>2
  <2>3. CASE k + 1 < c - 1
    <3>1. (k + 1) * s + s <= (c - 1) * s
      BY <2>3, ProductOrder
    <3> QED
      BY <1>2, <2>1, <3>1
  <2> QED
    BY <1>3, <2>2, <2>3
<1> QED
  BY <1>1, <1>2, <1>3

\* The reader sends the part the plan has next, and ends with the last.
LEMMA CutStep ==
    ASSUME IInv, CutPart
    PROVE  IInv'
<1> USE LimitsAssumption
<1>1. /\ pc = "cut" /\ Planned
      /\ fileSize \in 1..MaxObjectSize
      /\ partSize \in MinPartSize..MaxPartSize
      /\ partSize \in Nat \ {0}
      /\ partCount \in 1..MaxParts
      /\ cut \in Seq(1..MaxPartSize)
      /\ Len(cut) <= partCount
      /\ \A n \in 1..Len(cut) : cut[n] = PartLength(n)
      /\ remaining > 0 /\ remaining = fileSize - Len(cut) * partSize
  BY DEF CutPart, IInv, PlanInv, CutInv, Planned
<1>2. /\ (partCount - 1) * partSize < fileSize
      /\ fileSize <= partCount * partSize
  BY <1>1 DEF IInv, PlanInv
<1>3. PICK k \in Nat : k = Len(cut)
  BY <1>1
<1>4. k * partSize \in Int
  BY <1>1, Z3
<1>5. remaining \in Nat /\ remaining = fileSize - k * partSize /\ k * partSize < fileSize
  BY <1>1, <1>3, <1>4
<1>6. /\ k < partCount
      /\ remaining <= partSize => k + 1 = partCount
      /\ (k + 1) * partSize = k * partSize + partSize
  <2>1. /\ fileSize \in Nat /\ partCount \in Nat /\ k <= partCount
        /\ remaining = fileSize - k * partSize
    BY <1>1, <1>3, <1>5
  <2>2. /\ k < partCount
        /\ fileSize - k * partSize <= partSize => k + 1 = partCount
        /\ (k + 1) * partSize = k * partSize + partSize
    <3> HIDE LimitsAssumption
    <3>1. partSize \in Nat \ {0} /\ k * partSize < fileSize
      BY <1>1, <1>5
    <3>2. (partCount - 1) * partSize < fileSize /\ fileSize <= partCount * partSize
      BY <1>2
    <3> QED
      BY <2>1, <3>1, <3>2, NextPart, Zenon
  <2> QED
    BY <2>1, <2>2
<1>7. PICK length : /\ length = (IF remaining < partSize THEN remaining ELSE partSize)
                    /\ cut' = Append(cut, length)
                    /\ remaining' = remaining - length
  BY DEF CutPart
<1>8. /\ length \in 1..MaxPartSize
      /\ remaining <= partSize => length = remaining
      /\ remaining > partSize => length = partSize
  BY <1>1, <1>5, <1>7
<1>9. /\ UNCHANGED <<asker, fileSize, concurrency, budget, partSize, partCount>>
      /\ pc' = IF remaining' = 0 THEN "done" ELSE "cut"
  BY DEF CutPart, input
<1>10. /\ cut' \in Seq(1..MaxPartSize)
       /\ Len(cut') = k + 1
       /\ \A n \in 1..k : cut'[n] = cut[n]
       /\ cut'[k + 1] = length
  BY <1>1, <1>3, <1>7, <1>8
<1>11. length = PartLength(k + 1)
  <2>1. PartStart(k + 1) = k * partSize
    <3>1. (k + 1) - 1 = k
      OBVIOUS
    <3> QED
      BY <3>1 DEF PartStart
  <2>2. fileSize - PartStart(k + 1) = remaining
    BY <1>5, <2>1
  <2> QED
    BY <1>7, <2>2 DEF PartLength
<1>12. \A n \in 1..Len(cut') : cut'[n] = PartLength(n)'
  <2> SUFFICES ASSUME NEW n \in 1..(k + 1) PROVE cut'[n] = PartLength(n)'
    BY <1>10
  <2>1. PartLength(n)' = PartLength(n)
    BY <1>9 DEF PartLength, PartStart
  <2>2. CASE n = k + 1
    BY <1>10, <1>11, <2>1, <2>2
  <2>3. CASE n \in 1..k
    BY <1>1, <1>3, <1>10, <2>1, <2>3
  <2> QED
    BY <2>2, <2>3
<1>13. pc' = "cut" => /\ remaining' > 0
                      /\ remaining' = fileSize' - Len(cut') * partSize'
  <2> SUFFICES ASSUME pc' = "cut"
               PROVE  remaining' > 0 /\ remaining' = fileSize - (k + 1) * partSize
    BY <1>9, <1>10
  <2>1. remaining > partSize
    BY <1>1, <1>5, <1>7, <1>8, <1>9
  <2>2. remaining' = remaining - partSize
    BY <1>7, <1>8, <2>1
  <2> QED
    BY <1>1, <1>4, <1>5, <1>6, <2>1, <2>2
<1>14. pc' = "done" => remaining' = 0 /\ Len(cut') = partCount'
  <2> SUFFICES ASSUME pc' = "done" PROVE remaining' = 0 /\ k + 1 = partCount
    BY <1>9, <1>10
  <2>1. remaining' = 0
    BY <1>9
  <2>2. remaining <= partSize
    BY <1>1, <1>5, <1>7, <1>8, <2>1
  <2> QED
    BY <1>6, <2>1, <2>2
<1>15. CutInv'
  <2>1. Len(cut') <= partCount'
    BY <1>1, <1>6, <1>9, <1>10
  <2>2. cut' \in Seq(1..MaxPartSize)
    BY <1>10
  <2>3. (\A n \in 1..Len(cut) : cut[n] = PartLength(n))'
    BY <1>12
  <2> QED
    BY <1>13, <1>14, <2>1, <2>2, <2>3, Zenon DEF CutInv
<1>16. Planned'
  BY <1>9 DEF Planned
<1>17. PlanInv'
  BY <1>1, <1>2, <1>9, <1>16 DEF PlanInv
<1>18. InputInv'
  BY <1>9, <1>16 DEF IInv, InputInv, Planned, Raises
<1>19. AdaptiveSizeAlwaysFits'
  BY <1>9 DEF AdaptiveSizeAlwaysFits
<1>20. BudgetInv'
  BY <1>1, <1>9 DEF IInv, BudgetInv, Managed
<1> QED
  BY <1>15, <1>17, <1>18, <1>19, <1>20 DEF IInv

\* IInv holds throughout.
LEMMA Invariance == Spec => []IInv
<1>1. IInv /\ [Next]_vars => IInv'
  <2> SUFFICES ASSUME IInv, [Next]_vars PROVE IInv'
    OBVIOUS
  <2>1. CASE MakePlan
    BY <2>1, PlanStep
  <2>2. CASE RejectPlan
    BY <2>2, RejectStep
  <2>3. CASE CutPart
    BY <2>3, CutStep
  <2>4. CASE UNCHANGED vars
    <3>1. UNCHANGED <<pc, asker, fileSize, concurrency, budget, partSize, partCount,
                      remaining, cut>>
      BY <2>4 DEF vars, input
    <3>2. (InputInv /\ PlanInv /\ CutInv /\ BudgetInv)'
      BY <3>1 DEF IInv, InputInv, PlanInv, CutInv, BudgetInv, Planned, PartLength,
                  PartStart, Raises, Managed
    <3>3. AdaptiveSizeAlwaysFits'
      BY <3>1 DEF IInv, AdaptiveSizeAlwaysFits, Raises, Managed, Requested, ValidPartSize,
                  EffectivePartSize, DivCeil
    <3> QED
      BY <3>2, <3>3 DEF IInv
  <2> QED
    BY <2>1, <2>2, <2>3, <2>4 DEF Next
<1> QED
  BY InitIInv, <1>1, PTL DEF Spec

----------------------------------------------------------------------------
(* The theorems *)

\* The variables of every plan keep their types; the u16 of part_count never
\* loses bits and the reader's count of remaining bytes never goes below 0.
THEOREM TypeCorrect == Spec => []TypeOK
<1>1. IInv => TypeOK
  <2> SUFFICES ASSUME IInv PROVE TypeOK
    OBVIOUS
  <2> USE LimitsAssumption
  <2>1. InputInv
    BY DEF IInv
  <2>2. CASE ~Planned
    BY <2>1, <2>2 DEF InputInv, TypeOK
  <2>3. CASE Planned
    <3>1. partSize \in Nat /\ Len(cut) \in Nat
      BY <2>3 DEF IInv, PlanInv, CutInv
    <3>2. Len(cut) * partSize \in Nat
      BY <3>1, Z3
    <3>3. remaining \in 0..MaxObjectSize
      BY <2>3, <3>2 DEF IInv, PlanInv, CutInv, Planned
    <3> QED
      BY <2>1, <2>3, <3>3 DEF IInv, InputInv, PlanInv, CutInv, TypeOK
  <2> QED
    BY <2>2, <2>3
<1> QED
  BY Invariance, <1>1, PTL

\* run_stream's reader and MultipartPlan cut every file the same way.
THEOREM ReaderAgrees == Spec => []ReaderFollowsPlan
<1>1. IInv => ReaderFollowsPlan
  BY DEF IInv, CutInv, ReaderFollowsPlan, Planned
<1> QED
  BY Invariance, <1>1, PTL

\* The parts of every plan tile the file: equal full parts and a tail in 1..partSize.
THEOREM PlanTiles == Spec => []PlanTilesFile
<1>1. IInv => PlanTilesFile
  <2> SUFFICES ASSUME IInv, Planned PROVE PlanTilesFile
    BY DEF PlanTilesFile, Planned
  <2> USE LimitsAssumption
  <2>1. /\ fileSize \in 1..MaxObjectSize
        /\ partSize \in Nat \ {0}
        /\ partCount \in 1..MaxParts
        /\ (partCount - 1) * partSize < fileSize
        /\ fileSize <= partCount * partSize
    BY DEF IInv, PlanInv
  <2>2. /\ (partCount - 1) * partSize \in Int
        /\ partCount * partSize = (partCount - 1) * partSize + partSize
    BY <2>1, Z3
  <2>3. ASSUME NEW n \in 1..(partCount - 1)
        PROVE  PartLength(n) = partSize
    <3>1. (n - 1) * partSize + partSize <= (partCount - 1) * partSize
      BY <2>1, ProductOrder
    <3>2. (n - 1) * partSize \in Int
      BY <2>1, Z3
    <3> QED
      BY <2>1, <2>2, <3>1, <3>2 DEF PartLength, PartStart
  <2>4. /\ PartLength(partCount) \in 1..partSize
        /\ PartStart(partCount) + PartLength(partCount) = fileSize
    BY <2>1, <2>2 DEF PartLength, PartStart
  <2> QED
    BY <2>1, <2>3, <2>4 DEF PlanTilesFile
<1> QED
  BY Invariance, <1>1, PTL

\* Raising the part size always gives a plan, whatever the limits are: only a
\* file too large, or a budget too small, refuses the upload.
THEOREM AdaptiveFits == Spec => []AdaptiveSizeAlwaysFits
<1>1. IInv => AdaptiveSizeAlwaysFits
  BY DEF IInv
<1> QED
  BY Invariance, <1>1, PTL

\* The size send raises stays within max_buffered_bytes, however large the file is.
THEOREM BudgetHolds == Spec => []BuffersFitBudget
<1>1. IInv => BuffersFitBudget
  <2> SUFFICES ASSUME IInv, Planned, Managed, NEW n \in 1..partCount
               PROVE  PartLength(n) * concurrency <= budget
    BY DEF BuffersFitBudget, Planned
  <2> USE LimitsAssumption
  <2> DEFINE l == PartLength(n)
  <2>1. /\ fileSize \in Nat /\ partSize \in Nat \ {0} /\ concurrency \in Nat
        /\ budget \in Nat
        /\ partSize * concurrency <= budget
    BY DEF IInv, InputInv, PlanInv, BudgetInv
  <2>2. (n - 1) * partSize \in Int
    BY <2>1, Z3
  <2>3. l \in Int /\ l <= partSize
    BY <2>1, <2>2 DEF PartLength, PartStart
  <2>4. concurrency = 0 => l * concurrency = 0
    BY <2>3, Z3
  <2>5. l * concurrency \in Int /\ partSize * concurrency \in Int
    BY <2>1, <2>3, Z3
  <2>6. ASSUME concurrency # 0, l < partSize
        PROVE  l * concurrency <= partSize * concurrency
    <3>1. l * concurrency + concurrency <= partSize * concurrency
      BY <2>1, <2>3, <2>6, ProductOrder
    <3> QED
      BY <2>1, <2>5, <3>1
  <2> QED
    BY <2>1, <2>3, <2>4, <2>5, <2>6
<1> QED
  BY Invariance, <1>1, PTL

=============================================================================
