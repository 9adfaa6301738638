------------------------- MODULE StreamUploadProofs -------------------------
(***************************************************************************)
(* Proofs about StreamUpload for every declared size, concurrency and      *)
(* budget.                                                                 *)
(*                                                                         *)
(* The inductive invariant IInv is TypeOK with four further parts:         *)
(*   ReaderInv  where the reader can be, and that its loop ends exactly    *)
(*              with the last declared part;                               *)
(*   QueueInv   while run_stream runs the channel holds the parts just     *)
(*              before the reader's next one, in order, and all the parts  *)
(*              before those are in flight or uploaded;                    *)
(*   StageInv   what completion, success and the cleanup know of it, also  *)
(*              a completion that R2 may still carry out;                  *)
(*   SessionInv what answers and requests given up say of the session.     *)
(* Then the refinement of UploadContract, and progress: a rank that the    *)
(* steps of the call lower, and what fairness makes of it.                 *)
(***************************************************************************)
EXTENDS StreamUpload, FiniteSetTheorems, SequenceTheorems, TLAPS

ReaderInv ==
    /\ reader = "finished" <=> next = Declared + 1
    /\ pc \in {"idle", "create"} => reader = "unborn" /\ next = 1
    /\ pc = "run" => reader \in {"reading", "sending", "failed", "finished"}

\* The last part that left the channel.
Taken == next - 1 - Len(channel)

QueueInv ==
    /\ Len(channel) <= ChannelSize
    /\ Cardinality(inFlight) <= Concurrency
    /\ uploaded \intersect inFlight = {}
    /\ pc # "run" => channel = <<>> /\ inFlight = {}
    /\ pc = "run" =>
           /\ Taken \in Nat
           /\ \A i \in 1..Len(channel) : channel[i] = Taken + i
           /\ uploaded \union inFlight = 1..Taken

StageInv ==
    /\ pc \in {"idle", "create"} => uploaded = {} /\ session = "none"
    /\ pc = "run" => session = "open"
    /\ pc = "complete" => reader = "finished" /\ uploaded = Parts
    /\ "complete" \in late => reader = "finished" /\ uploaded = Parts
    /\ ShortSourceIsReported

\* What answers, requests given up and results say of the session.
SessionInv ==
    /\ answer # "none" => pc \in {"complete", "cleanup"}
    /\ pc = "complete" /\ answer = "ok" => session = "completed"
    /\ pc = "cleanup" /\ answer = "ok" => session = "aborted"
    /\ late # {} => pc \in {"cleanup", "done"}
    /\ result # "none" => pc = "done"

IInv == TypeOK /\ ReaderInv /\ QueueInv /\ StageInv /\ SessionInv

USE StreamAssumption DEF StreamAssumption

----------------------------------------------------------------------------
(* The channel *)

LEMMA ChannelSizePositive == ChannelSize \in Nat \ {0}
  BY DEF ChannelSize

\* What the reader appends is the part after those in the channel.
LEMMA AppendPart ==
    ASSUME NEW s \in Seq(Parts), NEW p \in Parts
    PROVE  /\ Append(s, p) \in Seq(Parts)
           /\ Len(Append(s, p)) = Len(s) + 1
           /\ \A i \in 1..Len(s) : Append(s, p)[i] = s[i]
           /\ Append(s, p)[Len(s) + 1] = p
  OBVIOUS

\* What is left of the channel moves up by one.
LEMMA TailParts ==
    ASSUME NEW s \in Seq(Parts), s # <<>>
    PROVE  /\ Len(s) \in Nat \ {0}
           /\ Head(s) = s[1] /\ Head(s) \in Parts
           /\ Tail(s) \in Seq(Parts)
           /\ Len(Tail(s)) = Len(s) - 1
           /\ \A i \in 1..(Len(s) - 1) : Tail(s)[i] = s[i + 1]
  OBVIOUS

----------------------------------------------------------------------------
(* The invariant *)

LEMMA InitInv == Init => IInv
<1> SUFFICES ASSUME Init PROVE IInv
  OBVIOUS
<1>1. TypeOK
  <2>1. next \in 1..(Declared + 1) /\ channel \in Seq(Parts)
    BY DEF Init
  <2> QED
    BY <2>1 DEF Init, TypeOK
<1>2. QueueInv
  <2>1. Len(channel) = 0 /\ Cardinality(inFlight) = 0
    BY FS_EmptySet DEF Init
  <2> QED
    BY <2>1, ChannelSizePositive DEF Init, QueueInv
<1>3. ReaderInv /\ StageInv /\ SessionInv
  BY DEF Init, ReaderInv, StageInv, SessionInv, ShortSourceIsReported
<1> QED
  BY <1>1, <1>2, <1>3 DEF IInv

LEMMA PartsAreFinite ==
    ASSUME NEW s \in SUBSET Parts
    PROVE  IsFiniteSet(s) /\ Cardinality(s) \in Nat
<1>1. IsFiniteSet(Parts)
  BY FS_Interval DEF Parts
<1> QED
  BY <1>1, FS_Subset, FS_CardinalityType

LEMMA CardinalityMoves ==
    ASSUME NEW s \in SUBSET Parts, NEW p \in Parts
    PROVE  /\ Cardinality(s \union {p}) <= Cardinality(s) + 1
           /\ Cardinality(s \ {p}) <= Cardinality(s)
<1>1. IsFiniteSet(s) /\ Cardinality(s) \in Nat
  BY PartsAreFinite
<1>2. Cardinality(s \union {p}) \in {Cardinality(s), Cardinality(s) + 1}
  BY <1>1, FS_AddElement
<1>3. Cardinality(s \ {p}) \in {Cardinality(s), Cardinality(s) - 1}
  BY <1>1, FS_RemoveElement
<1> QED
  BY <1>1, <1>2, <1>3

LEMMA TypeStep ==
    ASSUME IInv, [Next]_vars
    PROVE  TypeOK'
<1> USE DEF pipeVars, remoteVars, DropFutures, Unhandled, IInv, TypeOK
<1>1. CASE RefuseToStart
  BY <1>1 DEF RefuseToStart
<1>2. CASE StartStream
  BY <1>2 DEF StartStream
<1>3. CASE SourceYields
  BY <1>3 DEF SourceYields
<1>4. CASE SourceFails
  BY <1>4 DEF SourceFails
<1>5. CASE ReaderSends
  <2>1. next \in Parts /\ next + 1 \in 1..(Declared + 1)
    BY <1>5 DEF ReaderSends, ReaderInv, Parts
  <2> QED
    BY <1>5, <2>1, AppendPart DEF ReaderSends
<1>6. CASE ReaderStops
  BY <1>6 DEF ReaderStops
<1>7. CASE TakePart
  BY <1>7, TailParts DEF TakePart
<1>8. CASE PartUploaded
  BY <1>8 DEF PartUploaded
<1>9. CASE PartFails
  BY <1>9 DEF PartFails, FailStream
<1>10. CASE JoinReader
  BY <1>10 DEF JoinReader, FailStream, BeginComplete, Drained, ReaderEnded
<1>11. CASE CompleteSucceeds
  BY <1>11 DEF CompleteSucceeds
<1>12. CASE CompleteFails
  BY <1>12 DEF CompleteFails, FailStream
<1>13. CASE CancelWins
  BY <1>13 DEF CancelWins, FailStream
<1>14. CASE AbortSucceeds
  BY <1>14 DEF AbortSucceeds
<1>15. CASE KeepSnapshot
  BY <1>15 DEF KeepSnapshot
<1>16. CASE Cancel
  BY <1>16 DEF Cancel
<1>17. CASE UNCHANGED vars
  BY <1>17 DEF vars
<1>18. CASE CallStream
  BY <1>18 DEF CallStream
<1>19. CASE HandleComplete
  BY <1>19 DEF HandleComplete
<1>20. CASE HandleAbort
  BY <1>20 DEF HandleAbort
<1>21. CASE DropCall
  BY <1>21 DEF DropCall
<1>22. CASE HandleLate
  <2>1. late' \in SUBSET {"complete", "abort"} /\ session' \in {"completed", "aborted"}
    BY <1>22 DEF HandleLate
  <2> QED
    BY <1>22, <2>1 DEF HandleLate
<1> QED
  BY <1>1, <1>2, <1>3, <1>4, <1>5, <1>6, <1>7, <1>8, <1>9, <1>10, <1>11, <1>12,
     <1>13, <1>14, <1>15, <1>16, <1>17, <1>18, <1>19, <1>20, <1>21, <1>22
  DEF Next, SourceStep, ReaderStep, UploadStep, RemoteStep, ApplicationStep

LEMMA LoopStep ==
    ASSUME IInv, [Next]_vars
    PROVE  ReaderInv'
<1> USE DEF pipeVars, remoteVars, DropFutures, Unhandled, IInv, TypeOK, ReaderInv
<1>1. CASE RefuseToStart
  BY <1>1 DEF RefuseToStart
<1>2. CASE StartStream
  BY <1>2 DEF StartStream
<1>3. CASE SourceYields
  BY <1>3 DEF SourceYields
<1>4. CASE SourceFails
  BY <1>4 DEF SourceFails
<1>5. CASE ReaderSends
  BY <1>5 DEF ReaderSends
<1>6. CASE ReaderStops
  BY <1>6 DEF ReaderStops
<1>7. CASE TakePart
  BY <1>7 DEF TakePart
<1>8. CASE PartUploaded
  BY <1>8 DEF PartUploaded
<1>9. CASE PartFails
  BY <1>9 DEF PartFails, FailStream
<1>10. CASE JoinReader
  BY <1>10 DEF JoinReader, FailStream, BeginComplete, Drained, ReaderEnded
<1>11. CASE CompleteSucceeds
  BY <1>11 DEF CompleteSucceeds
<1>12. CASE CompleteFails
  BY <1>12 DEF CompleteFails, FailStream
<1>13. CASE CancelWins
  BY <1>13 DEF CancelWins, FailStream
<1>14. CASE AbortSucceeds
  BY <1>14 DEF AbortSucceeds
<1>15. CASE KeepSnapshot
  BY <1>15 DEF KeepSnapshot
<1>16. CASE Cancel
  BY <1>16 DEF Cancel
<1>17. CASE UNCHANGED vars
  BY <1>17 DEF vars
<1>18. CASE CallStream
  BY <1>18 DEF CallStream
<1>19. CASE HandleComplete
  BY <1>19 DEF HandleComplete
<1>20. CASE HandleAbort
  BY <1>20 DEF HandleAbort
<1>21. CASE DropCall
  BY <1>21 DEF DropCall
<1>22. CASE HandleLate
  BY <1>22 DEF HandleLate
<1> QED
  BY <1>1, <1>2, <1>3, <1>4, <1>5, <1>6, <1>7, <1>8, <1>9, <1>10, <1>11, <1>12,
     <1>13, <1>14, <1>15, <1>16, <1>17, <1>18, <1>19, <1>20, <1>21, <1>22
  DEF Next, SourceStep, ReaderStep, UploadStep, RemoteStep, ApplicationStep

LEMMA QueueStep ==
    ASSUME IInv, [Next]_vars
    PROVE  QueueInv'
<1> USE DEF pipeVars, remoteVars, DropFutures, Unhandled, IInv, TypeOK, QueueInv, Taken
<1>1. CASE RefuseToStart
  BY <1>1, FS_EmptySet, ChannelSizePositive DEF RefuseToStart
<1>2. CASE StartStream
  <2>1. uploaded = {} /\ Taken' = 0 /\ channel' = <<>> /\ inFlight' = {}
    BY <1>2 DEF StartStream, ReaderInv, StageInv
  <2>2. Len(channel') = 0 /\ Cardinality(inFlight') = 0
    BY <2>1, FS_EmptySet
  <2> QED
    BY <1>2, <2>1, <2>2, ChannelSizePositive DEF StartStream
<1>3. CASE SourceYields
  BY <1>3 DEF SourceYields
<1>4. CASE SourceFails
  BY <1>4 DEF SourceFails
<1>5. CASE ReaderSends
  <2>1. next \in Parts
    BY <1>5 DEF ReaderSends, ReaderInv, Parts
  <2>2. /\ Len(channel') = Len(channel) + 1
        /\ \A i \in 1..Len(channel) : channel'[i] = channel[i]
        /\ channel'[Len(channel) + 1] = next
    BY <1>5, <2>1, AppendPart DEF ReaderSends
  <2>3. Taken' = Taken
    BY <1>5, <2>2 DEF ReaderSends
  <2>4. \A i \in 1..Len(channel') : channel'[i] = Taken' + i
    <3>1. Len(channel) \in Nat /\ next \in Nat /\ pc = "run"
      BY <1>5, <2>1 DEF ReaderSends, Parts
    <3>2. channel'[Len(channel) + 1] = Taken + (Len(channel) + 1)
      BY <3>1, <2>2
    <3>3. \A i \in 1..Len(channel) : channel'[i] = Taken + i
      BY <3>1, <2>2
    <3>4. \A i \in 1..(Len(channel) + 1) : i \in 1..Len(channel) \/ i = Len(channel) + 1
      BY <3>1
    <3> QED
      BY <3>2, <3>3, <3>4, <2>2, <2>3
  <2>5. Len(channel') <= ChannelSize
    BY <1>5, <2>2, ChannelSizePositive DEF ReaderSends
  <2> QED
    BY <1>5, <2>3, <2>4, <2>5 DEF ReaderSends
<1>6. CASE ReaderStops
  BY <1>6 DEF ReaderStops
<1>7. CASE TakePart
  <2>1. Head(channel) = Taken + 1 /\ Len(channel) \in Nat \ {0}
    BY <1>7, TailParts DEF TakePart
  <2>2. Len(channel') = Len(channel) - 1
    BY <1>7, TailParts DEF TakePart
  <2>3. Taken' = Taken + 1
    BY <1>7, <2>1, <2>2 DEF TakePart
  <2>4. \A i \in 1..Len(channel') : channel'[i] = Taken' + i
    BY <1>7, <2>1, <2>2, <2>3, TailParts DEF TakePart
  <2>5. Taken + 1 \notin uploaded \union inFlight
    BY <1>7 DEF TakePart
  <2>6. uploaded' \union inFlight' = 1..Taken' /\ uploaded' \intersect inFlight' = {}
    BY <1>7, <2>1, <2>3, <2>5 DEF TakePart
  <2>7. Cardinality(inFlight') <= Concurrency
    <3>1. /\ inFlight' = inFlight \union {Head(channel)} /\ Head(channel) \in Parts
          /\ Cardinality(inFlight) < Concurrency /\ Cardinality(inFlight) \in Nat
      BY <1>7, TailParts, PartsAreFinite DEF TakePart
    <3>2. Cardinality(inFlight') <= Cardinality(inFlight) + 1
      BY <3>1, CardinalityMoves
    <3>3. inFlight' \in SUBSET Parts
      BY <3>1
    <3>4. Cardinality(inFlight') \in Nat
      BY <3>3, PartsAreFinite
    <3> QED
      BY <3>1, <3>2, <3>4
  <2> QED
    BY <1>7, <2>2, <2>3, <2>4, <2>6, <2>7, ChannelSizePositive DEF TakePart
<1>8. CASE PartUploaded
  <2>1. PICK p \in inFlight : inFlight' = inFlight \ {p} /\ uploaded' = uploaded \union {p}
    BY <1>8 DEF PartUploaded
  <2>2. Cardinality(inFlight') <= Concurrency
    BY <2>1, PartsAreFinite, CardinalityMoves
  <2> QED
    BY <1>8, <2>1, <2>2 DEF PartUploaded
<1>9. CASE PartFails
  BY <1>9, FS_EmptySet, ChannelSizePositive DEF PartFails, FailStream
<1>10. CASE JoinReader
  BY <1>10, FS_EmptySet, ChannelSizePositive DEF JoinReader, FailStream, BeginComplete, Drained, ReaderEnded
<1>11. CASE CompleteSucceeds
  BY <1>11 DEF CompleteSucceeds
<1>12. CASE CompleteFails
  BY <1>12, FS_EmptySet, ChannelSizePositive DEF CompleteFails, FailStream
<1>13. CASE CancelWins
  BY <1>13, FS_EmptySet, ChannelSizePositive DEF CancelWins, FailStream
<1>14. CASE AbortSucceeds
  BY <1>14 DEF AbortSucceeds
<1>15. CASE KeepSnapshot
  BY <1>15, FS_EmptySet, ChannelSizePositive DEF KeepSnapshot
<1>16. CASE Cancel
  BY <1>16 DEF Cancel
<1>17. CASE UNCHANGED vars
  BY <1>17 DEF vars
<1>18. CASE CallStream
  BY <1>18 DEF CallStream
<1>19. CASE HandleComplete
  BY <1>19 DEF HandleComplete
<1>20. CASE HandleAbort
  BY <1>20 DEF HandleAbort
<1>21. CASE DropCall
  BY <1>21, FS_EmptySet, ChannelSizePositive DEF DropCall
<1>22. CASE HandleLate
  BY <1>22 DEF HandleLate
<1> QED
  BY <1>1, <1>2, <1>3, <1>4, <1>5, <1>6, <1>7, <1>8, <1>9, <1>10, <1>11, <1>12,
     <1>13, <1>14, <1>15, <1>16, <1>17, <1>18, <1>19, <1>20, <1>21, <1>22
  DEF Next, SourceStep, ReaderStep, UploadStep, RemoteStep, ApplicationStep

LEMMA StageStep ==
    ASSUME IInv, [Next]_vars
    PROVE  StageInv'
<1> USE DEF pipeVars, remoteVars, DropFutures, Unhandled, IInv, TypeOK, StageInv, ShortSourceIsReported, ReaderInv, QueueInv, Taken, Parts
<1>1. CASE RefuseToStart
  BY <1>1 DEF RefuseToStart
<1>2. CASE StartStream
  BY <1>2 DEF StartStream
<1>3. CASE SourceYields
  BY <1>3 DEF SourceYields
<1>4. CASE SourceFails
  BY <1>4 DEF SourceFails
<1>5. CASE ReaderSends
  BY <1>5 DEF ReaderSends
<1>6. CASE ReaderStops
  BY <1>6 DEF ReaderStops
<1>7. CASE TakePart
  BY <1>7 DEF TakePart
<1>8. CASE PartUploaded
  BY <1>8 DEF PartUploaded
<1>9. CASE PartFails
  BY <1>9 DEF PartFails, FailStream
<1>10. CASE JoinReader
  <2>1. reader = "finished" => uploaded = Parts
    BY <1>10 DEF JoinReader, Drained
  <2> QED
    BY <1>10, <2>1 DEF JoinReader, Drained, ReaderEnded, FailStream, BeginComplete
<1>11. CASE CompleteSucceeds
  BY <1>11 DEF CompleteSucceeds
<1>12. CASE CompleteFails
  BY <1>12 DEF CompleteFails, FailStream
<1>13. CASE CancelWins
  BY <1>13 DEF CancelWins, FailStream
<1>14. CASE AbortSucceeds
  BY <1>14 DEF AbortSucceeds
<1>15. CASE KeepSnapshot
  BY <1>15 DEF KeepSnapshot
<1>16. CASE Cancel
  BY <1>16 DEF Cancel
<1>17. CASE UNCHANGED vars
  BY <1>17 DEF vars
<1>18. CASE CallStream
  BY <1>18 DEF CallStream
<1>19. CASE HandleComplete
  BY <1>19 DEF HandleComplete
<1>20. CASE HandleAbort
  BY <1>20 DEF HandleAbort
<1>21. CASE DropCall
  BY <1>21 DEF DropCall
<1>22. CASE HandleLate
  BY <1>22 DEF HandleLate, SessionInv
<1> QED
  BY <1>1, <1>2, <1>3, <1>4, <1>5, <1>6, <1>7, <1>8, <1>9, <1>10, <1>11, <1>12,
     <1>13, <1>14, <1>15, <1>16, <1>17, <1>18, <1>19, <1>20, <1>21, <1>22
  DEF Next, SourceStep, ReaderStep, UploadStep, RemoteStep, ApplicationStep

LEMMA SessionStep ==
    ASSUME IInv, [Next]_vars
    PROVE  SessionInv'
<1> USE DEF pipeVars, remoteVars, DropFutures, Unhandled, IInv, TypeOK, SessionInv, StageInv
<1>1. CASE RefuseToStart
  BY <1>1 DEF RefuseToStart
<1>2. CASE StartStream
  BY <1>2 DEF StartStream
<1>3. CASE SourceYields
  BY <1>3 DEF SourceYields
<1>4. CASE SourceFails
  BY <1>4 DEF SourceFails
<1>5. CASE ReaderSends
  BY <1>5 DEF ReaderSends
<1>6. CASE ReaderStops
  BY <1>6 DEF ReaderStops
<1>7. CASE TakePart
  BY <1>7 DEF TakePart
<1>8. CASE PartUploaded
  BY <1>8 DEF PartUploaded
<1>9. CASE PartFails
  BY <1>9 DEF PartFails, FailStream
<1>10. CASE JoinReader
  BY <1>10 DEF JoinReader, FailStream, BeginComplete, Drained, ReaderEnded
<1>11. CASE CompleteSucceeds
  BY <1>11 DEF CompleteSucceeds
<1>12. CASE CompleteFails
  BY <1>12 DEF CompleteFails, FailStream
<1>13. CASE CancelWins
  BY <1>13 DEF CancelWins, FailStream
<1>14. CASE AbortSucceeds
  BY <1>14 DEF AbortSucceeds
<1>15. CASE KeepSnapshot
  BY <1>15 DEF KeepSnapshot
<1>16. CASE Cancel
  BY <1>16 DEF Cancel
<1>17. CASE UNCHANGED vars
  BY <1>17 DEF vars
<1>18. CASE CallStream
  BY <1>18 DEF CallStream
<1>19. CASE HandleComplete
  BY <1>19 DEF HandleComplete
<1>20. CASE HandleAbort
  BY <1>20 DEF HandleAbort
<1>21. CASE DropCall
  BY <1>21 DEF DropCall
<1>22. CASE HandleLate
  BY <1>22 DEF HandleLate
<1> QED
  BY <1>1, <1>2, <1>3, <1>4, <1>5, <1>6, <1>7, <1>8, <1>9, <1>10, <1>11, <1>12,
     <1>13, <1>14, <1>15, <1>16, <1>17, <1>18, <1>19, <1>20, <1>21, <1>22
  DEF Next, SourceStep, ReaderStep, UploadStep, RemoteStep, ApplicationStep

THEOREM Invariance == Spec => []IInv
<1>1. IInv /\ [Next]_vars => IInv'
  BY TypeStep, LoopStep, QueueStep, StageStep, SessionStep DEF IInv
<1> QED
  BY InitInv, <1>1, PTL DEF Spec

----------------------------------------------------------------------------
(* The properties *)

\* Types of every variable of StreamUpload.
THEOREM TypeCorrect == Spec => []TypeOK
<1>1. IInv => TypeOK
  BY DEF IInv
<1> QED
  BY Invariance, <1>1, PTL

\* The pipeline of run_stream never holds more part buffers than its channel, its
\* slots and the reader have, for any budget that validate() accepts.
THEOREM BuffersAreBounded == Spec => []BuffersBounded
<1>1. IInv => BuffersBounded
  <2> SUFFICES ASSUME IInv PROVE BuffersBounded
    OBVIOUS
  <2>1. Len(channel) \in Nat /\ Len(channel) <= ChannelSize /\ ChannelSize \in Nat
    BY ChannelSizePositive DEF IInv, TypeOK, QueueInv
  <2>2. Cardinality(inFlight) \in Nat /\ Cardinality(inFlight) <= Concurrency
    BY PartsAreFinite DEF IInv, TypeOK, QueueInv
  <2>3. ReaderHolds \in 0..1
    BY DEF ReaderHolds
  <2> QED
    BY <2>1, <2>2, <2>3 DEF BuffersBounded, Buffered
<1> QED
  BY Invariance, <1>1, PTL

\* Between reader, channel, slots and manifest no part is lost or doubled, for
\* files of any number of parts.
THEOREM NothingIsLost == Spec => []NoPartLost
<1>1. IInv => NoPartLost
  <2> SUFFICES ASSUME IInv, pc = "run" PROVE NoPartLost
    BY DEF NoPartLost
  <2> USE DEF IInv, TypeOK, QueueInv, Taken
  <2> DEFINE queued == {channel[i] : i \in DOMAIN channel}
  <2>1. Len(channel) \in Nat /\ DOMAIN channel = 1..Len(channel) /\ Taken \in Nat
    OBVIOUS
  <2>2. queued = (Taken + 1)..(next - 1)
    <3>1. (Taken + 1)..(next - 1) \subseteq queued
      <4>1. ASSUME NEW p \in (Taken + 1)..(next - 1)
            PROVE  p - Taken \in 1..Len(channel) /\ channel[p - Taken] = p
        BY <2>1
      <4> QED
        BY <2>1, <4>1
    <3>2. ASSUME NEW i \in DOMAIN channel
          PROVE  channel[i] \in (Taken + 1)..(next - 1)
      BY <2>1
    <3>3. queued \subseteq (Taken + 1)..(next - 1)
      BY <3>2
    <3> HIDE DEF queued
    <3> QED
      BY <3>1, <3>3
  <2>3. 1..(next - 1) = (1..Taken) \union queued
    BY <2>1, <2>2
  <2>4. Cardinality(uploaded \union inFlight) = Cardinality(uploaded) + Cardinality(inFlight)
    <3>1. Cardinality(uploaded \intersect inFlight) = 0
      BY FS_EmptySet
    <3>2. /\ IsFiniteSet(uploaded) /\ Cardinality(uploaded) \in Nat
          /\ IsFiniteSet(inFlight) /\ Cardinality(inFlight) \in Nat
      BY PartsAreFinite
    <3>3. Cardinality(uploaded \union inFlight)
             = Cardinality(uploaded) + Cardinality(inFlight) - Cardinality(uploaded \intersect inFlight)
      BY <3>2, FS_Union
    <3> QED
      BY <3>1, <3>2, <3>3
  <2>5. Cardinality(1..Taken) = Taken
    <3>1. ASSUME NEW n \in Nat PROVE Cardinality(1..n) = n
      BY FS_Interval
    <3> QED
      BY <2>1, <3>1
  <2>6. next - 1 = Cardinality(uploaded) + Cardinality(inFlight) + Len(channel)
    <3>1. Cardinality(uploaded) + Cardinality(inFlight) = next - 1 - Len(channel)
      BY <2>4, <2>5
    <3>2. next \in Nat
      OBVIOUS
    <3>3. Cardinality(uploaded) \in Nat /\ Cardinality(inFlight) \in Nat
      BY PartsAreFinite
    <3> QED
      BY <2>1, <3>1, <3>2, <3>3
  <2> QED
    BY <2>1, <2>3, <2>6 DEF NoPartLost
<1> QED
  BY Invariance, <1>1, PTL

\* A short or failing source is never taken for a defective manifest, and what is
\* published is all of the declared parts.
THEOREM ShortSourceTells == Spec => []ShortSourceIsReported
<1>1. IInv => ShortSourceIsReported
  BY DEF IInv, StageInv
<1> QED
  BY Invariance, <1>1, PTL

----------------------------------------------------------------------------
(* upload_stream implements UploadContract *)

\* Before the call the contract is in its initial state.
LEMMA ContractInit == Init => Contract!Init
BY DEF Init, Contract!Init, SessionNow, ReportNow

\* A step that touches neither the session nor the call is a stutter.
LEMMA ContractStutters ==
    ASSUME UNCHANGED <<session, result>>,
           pc' \in {"idle", "done"} <=> pc \in {"idle", "done"}
    PROVE  UNCHANGED Contract!vars
BY DEF Contract!vars, SessionNow, ReportNow

\* The steps that cut, send and upload the parts, or fail to, say nothing yet.
LEMMA ContractPipeStep ==
    ASSUME \/ SourceStep \/ ReaderStep \/ TakePart \/ PartUploaded
           \/ PartFails \/ JoinReader \/ CompleteFails \/ CancelWins
    PROVE  UNCHANGED Contract!vars
<1> USE DEF pipeVars, remoteVars, FailStream, DropFutures
<1>1. CASE SourceStep \/ ReaderStep
  BY <1>1, ContractStutters DEF SourceStep, SourceYields, SourceFails, ReaderStep, ReaderSends,
     ReaderStops
<1>2. CASE TakePart \/ PartUploaded
  BY <1>2, ContractStutters DEF TakePart, PartUploaded
<1>3. CASE PartFails \/ CompleteFails \/ CancelWins
  BY <1>3, ContractStutters DEF PartFails, CompleteFails, CancelWins
<1>4. CASE JoinReader
  BY <1>4, ContractStutters DEF JoinReader, BeginComplete
<1> QED
  BY <1>1, <1>2, <1>3, <1>4

\* The steps that begin and end the call tell the caller what the contract allows.
LEMMA ContractCallStep ==
    ASSUME IInv,
           \/ CallStream \/ RefuseToStart \/ StartStream \/ CompleteSucceeds
           \/ AbortSucceeds \/ KeepSnapshot \/ DropCall
    PROVE  Contract!Next
<1> USE DEF pipeVars, remoteVars, SessionNow, ReportNow, Contract!Next, Contract!Ends, IInv,
           SessionInv, StageInv
<1>1. CASE CallStream
  BY <1>1 DEF CallStream, Contract!Begin
<1>2. CASE RefuseToStart
  BY <1>2 DEF RefuseToStart, Contract!Fail
<1>3. CASE StartStream
  BY <1>3 DEF StartStream, Contract!Open
<1>4. CASE CompleteSucceeds
  BY <1>4 DEF CompleteSucceeds, Contract!Confirm
<1>5. CASE AbortSucceeds
  BY <1>5 DEF AbortSucceeds, Contract!Confirm
<1>6. CASE KeepSnapshot
  <2>1. pc = "cleanup" /\ pc' = "done" /\ session' = session /\ result' = "snapshot"
    BY <1>6 DEF KeepSnapshot
  <2>2. result = "none" /\ (result' = "snapshot") = TRUE
    BY <2>1 DEF TypeOK
  <2> QED
    BY <2>1, <2>2 DEF Contract!Fail
<1>7. CASE DropCall
  BY <1>7 DEF DropCall, Contract!Vanish
<1> QED
  BY <1>1, <1>2, <1>3, <1>4, <1>5, <1>6, <1>7

\* R2 settles the session once, in time or late.
LEMMA ContractRemoteStep ==
    ASSUME RemoteStep
    PROVE  Contract!Next \/ UNCHANGED Contract!vars
<1> USE DEF pipeVars
<1>1. CASE session' = session
  BY <1>1, ContractStutters DEF RemoteStep, HandleComplete, HandleAbort, HandleLate
<1>2. CASE session' # session
  <2>1. /\ session = "open" /\ session' \in {"completed", "aborted"}
        /\ UNCHANGED <<pc, result>>
    BY <1>2 DEF RemoteStep, HandleComplete, HandleAbort, HandleLate
  <2> QED
    BY <2>1 DEF SessionNow, ReportNow, Contract!Next, Contract!Ends, Contract!Settle
<1> QED
  BY <1>1, <1>2

\* Every behaviour of upload_stream is one the contract allows: it reports a session
\* as published or discarded only if it is, and hands back what may still be open.
THEOREM ImplementsContract == Spec => KeepsContract
<1>1. ASSUME Cancel PROVE UNCHANGED Contract!vars
  BY <1>1, ContractStutters DEF Cancel, remoteVars
<1>2. ASSUME IInv, Next PROVE [Contract!Next]_(Contract!vars)
  BY <1>1, <1>2, ContractPipeStep, ContractCallStep, ContractRemoteStep
  DEF Next, UploadStep, ApplicationStep
<1>3. ASSUME UNCHANGED vars PROVE UNCHANGED Contract!vars
  BY <1>3, ContractStutters DEF vars, remoteVars
<1>4. IInv /\ [Next]_vars => [Contract!Next]_(Contract!vars)
  BY <1>2, <1>3
<1> QED
  BY <1>4, ContractInit, Invariance, PTL DEF Spec, Contract!Spec, KeepsContract

Promise == INSTANCE UploadContractProofs WITH
    session <- SessionNow,
    report  <- ReportNow,
    calling <- pc \notin {"idle", "done"},
    handle  <- result = "snapshot"

\* So what follows from the contract holds of upload_stream: what an aborted or dropped
\* call left on the wire makes no report false, and ends no session twice.
THEOREM PromiseHolds == Spec => []Promise!ReportHolds /\ Promise!EndsOnce
<1>1. Contract!Init => Promise!Init
  BY DEF Contract!Init, Promise!Init
<1>2. [Contract!Next]_(Contract!vars) => [Promise!Next]_(Promise!vars)
  <2>1. Contract!Next <=> Promise!Next
    BY Zenon DEF Contract!Next, Contract!Begin, Contract!Open, Contract!Settle, Contract!Confirm,
       Contract!Fail, Contract!Vanish, Contract!Ends,
       Promise!Next, Promise!Begin, Promise!Open, Promise!Settle, Promise!Confirm,
       Promise!Fail, Promise!Vanish, Promise!Ends
  <2>2. UNCHANGED Contract!vars => UNCHANGED Promise!vars
    BY DEF Contract!vars, Promise!vars
  <2> QED
    BY <2>1, <2>2
<1> QED
  BY <1>1, <1>2, ImplementsContract, Promise!ReportStaysTrue, Promise!SessionEndsOnce, PTL
  DEF KeepsContract, Contract!Spec, Promise!Spec

----------------------------------------------------------------------------
(* Progress *)

\* When SourceStep, ReaderStep, UploadStep and CancelWins can be taken.
SourceReady == reader = "reading"
ReaderReady ==
    \/ pc = "run" /\ reader = "sending" /\ Len(channel) < ChannelSize
    \/ pc \in {"cleanup", "done"} /\ reader \in {"reading", "sending"}
UploadReady ==
    \/ pc \in {"create", "complete", "cleanup"}
    \/ pc = "run" /\ channel # <<>> /\ Cardinality(inFlight) < Concurrency
    \/ pc = "run" /\ inFlight # {}
    \/ pc = "run" /\ ReaderEnded /\ Drained
CancelReady == pc \in {"run", "complete"} /\ cancelled

\* What the fairness of FairSpec is read with: no prover here computes ENABLED.
GuardsEnable ==
    /\ SourceReady => ENABLED <<SourceStep>>_vars
    /\ ReaderReady => ENABLED <<ReaderStep>>_vars
    /\ UploadReady => ENABLED <<UploadStep>>_vars
    /\ CancelReady => ENABLED <<CancelWins>>_vars

\* Steps still to come at most: of the call, of the reader, and two moves for a
\* part in the channel, one for a part in flight.
StageRank ==
    CASE pc = "idle"     -> 7
      [] pc = "create"   -> 6
      [] pc = "run"      -> 3
      [] pc = "complete" -> 2
      [] pc = "cleanup"  -> 1
      [] pc = "done"     -> 0
ReaderRank == CASE reader = "reading" -> 2 [] reader = "sending" -> 1 [] OTHER -> 0
Rank == StageRank + ReaderRank + 4 * (Declared + 1 - next)
        + 2 * Len(channel) + Cardinality(inFlight)

LEMMA RankIsNatural == IInv => /\ Rank \in Nat
                               /\ StageRank \in 0..7 /\ ReaderRank \in 0..2
                               /\ Len(channel) \in Nat /\ Cardinality(inFlight) \in Nat
<1> SUFFICES ASSUME IInv
             PROVE  /\ Rank \in Nat
                    /\ StageRank \in 0..7 /\ ReaderRank \in 0..2
                    /\ Len(channel) \in Nat /\ Cardinality(inFlight) \in Nat
  OBVIOUS
<1>1. StageRank \in 0..7
  BY DEF IInv, TypeOK, StageRank
<1>2. ReaderRank \in 0..2
  BY DEF ReaderRank
<1>3. Len(channel) \in Nat /\ Declared + 1 - next \in Nat
  BY DEF IInv, TypeOK
<1>4. Cardinality(inFlight) \in Nat
  BY PartsAreFinite DEF IInv, TypeOK
<1> QED
  BY <1>1, <1>2, <1>3, <1>4 DEF Rank

\* A step of the source, the reader or the upload, and one that begins or drops
\* the call.
WorkStep == SourceStep \/ ReaderStep \/ UploadStep \/ CallStream \/ DropCall

\* Dropping the futures of the call empties the pipeline.
LEMMA DroppedPipe ==
    ASSUME IInv, DropFutures, UNCHANGED <<reader, next>>, StageRank' < StageRank,
           StageRank' \in 0..7
    PROVE  Rank' < Rank
<1>1. Len(channel') = 0 /\ Cardinality(inFlight') = 0
  BY FS_EmptySet DEF DropFutures
<1>2. ReaderRank' = ReaderRank
  BY DEF ReaderRank
<1>3. next \in Nat
  BY DEF IInv, TypeOK
<1>4. /\ StageRank \in 0..7 /\ ReaderRank \in 0..2
      /\ Len(channel) \in Nat /\ Cardinality(inFlight) \in Nat
  BY RankIsNatural
<1> QED
  BY <1>1, <1>2, <1>3, <1>4 DEF Rank

LEMMA WorkLowersRank ==
    ASSUME IInv, WorkStep
    PROVE  Rank' < Rank
<1> USE DEF pipeVars, remoteVars
<1>0. /\ next \in 1..(Declared + 1)
      /\ StageRank \in 0..7 /\ ReaderRank \in 0..2
      /\ Len(channel) \in Nat /\ Cardinality(inFlight) \in Nat
  BY RankIsNatural DEF IInv, TypeOK
<1>1. CASE RefuseToStart \/ StartStream \/ CallStream \/ CompleteSucceeds \/ AbortSucceeds
  <2>1. /\ UNCHANGED <<next, channel, inFlight>>
        /\ \/ reader' = reader
           \/ pc = "create" /\ pc' = "run" /\ reader = "unborn" /\ reader' = "reading"
    BY <1>1 DEF RefuseToStart, StartStream, CallStream, CompleteSucceeds, AbortSucceeds, IInv,
       ReaderInv
  <2>2. StageRank' + ReaderRank' < StageRank + ReaderRank
        /\ StageRank' \in 0..7 /\ ReaderRank' \in 0..2
    BY <1>1, <2>1 DEF RefuseToStart, StartStream, CallStream, CompleteSucceeds, AbortSucceeds,
       StageRank, ReaderRank
  <2>3. next' = next /\ Len(channel') = Len(channel) /\ Cardinality(inFlight') = Cardinality(inFlight)
    BY <2>1
  <2> DEFINE rest == 4 * (Declared + 1 - next) + 2 * Len(channel) + Cardinality(inFlight)
  <2>4. \A a, b, c, d, r \in Nat : a + b < c + d => a + b + r < c + d + r
    OBVIOUS
  <2>5. /\ rest \in Nat /\ StageRank \in Nat /\ ReaderRank \in Nat
        /\ StageRank' \in Nat /\ ReaderRank' \in Nat
    BY <1>0, <2>2
  <2>6. Rank = StageRank + ReaderRank + rest /\ Rank' = StageRank' + ReaderRank' + rest
    BY <1>0, <2>2, <2>3 DEF Rank
  <2> HIDE DEF rest
  <2> QED
    BY <2>2, <2>4, <2>5, <2>6
<1>2. CASE SourceStep \/ ReaderStops
  <2>1. UNCHANGED <<pc, next, channel, inFlight>>
    BY <1>2 DEF SourceStep, SourceYields, SourceFails, ReaderStops
  <2>2. ReaderRank' < ReaderRank /\ ReaderRank' \in 0..2 /\ StageRank' = StageRank
    BY <1>2, <2>1 DEF SourceStep, SourceYields, SourceFails, ReaderStops, ReaderRank, StageRank
  <2> QED
    BY <1>0, <2>1, <2>2 DEF Rank
<1>3. CASE ReaderSends
  <2>1. next \in Parts /\ next' = next + 1 /\ UNCHANGED <<pc, inFlight>>
    BY <1>3 DEF ReaderSends, IInv, ReaderInv, TypeOK, Parts
  <2>2. Len(channel') = Len(channel) + 1
    BY <1>3, <2>1, AppendPart DEF ReaderSends, IInv, TypeOK
  <2>3. ReaderRank = 1 /\ ReaderRank' \in 0..2 /\ StageRank' = StageRank
    BY <1>3 DEF ReaderSends, ReaderRank, StageRank
  <2> QED
    BY <1>0, <2>1, <2>2, <2>3 DEF Rank
<1>4. CASE TakePart
  <2>1. /\ UNCHANGED <<pc, reader, next>>
        /\ channel # <<>> /\ channel' = Tail(channel) /\ channel \in Seq(Parts)
        /\ inFlight' = inFlight \union {Head(channel)} /\ inFlight \in SUBSET Parts
    BY <1>4 DEF TakePart, IInv, TypeOK
  <2>2. Len(channel') = Len(channel) - 1 /\ Head(channel) \in Parts /\ Len(channel) \in Nat \ {0}
    BY <2>1, TailParts
  <2>3. Cardinality(inFlight') <= Cardinality(inFlight) + 1
    BY <2>1, <2>2, CardinalityMoves
  <2>4. inFlight' \in SUBSET Parts
    BY <2>1, <2>2
  <2>5. Cardinality(inFlight') \in Nat
    BY <2>4, PartsAreFinite
  <2>6. StageRank' = StageRank /\ ReaderRank' = ReaderRank
    BY <2>1 DEF StageRank, ReaderRank
  <2> QED
    BY <1>0, <2>1, <2>2, <2>3, <2>5, <2>6 DEF Rank
<1>5. CASE PartUploaded
  <2>1. UNCHANGED <<pc, reader, next, channel>>
    BY <1>5 DEF PartUploaded
  <2>2. PICK p \in inFlight : inFlight' = inFlight \ {p}
    BY <1>5 DEF PartUploaded
  <2>3. IsFiniteSet(inFlight)
    BY PartsAreFinite DEF IInv, TypeOK
  <2>4. Cardinality(inFlight') = Cardinality(inFlight) - 1
    BY <2>2, <2>3, FS_RemoveElement
  <2>5. StageRank' = StageRank /\ ReaderRank' = ReaderRank
    BY <2>1 DEF StageRank, ReaderRank
  <2>6. Cardinality(inFlight') < Cardinality(inFlight) /\ Cardinality(inFlight') \in Int
    BY <1>0, <2>4
  <2> QED
    BY <1>0, <2>1, <2>5, <2>6 DEF Rank
<1>6. CASE PartFails \/ CompleteFails \/ CancelWins \/ KeepSnapshot \/ DropCall
  <2>1. DropFutures /\ UNCHANGED <<reader, next>>
    BY <1>6 DEF PartFails, CompleteFails, CancelWins, KeepSnapshot, DropCall, FailStream
  <2>2. StageRank' < StageRank /\ StageRank' \in 0..7
    BY <1>6 DEF PartFails, CompleteFails, CancelWins, KeepSnapshot, DropCall, FailStream,
       StageRank, IInv, TypeOK
  <2> QED
    BY <2>1, <2>2, DroppedPipe
<1>7. CASE JoinReader
  <2>1. CASE FailStream("io") \/ FailStream("manifest")
    <3>1. DropFutures /\ UNCHANGED <<reader, next>>
      BY <2>1 DEF FailStream
    <3>2. StageRank' < StageRank /\ StageRank' \in 0..7
      BY <1>7, <2>1 DEF JoinReader, FailStream, StageRank
    <3> QED
      BY <3>1, <3>2, DroppedPipe
  <2>2. CASE pc' = "complete" /\ UNCHANGED pipeVars
    <3>1. StageRank = 3 /\ StageRank' = 2 /\ ReaderRank' = ReaderRank
      BY <1>7, <2>2 DEF JoinReader, StageRank, ReaderRank
    <3>2. UNCHANGED <<next, channel, inFlight>>
      BY <2>2
    <3> QED
      BY <1>0, <3>1, <3>2 DEF Rank
  <2> QED
    BY <1>7, <2>1, <2>2 DEF JoinReader, BeginComplete
<1> QED
  BY <1>1, <1>2, <1>3, <1>4, <1>5, <1>6, <1>7 DEF WorkStep, ReaderStep, UploadStep

\* The steps of R2 and of the signal leave the call and its pipeline as they are.
LEMMA WorkOrNothing ==
    ASSUME IInv, [Next]_vars
    PROVE  \/ WorkStep
           \/ UNCHANGED <<pc, pipeVars>> /\ (cancelled => cancelled')
BY DEF Next, WorkStep, ApplicationStep, RemoteStep, Cancel, HandleComplete, HandleAbort,
   HandleLate, vars

\* upload_stream cannot run for ever: whatever the source, R2 and the application
\* do, each step of the call, the reader or a part upload uses up one of a number
\* of steps that is fixed when it is called, and no other step gives one back.
THEOREM StepsAreBounded ==
    Spec => /\ [](Rank \in Nat)
            /\ [][IF WorkStep THEN Rank' < Rank ELSE Rank' = Rank]_vars
<1>1. ASSUME IInv, [Next]_vars
      PROVE  IF WorkStep THEN Rank' < Rank ELSE Rank' = Rank
  <2>1. CASE WorkStep
    BY <1>1, <2>1, WorkLowersRank
  <2>2. CASE ~WorkStep
    <3>1. UNCHANGED <<pc, pipeVars>>
      BY <1>1, <2>2, WorkOrNothing
    <3>2. Rank' = Rank
      BY <3>1 DEF pipeVars, Rank, StageRank, ReaderRank
    <3> QED
      BY <2>2, <3>2
  <2> QED
    BY <2>1, <2>2
<1>2. IInv => Rank \in Nat
  BY RankIsNatural
<1> QED
  BY <1>1, <1>2, Invariance, PTL DEF Spec

LEMMA ProgressIsAStep == IInv /\ Rank' < Rank => vars' # vars
<1> SUFFICES ASSUME IInv, vars' = vars PROVE ~(Rank' < Rank)
  OBVIOUS
<1>1. Rank' = Rank
  BY DEF vars, pipeVars, Rank, StageRank, ReaderRank
<1>2. Rank \in Nat
  BY RankIsNatural
<1> QED
  BY <1>1, <1>2

\* While upload_stream runs, its source, its reader or its own task can take a step:
\* neither side of the channel waits for the other.
LEMMA SomethingIsReady ==
    IInv /\ pc \notin {"idle", "done"} => SourceReady \/ ReaderReady \/ UploadReady
<1> SUFFICES ASSUME IInv, pc \notin {"idle", "done"}
             PROVE  SourceReady \/ ReaderReady \/ UploadReady
  OBVIOUS
<1> USE DEF SourceReady, ReaderReady, UploadReady
<1>1. CASE pc # "run"
  BY <1>1 DEF IInv, TypeOK
<1>2. CASE pc = "run" /\ inFlight # {}
  BY <1>2
<1>3. CASE pc = "run" /\ inFlight = {}
  <2>1. Cardinality(inFlight) = 0 /\ 0 < Concurrency /\ 0 < ChannelSize /\ Len(<<>>) = 0
    BY <1>3, FS_EmptySet, ChannelSizePositive
  <2> QED
    BY <1>3, <2>1 DEF IInv, ReaderInv, ReaderEnded, Drained
<1> QED
  BY <1>1, <1>2, <1>3

\* A guard stays true until work is done, whoever does it.
LEMMA ReadyUntilWork ==
    ASSUME IInv, [Next]_vars
    PROVE  \/ <<Rank' < Rank>>_vars
           \/ /\ SourceReady => SourceReady'
              /\ ReaderReady => ReaderReady'
              /\ UploadReady => UploadReady'
<1>1. CASE WorkStep
  BY <1>1, WorkLowersRank, ProgressIsAStep
<1>2. CASE UNCHANGED <<pc, pipeVars>>
  BY <1>2 DEF pipeVars, SourceReady, ReaderReady, UploadReady, ReaderEnded, Drained
<1> QED
  BY <1>1, <1>2, WorkOrNothing

\* As long as upload_stream has not returned there is always another step of work to
\* come, if its source does not stall; by StepsAreBounded there are only so many,
\* so it returns (StreamEnds).
THEOREM WorkGoesOn ==
    FairSpec /\ WF_vars(SourceStep) /\ []GuardsEnable
        => [](pc \notin {"idle", "done"} => <><<Rank' < Rank>>_vars)
<1>1. IInv /\ [Next]_vars =>
          \/ <<Rank' < Rank>>_vars
          \/ /\ SourceReady => SourceReady'
             /\ ReaderReady => ReaderReady'
             /\ UploadReady => UploadReady'
  BY ReadyUntilWork
<1>2. IInv /\ <<SourceStep>>_vars => <<Rank' < Rank>>_vars
  BY WorkLowersRank DEF WorkStep
<1>3. IInv /\ <<ReaderStep>>_vars => <<Rank' < Rank>>_vars
  BY WorkLowersRank DEF WorkStep
<1>4. IInv /\ <<UploadStep>>_vars => <<Rank' < Rank>>_vars
  BY WorkLowersRank DEF WorkStep
<1> QED
  BY <1>1, <1>2, <1>3, <1>4, SomethingIsReady, Invariance, PTL DEF FairSpec, Spec, GuardsEnable

\* A cancelled upload_stream returns, whatever its source does: the signal wins over
\* the transfer, and the cleanup ends with the abort's answer or without.
THEOREM CancelIsHeard == FairSpec /\ []GuardsEnable => CancelEnds
<1> DEFINE Create == pc = "create" /\ cancelled
           Transfer == pc \in {"run", "complete"} /\ cancelled
           CleanUp == pc = "cleanup"
           Done == pc = "done"
<1>1. IInv /\ cancelled /\ pc # "idle" => Create \/ Transfer \/ CleanUp \/ Done
  BY DEF IInv, TypeOK
<1>2. /\ Create => UploadReady
      /\ CleanUp => UploadReady
      /\ Transfer => CancelReady
  BY DEF UploadReady, CancelReady
<1>3. /\ Create /\ [Next]_vars => Create' \/ Transfer' \/ Done'
      /\ Transfer /\ [Next]_vars => Transfer' \/ CleanUp' \/ Done'
      /\ CleanUp /\ [Next]_vars => CleanUp' \/ Done'
  <2> USE DEF pipeVars, remoteVars, FailStream
  <2>1. CASE SourceStep \/ ReaderStep \/ RemoteStep \/ Cancel
    BY <2>1 DEF SourceStep, SourceYields, SourceFails, ReaderStep, ReaderSends, ReaderStops,
       RemoteStep, HandleComplete, HandleAbort, HandleLate, Cancel
  <2>2. CASE UploadStep
    BY <2>2 DEF UploadStep, RefuseToStart, StartStream, TakePart, PartUploaded, PartFails,
       JoinReader, BeginComplete, CompleteSucceeds, CompleteFails, CancelWins, AbortSucceeds,
       KeepSnapshot
  <2>3. CASE CallStream \/ DropCall \/ UNCHANGED vars
    BY <2>3 DEF CallStream, DropCall, vars
  <2> QED
    BY <2>1, <2>2, <2>3 DEF Next, ApplicationStep
<1>4. /\ Create /\ <<UploadStep>>_vars => Transfer' \/ Done'
      /\ CleanUp /\ <<UploadStep>>_vars => Done'
  BY DEF UploadStep, RefuseToStart, StartStream, TakePart, PartUploaded, PartFails, JoinReader,
     CompleteSucceeds, CompleteFails, CancelWins, AbortSucceeds, KeepSnapshot
<1>5. Transfer /\ <<CancelWins>>_vars => CleanUp'
  BY DEF CancelWins, FailStream
<1> QED
  BY <1>1, <1>2, <1>3, <1>4, <1>5, Invariance, PTL DEF FairSpec, Spec, GuardsEnable, CancelEnds

\* No reader outlives its upload: run_stream's JoinSet aborts it, and a send finds no
\* receiver, also when its source stalls for ever.
THEOREM ReaderEnds == FairSpec /\ []GuardsEnable => ReaderIsReaped
<1> DEFINE Alive == pc = "done" /\ reader \in {"reading", "sending"}
<1>1. /\ pc = "done" => Alive \/ reader \notin {"reading", "sending"}
      /\ Alive => ReaderReady
  BY DEF ReaderReady
<1>2. Alive /\ [Next]_vars => Alive' \/ (reader \notin {"reading", "sending"})'
  <2> USE DEF pipeVars, remoteVars, FailStream
  <2>1. CASE SourceStep \/ ReaderStep \/ RemoteStep \/ ApplicationStep
    BY <2>1 DEF SourceStep, SourceYields, SourceFails, ReaderStep, ReaderSends, ReaderStops,
       RemoteStep, HandleComplete, HandleAbort, HandleLate, ApplicationStep, CallStream, Cancel,
       DropCall
  <2>2. CASE UploadStep \/ UNCHANGED vars
    BY <2>2 DEF UploadStep, RefuseToStart, StartStream, TakePart, PartUploaded, PartFails,
       JoinReader, CompleteSucceeds, CompleteFails, CancelWins, AbortSucceeds, KeepSnapshot, vars
  <2> QED
    BY <2>1, <2>2 DEF Next
<1>3. Alive /\ <<ReaderStep>>_vars => (reader \notin {"reading", "sending"})'
  BY DEF ReaderStep, ReaderSends, ReaderStops
<1> QED
  BY <1>1, <1>2, <1>3, PTL DEF FairSpec, Spec, GuardsEnable, ReaderIsReaped
=============================================================================
