------------------------ MODULE UploadContractProofs ------------------------
(***************************************************************************)
(* What UploadContract is good for: whoever drives an implementation of it *)
(* (upload_file, upload_stream) or knows an upload by it alone (the leg of *)
(* UploadFileBuilder::send) may rely on these two.  The refinements proved *)
(* in ManagedUploadProofs and StreamUploadProofs carry them to the code.   *)
(***************************************************************************)
EXTENDS UploadContract, TLAPS

\* ReportHolds alone is not inductive: a call that opens a session has no handle on it
\* yet, and may do so only because its own report is still to come.
IInv ==
    /\ TypeOK
    /\ ReportHolds
    /\ calling => report = "nothing"

LEMMA Initially == Init => IInv
  BY DEF Init, IInv, TypeOK, ReportHolds, Ends

LEMMA StepKeepsIInv ==
    ASSUME IInv, [Next]_vars
    PROVE  IInv'
<1> USE DEF IInv, TypeOK, ReportHolds, Ends
<1>1. CASE Begin
  BY <1>1 DEF Begin
<1>2. CASE Open
  BY <1>2 DEF Open
<1>3. ASSUME NEW end \in Ends, Settle(end) PROVE IInv'
  BY <1>3 DEF Settle
<1>4. ASSUME NEW end \in Ends, Confirm(end) PROVE IInv'
  BY <1>4 DEF Confirm
<1>5. CASE Fail
  BY <1>5 DEF Fail
<1>6. CASE Vanish
  BY <1>6 DEF Vanish
<1>7. CASE UNCHANGED vars
  BY <1>7 DEF vars
<1> QED
  BY <1>1, <1>2, <1>3, <1>4, <1>5, <1>6, <1>7 DEF Next

\* Whatever requests of earlier calls do later, a report stays true until the next call:
\* a session reported published or discarded is, and an open one has a handle.
THEOREM ReportStaysTrue == Spec => []ReportHolds
<1>1. IInv => ReportHolds
  BY DEF IInv
<1> QED
  BY Initially, StepKeepsIInv, <1>1, PTL DEF Spec

\* No later call and no late request reopens a session, or makes a published one
\* discarded; and a caller that could name it still can.
THEOREM SessionEndsOnce == Spec => EndsOnce
<1>1. [Next]_vars => [/\ session \in Ends => session' = session
                      /\ session # "none" => session' # "none"
                      /\ handle => handle']_vars
  <2> SUFFICES ASSUME Next
               PROVE  /\ session \in Ends => session' = session
                      /\ session # "none" => session' # "none"
                      /\ handle => handle'
    OBVIOUS
  <2>1. CASE Begin \/ Open \/ Vanish
    BY <2>1 DEF Begin, Open, Vanish, Ends
  <2>2. CASE \E end \in Ends : Settle(end) \/ Confirm(end)
    BY <2>2 DEF Settle, Confirm, Ends
  <2>3. CASE Fail
    <3>1. session' = session
      BY <2>3 DEF Fail
    <3>2. ASSUME handle PROVE handle'
      <4>1. handle' = handle \/ handle' = TRUE
        BY <2>3 DEF Fail
      <4>2. CASE handle' = handle
        BY <3>2, <4>2, Zenon
      <4>3. CASE handle' = TRUE
        BY <4>3, Zenon
      <4> QED
        BY <4>1, <4>2, <4>3, Zenon
    <3> QED
      BY <3>1, <3>2, Zenon
  <2> QED
    BY <2>1, <2>2, <2>3 DEF Next
<1> QED
  BY <1>1, PTL DEF Spec, EndsOnce
=============================================================================
