------------------------ MODULE AdaptiveUploadProofs ------------------------
(***************************************************************************)
(* Proofs about AdaptiveUpload for every number of file versions, of reads *)
(* of the body and of calls of cancel().                                   *)
(*                                                                         *)
(* The inductive invariant IInv is TypeInv (TypeOK) with four more parts:  *)
(*   LegInv       what the multipart leg has published, and that it shares *)
(*                nothing with a single PUT;                               *)
(*   PutInv       what a single PUT may have stored, or still may;         *)
(*   VersionInv   all bytes read lie between the fingerprint and the file; *)
(*   RollbackInv  a delete is only on its way if the file has changed, and *)
(*                a streamed PUT is never on its way together with one.    *)
(* That send() does no more with its leg than the contract lets it, and    *)
(* that it ends once it is cancelled, follows after the safety theorems.   *)
(***************************************************************************)
EXTENDS AdaptiveUpload, TLAPS

\* TypeOK, with names for the sets of records in it and UploadContract's spelled out.
KeyValues == {NoObject, Others} \union {Ours(c) : c \in SUBSET Versions}
Requests == {[op |-> "Delete"]} \union [op : {"Put"}, content : SUBSET Versions]

TypeInv ==
    /\ file \in [version : Versions, size : Sizes]
    /\ key \in KeyValues
    /\ stored \subseteq SUBSET Versions
    /\ late \subseteq Requests
    /\ pc \in {"stat", "open", "put", "recheck", "rollback", "multipart", "done"}
    /\ signal \in 0..MaxSignals
    /\ waiter \in {"idle", "subscribed", "waiting"}
    /\ seen \in 0..signal
    /\ fingerprint \in 0..MaxVersion
    /\ opened \in 0..MaxVersion
    /\ body \in SUBSET Versions
    /\ unread \in 0..Chunks
    /\ reply \in {"none", "ok"}
    /\ outcome \in {"none", "ok", "changed", "not_deleted", "error"}
    /\ session \in {"none", "open", "published", "discarded"}
    /\ report \in {"nothing", "published", "discarded", "unsettled"}
    /\ calling \in BOOLEAN
    /\ handle \in BOOLEAN

\* send has taken the multipart leg.
Legged == calling \/ report # "nothing"

LegInv ==
    /\ calling <=> pc = "multipart"
    /\ Legged => pc \in {"multipart", "done"} /\ late = {} /\ body = {} /\ opened = 0
    /\ ~Legged => session = "none"
    /\ Legged /\ session # "published" => stored = {}
    /\ session # "none" => fingerprint # 0
    /\ session = "published" => stored = {{fingerprint}}
    /\ Legged /\ outcome = "ok" => session = "published"

PutInv ==
    /\ pc # "done" => outcome = "none"
    /\ pc \in {"stat", "open"} =>
           stored = {} /\ late = {} /\ body = {} /\ opened = 0 /\ unread = 0
    /\ pc = "put" /\ (opened = 0 \/ unread < Chunks) => body # {}
    /\ reply = "ok" => pc \in {"put", "rollback"}
    /\ pc = "put" /\ reply = "ok" => stored = {body} /\ unread = 0
    /\ pc = "recheck" => stored = {body} /\ unread = 0 /\ body # {}
    /\ unread # 0 => stored = {} /\ opened # 0
    /\ ~Legged => stored \subseteq {body}
    /\ \A r \in late : r.op = "Put" => r.content = body /\ unread = 0
    /\ ~Legged /\ outcome = "ok" => stored = {body} /\ body = {fingerprint}

VersionInv ==
    /\ fingerprint <= file.version
    /\ \A v \in body : fingerprint <= v /\ v <= file.version
    /\ opened # 0 => fingerprint <= opened /\ opened <= file.version

RollbackInv ==
    /\ pc = "rollback" => fingerprint < file.version
    /\ \A r \in late : r.op = "Delete" => fingerprint < file.version
    /\ opened # 0 /\ pc # "done" => \A r \in late : r.op # "Put"
    /\ pc = "rollback" /\ reply = "ok" /\ opened # 0 => key.writer # "send"
    /\ RolledBackIsGone

IInv == TypeInv /\ LegInv /\ PutInv /\ VersionInv /\ RollbackInv

USE MaxVersionAssumption, ChunksAssumption, MaxSignalsAssumption
    DEF MaxVersionAssumption, ChunksAssumption, MaxSignalsAssumption

----------------------------------------------------------------------------
(* The records of TypeOK *)

LEMMA TypeInvIsTypeOK == TypeInv => TypeOK
  BY DEF TypeInv, TypeOK, KeyValues, Requests, Leg!TypeOK

\* What an object under the key can be.
LEMMA KeyRecords ==
    /\ NoObject \in KeyValues /\ NoObject.writer = "nobody"
    /\ Others \in KeyValues /\ Others.writer = "other"
    /\ \A c \in SUBSET Versions : Ours(c) \in KeyValues /\ Ours(c).writer = "send"
  BY DEF KeyValues, NoObject, Others, Ours

\* What a request given up can be.
LEMMA RequestRecords ==
    /\ [op |-> "Delete"] \in Requests
    /\ \A c \in SUBSET Versions : [op |-> "Put", content |-> c] \in Requests
    /\ \A r \in Requests : r.op \in {"Put", "Delete"}
    /\ \A r \in Requests : r.op = "Put" => r.content \in SUBSET Versions
  BY DEF Requests

\* Giving a PUT up adds no other request than that PUT.
LEMMA GivenUpPut ==
    ASSUME GiveUpPut, late \subseteq Requests, body \in SUBSET Versions
    PROVE  /\ late' \subseteq Requests
           /\ late \subseteq late'
           /\ \A r \in late' :
                  r \in late \/ (r.op = "Put" /\ r.content = body /\ unread = 0)
  BY RequestRecords DEF GiveUpPut

LEMMA Numbers ==
    ASSUME TypeInv
    PROVE  /\ file.version \in Versions /\ file.version \in 0..MaxVersion
           /\ file.version \in Nat /\ fingerprint \in Nat /\ opened \in Nat
           /\ \A v \in body : v \in Nat
           /\ Versions \subseteq Nat
<1>1. file \in [version : Versions, size : Sizes]
  BY DEF TypeInv
<1>2. file.version \in Versions
  BY <1>1
<1>3. \A v \in body : v \in Versions
  BY DEF TypeInv
<1>5. fingerprint \in 0..MaxVersion /\ opened \in 0..MaxVersion
  BY DEF TypeInv
<1>6. fingerprint \in Nat /\ opened \in Nat
  BY <1>5
<1>4. Versions \subseteq Nat
  BY DEF Versions
<1>7. file.version \in 0..MaxVersion
  BY <1>2 DEF Versions
<1> QED
  BY <1>2, <1>3, <1>4, <1>6, <1>7

LEMMA Rewritten ==
    ASSUME TypeInv, RewriteFile
    PROVE  /\ file' \in [version : Versions, size : Sizes]
           /\ file'.version = file.version + 1
           /\ UNCHANGED <<key, stored, late, pc, watch, fingerprint, putVars, reply,
                          outcome, legVars>>
<1>1. PICK s \in Sizes : file' = [version |-> file.version + 1, size |-> s]
  BY DEF RewriteFile
<1>2. file.version < MaxVersion
  BY DEF RewriteFile
<1>3. file.version + 1 \in Versions
  BY <1>2, Numbers DEF Versions
<1>4. file' \in [version : Versions, size : Sizes]
  BY <1>1, <1>3
<1>5. file'.version = file.version + 1
  BY <1>1
<1>6. UNCHANGED <<key, stored, late, pc, watch, fingerprint, putVars, reply, outcome,
                  legVars>>
  BY DEF RewriteFile
<1> QED
  BY <1>4, <1>5, <1>6

\* The three ways StatSource goes on.
LEMMA StatCases ==
    ASSUME TypeInv, StatSource
    PROVE  /\ pc = "stat"
           /\ fingerprint' = file.version
           /\ UNCHANGED <<file, key, stored, late, watch, opened, unread, reply, outcome>>
           /\ \/ pc' = "put" /\ body' = {file.version} /\ UNCHANGED legVars
              \/ pc' = "open" /\ UNCHANGED <<body, legVars>>
              \/ pc' = "multipart" /\ UNCHANGED body
                 /\ calling' = TRUE /\ report' = "nothing" /\ UNCHANGED <<session, handle>>
  BY DEF TypeInv, StatSource, Sizes, Leg!Begin

\* Looking at the signal either drops the PUT or changes nothing but the receiver.
LEMMA LookCases ==
    ASSUME FirstLook \/ SignalChanged
    PROVE  /\ pc = "put"
           /\ seen' = signal
           /\ waiter' \in {"idle", "waiting"}
           /\ UNCHANGED signal
           /\ \/ GiveUpPut
              \/ UNCHANGED <<file, key, stored, late, pc, fingerprint, putVars, reply,
                             outcome, legVars>>
  BY DEF FirstLook, SignalChanged, Look

----------------------------------------------------------------------------
(* The invariant *)

LEMMA InitInv == Init => IInv
<1> SUFFICES ASSUME Init PROVE IInv
  OBVIOUS
<1>1. TypeInv
  <2>1. file \in [version : Versions, size : Sizes]
    BY DEF Init, Leg!Init, Versions
  <2>2. session = "none" /\ report = "nothing" /\ calling = FALSE /\ handle = FALSE
    BY DEF Init, Leg!Init
  <2>3. key \in KeyValues /\ stored \subseteq SUBSET Versions /\ late \subseteq Requests
    BY KeyRecords DEF Init, Leg!Init
  <2>4. signal = 0 /\ seen = 0 /\ fingerprint = 0 /\ opened = 0 /\ unread = 0 /\ body = {}
    BY DEF Init, Leg!Init
  <2>5. /\ seen \in 0..signal /\ signal \in 0..MaxSignals /\ unread \in 0..Chunks
        /\ fingerprint \in 0..MaxVersion /\ opened \in 0..MaxVersion
    BY <2>4
  <2> QED
    BY <2>1, <2>2, <2>3, <2>4, <2>5 DEF Init, Leg!Init, TypeInv
<1>2. LegInv /\ PutInv
  BY DEF Init, LegInv, PutInv, Legged, Leg!Init
<1>3. VersionInv /\ RollbackInv
  BY DEF Init, VersionInv, RollbackInv, RolledBackIsGone, Sizes, Leg!Init
<1> QED
  BY <1>1, <1>2, <1>3 DEF IInv

LEMMA TypeStep ==
    ASSUME IInv, [Next]_vars
    PROVE  TypeInv'
<1> USE DEF IInv, TypeInv, Versions, Sizes, legVars, putVars, watch, PutInv,
           LegInv, Legged
<1>1. CASE Refuse
  BY <1>1 DEF Refuse, Return
<1>2. CASE StatSource
  <2>1. fingerprint' \in 0..MaxVersion
    BY <1>2, StatCases, Numbers
  <2>2. body' \in SUBSET Versions
    BY <1>2, StatCases, Numbers
  <2>3. \/ UNCHANGED legVars
        \/ calling' = TRUE /\ report' = "nothing" /\ UNCHANGED <<session, handle>>
    BY <1>2, StatCases
  <2>4. pc' \in {"put", "open", "multipart"}
    BY <1>2, StatCases
  <2> QED
    BY <1>2, <2>1, <2>2, <2>3, <2>4, StatCases
<1>3. CASE OpenSource
  BY <1>3 DEF OpenSource
<1>4. CASE OpenFails
  BY <1>4 DEF OpenFails, Return
<1>5. CASE ReadChunk
  BY <1>5 DEF ReadChunk
<1>6. CASE ResendPut
  BY <1>6, KeyRecords, RequestRecords DEF ResendPut
<1>7. CASE PutSucceeds
  BY <1>7 DEF PutSucceeds
<1>8. CASE PutFails
  BY <1>8, GivenUpPut DEF PutFails, GiveUpPut, Return
<1>9. CASE Subscribe
  BY <1>9 DEF Subscribe
<1>10. CASE FirstLook
  <2>1. CASE GiveUpPut
    BY <1>10, <2>1, LookCases, GivenUpPut DEF GiveUpPut, Return
  <2>2. CASE ~GiveUpPut
    <3>1. seen' \in 0..signal' /\ waiter' \in {"idle", "subscribed", "waiting"}
      BY <1>10, LookCases
    <3> QED
      BY <1>10, <2>2, <3>1, LookCases
  <2> QED
    BY <2>1, <2>2
<1>11. CASE SignalChanged
  <2>1. CASE GiveUpPut
    BY <1>11, <2>1, LookCases, GivenUpPut DEF GiveUpPut, Return
  <2>2. CASE ~GiveUpPut
    <3>1. seen' \in 0..signal' /\ waiter' \in {"idle", "subscribed", "waiting"}
      BY <1>11, LookCases
    <3> QED
      BY <1>11, <2>2, <3>1, LookCases
  <2> QED
    BY <2>1, <2>2
<1>12. CASE SourceUnchanged
  BY <1>12 DEF SourceUnchanged, Return
<1>13. CASE RestatFails
  BY <1>13 DEF RestatFails, Return
<1>14. CASE SourceChanged
  BY <1>14 DEF SourceChanged
<1>15. CASE ResendDelete
  BY <1>15, KeyRecords, RequestRecords DEF ResendDelete
<1>16. CASE RolledBack
  BY <1>16 DEF RolledBack, Return
<1>17. CASE RollbackFails
  BY <1>17, KeyRecords, RequestRecords DEF RollbackFails, Return
<1>18. CASE OpenSession
  BY <1>18 DEF OpenSession, Leg!Open
<1>19. CASE SettleSession
  <2>1. CASE session' = "published"
    BY <1>19, <2>1, KeyRecords DEF SettleSession, Leg!Settle
  <2>2. CASE session' # "published"
    BY <1>19, <2>2 DEF SettleSession, Leg!Settle
  <2> QED
    BY <2>1, <2>2
<1>20. CASE SessionPublished
  BY <1>20 DEF SessionPublished, Leg!Confirm, Return
<1>21. CASE SessionFails
  BY <1>21 DEF SessionFails, Leg!Confirm, Leg!Fail, Return
<1>22. CASE HandlePut
  BY <1>22, KeyRecords, RequestRecords DEF HandlePut
<1>23. CASE HandleDelete
  BY <1>23, KeyRecords, RequestRecords DEF HandleDelete
<1>24. CASE HandleLate
  <2>1. PICK r \in late :
           /\ late' = late \ {r}
           /\ IF r.op = "Put"
              THEN key' = Ours(r.content) /\ stored' = stored \union {r.content}
              ELSE key' = NoObject /\ UNCHANGED stored
           /\ UNCHANGED <<file, pc, watch, fingerprint, putVars, reply, outcome, legVars>>
    BY <1>24 DEF HandleLate
  <2> QED
    BY <2>1, RequestRecords, KeyRecords
<1>25. CASE RewriteFile
  BY <1>25, Rewritten
<1>26. CASE OtherWriterPuts
  BY <1>26, KeyRecords, RequestRecords DEF OtherWriterPuts
<1>27. CASE Cancel
  BY <1>27 DEF Cancel
<1>28. CASE UNCHANGED vars
  BY <1>28 DEF vars
<1> QED
    BY <1>1, <1>2, <1>3, <1>4, <1>5, <1>6, <1>7, <1>8, <1>9, <1>10, <1>11, <1>12, <1>13,
  <1>14, <1>15, <1>16, <1>17, <1>18, <1>19, <1>20, <1>21, <1>22, <1>23, <1>24, <1>25,
  <1>26, <1>27, <1>28
  DEF Next, SinglePutStep, MultipartStep, RemoteStep, EnvironmentStep

LEMMA LegStep ==
    ASSUME IInv, [Next]_vars
    PROVE  LegInv'
<1> USE DEF IInv, TypeInv, Versions, Sizes, legVars, putVars, watch, LegInv,
  Legged, PutInv
<1>1. CASE Refuse
  BY <1>1 DEF Refuse, Return
<1>2. CASE StatSource
  <2>1. CASE pc' = "put"
    BY <1>2, <2>1, StatCases, Numbers
  <2>2. CASE pc' = "open"
    BY <1>2, <2>2, StatCases, Numbers
  <2>3. CASE pc' = "multipart"
    BY <1>2, <2>3, StatCases, Numbers
  <2> QED
    BY <1>2, <2>1, <2>2, <2>3, StatCases
<1>3. CASE OpenSource
  BY <1>3 DEF OpenSource
<1>4. CASE OpenFails
  BY <1>4 DEF OpenFails, Return
<1>5. CASE ReadChunk
  BY <1>5 DEF ReadChunk
<1>6. CASE ResendPut
  BY <1>6, KeyRecords, RequestRecords DEF ResendPut
<1>7. CASE PutSucceeds
  BY <1>7 DEF PutSucceeds
<1>8. CASE PutFails
  BY <1>8, GivenUpPut DEF PutFails, GiveUpPut, Return
<1>9. CASE Subscribe
  BY <1>9 DEF Subscribe
<1>10. CASE FirstLook
  <2>1. CASE GiveUpPut
    BY <1>10, <2>1, LookCases, GivenUpPut DEF GiveUpPut, Return
  <2>2. CASE ~GiveUpPut
    BY <1>10, <2>2, LookCases
  <2> QED
    BY <2>1, <2>2
<1>11. CASE SignalChanged
  <2>1. CASE GiveUpPut
    BY <1>11, <2>1, LookCases, GivenUpPut DEF GiveUpPut, Return
  <2>2. CASE ~GiveUpPut
    BY <1>11, <2>2, LookCases
  <2> QED
    BY <2>1, <2>2
<1>12. CASE SourceUnchanged
  BY <1>12 DEF SourceUnchanged, Return
<1>13. CASE RestatFails
  BY <1>13 DEF RestatFails, Return
<1>14. CASE SourceChanged
  BY <1>14 DEF SourceChanged
<1>15. CASE ResendDelete
  BY <1>15, KeyRecords, RequestRecords DEF ResendDelete
<1>16. CASE RolledBack
  BY <1>16 DEF RolledBack, Return
<1>17. CASE RollbackFails
  BY <1>17, KeyRecords, RequestRecords DEF RollbackFails, Return
<1>18. CASE OpenSession
  BY <1>18 DEF OpenSession, Leg!Open
<1>19. CASE SettleSession
  <2>1. CASE session' = "published"
    BY <1>19, <2>1, KeyRecords DEF SettleSession, Leg!Settle
  <2>2. CASE session' # "published"
    BY <1>19, <2>2 DEF SettleSession, Leg!Settle
  <2> QED
    BY <2>1, <2>2
<1>20. CASE SessionPublished
  BY <1>20 DEF SessionPublished, Leg!Confirm, Return
<1>21. CASE SessionFails
  BY <1>21 DEF SessionFails, Leg!Confirm, Leg!Fail, Return
<1>22. CASE HandlePut
  BY <1>22, KeyRecords, RequestRecords DEF HandlePut
<1>23. CASE HandleDelete
  BY <1>23, KeyRecords, RequestRecords DEF HandleDelete
<1>24. CASE HandleLate
  <2>1. PICK r \in late :
           /\ late' = late \ {r}
           /\ IF r.op = "Put"
              THEN key' = Ours(r.content) /\ stored' = stored \union {r.content}
              ELSE key' = NoObject /\ UNCHANGED stored
           /\ UNCHANGED <<file, pc, watch, fingerprint, putVars, reply, outcome, legVars>>
    BY <1>24 DEF HandleLate
  <2> QED
    BY <2>1, RequestRecords, KeyRecords
<1>25. CASE RewriteFile
  <2>1. UNCHANGED <<stored, late, pc, fingerprint, opened, body, outcome, session, report,
                    calling>>
    BY <1>25, Rewritten
  <2> QED
    BY <2>1
<1>26. CASE OtherWriterPuts
  BY <1>26, KeyRecords, RequestRecords DEF OtherWriterPuts
<1>27. CASE Cancel
  BY <1>27 DEF Cancel
<1>28. CASE UNCHANGED vars
  BY <1>28 DEF vars
<1> QED
    BY <1>1, <1>2, <1>3, <1>4, <1>5, <1>6, <1>7, <1>8, <1>9, <1>10, <1>11, <1>12, <1>13,
  <1>14, <1>15, <1>16, <1>17, <1>18, <1>19, <1>20, <1>21, <1>22, <1>23, <1>24, <1>25,
  <1>26, <1>27, <1>28
  DEF Next, SinglePutStep, MultipartStep, RemoteStep, EnvironmentStep

LEMMA PutStep ==
    ASSUME IInv, [Next]_vars
    PROVE  PutInv'
<1> USE DEF IInv, TypeInv, Versions, Sizes, legVars, putVars, watch, LegInv,
  Legged, PutInv, VersionInv
<1>1. CASE Refuse
  BY <1>1 DEF Refuse, Return
<1>2. CASE StatSource
  <2>1. CASE pc' = "put"
    BY <1>2, <2>1, StatCases, Numbers
  <2>2. CASE pc' = "open"
    BY <1>2, <2>2, StatCases, Numbers
  <2>3. CASE pc' = "multipart"
    BY <1>2, <2>3, StatCases, Numbers
  <2> QED
    BY <1>2, <2>1, <2>2, <2>3, StatCases
<1>3. CASE OpenSource
  BY <1>3 DEF OpenSource
<1>4. CASE OpenFails
  BY <1>4 DEF OpenFails, Return
<1>5. CASE ReadChunk
  BY <1>5 DEF ReadChunk
<1>6. CASE ResendPut
  BY <1>6, KeyRecords, RequestRecords DEF ResendPut
<1>7. CASE PutSucceeds
  BY <1>7 DEF PutSucceeds
<1>8. CASE PutFails
  BY <1>8, GivenUpPut DEF PutFails, GiveUpPut, Return
<1>9. CASE Subscribe
  BY <1>9 DEF Subscribe
<1>10. CASE FirstLook
  <2>1. CASE GiveUpPut
    BY <1>10, <2>1, LookCases, GivenUpPut DEF GiveUpPut, Return
  <2>2. CASE ~GiveUpPut
    BY <1>10, <2>2, LookCases
  <2> QED
    BY <2>1, <2>2
<1>11. CASE SignalChanged
  <2>1. CASE GiveUpPut
    BY <1>11, <2>1, LookCases, GivenUpPut DEF GiveUpPut, Return
  <2>2. CASE ~GiveUpPut
    BY <1>11, <2>2, LookCases
  <2> QED
    BY <2>1, <2>2
<1>12. CASE SourceUnchanged
  <2>1. \A v \in body : v = fingerprint
    BY <1>12, Numbers DEF SourceUnchanged
  <2>2. body # {}
    BY <1>12 DEF SourceUnchanged
  <2>3. body = {fingerprint}
    BY <2>1, <2>2
  <2> QED
    BY <1>12, <2>3 DEF SourceUnchanged, Return
<1>13. CASE RestatFails
  BY <1>13 DEF RestatFails, Return
<1>14. CASE SourceChanged
  BY <1>14 DEF SourceChanged
<1>15. CASE ResendDelete
  BY <1>15, KeyRecords, RequestRecords DEF ResendDelete
<1>16. CASE RolledBack
  BY <1>16 DEF RolledBack, Return
<1>17. CASE RollbackFails
  BY <1>17, KeyRecords, RequestRecords DEF RollbackFails, Return
<1>18. CASE OpenSession
  BY <1>18 DEF OpenSession, Leg!Open
<1>19. CASE SettleSession
  <2>1. CASE session' = "published"
    BY <1>19, <2>1, KeyRecords DEF SettleSession, Leg!Settle
  <2>2. CASE session' # "published"
    BY <1>19, <2>2 DEF SettleSession, Leg!Settle
  <2> QED
    BY <2>1, <2>2
<1>20. CASE SessionPublished
  BY <1>20 DEF SessionPublished, Leg!Confirm, Return
<1>21. CASE SessionFails
  BY <1>21 DEF SessionFails, Leg!Confirm, Leg!Fail, Return
<1>22. CASE HandlePut
  BY <1>22, KeyRecords, RequestRecords DEF HandlePut
<1>23. CASE HandleDelete
  BY <1>23, KeyRecords, RequestRecords DEF HandleDelete
<1>24. CASE HandleLate
  <2>1. PICK r \in late :
           /\ late' = late \ {r}
           /\ IF r.op = "Put"
              THEN key' = Ours(r.content) /\ stored' = stored \union {r.content}
              ELSE key' = NoObject /\ UNCHANGED stored
           /\ UNCHANGED <<file, pc, watch, fingerprint, putVars, reply, outcome, legVars>>
    BY <1>24 DEF HandleLate
  <2> QED
    BY <2>1, RequestRecords, KeyRecords
<1>25. CASE RewriteFile
  <2>1. UNCHANGED <<stored, late, pc, fingerprint, opened, body, unread, reply, outcome,
                    calling, report>>
    BY <1>25, Rewritten
  <2> QED
    BY <2>1
<1>26. CASE OtherWriterPuts
  BY <1>26, KeyRecords, RequestRecords DEF OtherWriterPuts
<1>27. CASE Cancel
  BY <1>27 DEF Cancel
<1>28. CASE UNCHANGED vars
  BY <1>28 DEF vars
<1> QED
    BY <1>1, <1>2, <1>3, <1>4, <1>5, <1>6, <1>7, <1>8, <1>9, <1>10, <1>11, <1>12, <1>13,
  <1>14, <1>15, <1>16, <1>17, <1>18, <1>19, <1>20, <1>21, <1>22, <1>23, <1>24, <1>25,
  <1>26, <1>27, <1>28
  DEF Next, SinglePutStep, MultipartStep, RemoteStep, EnvironmentStep

LEMMA VersionStep ==
    ASSUME IInv, [Next]_vars
    PROVE  VersionInv'
<1> USE Numbers DEF IInv, legVars, putVars, watch, LegInv,
  Legged, PutInv, VersionInv
<1>1. CASE Refuse
  BY <1>1 DEF Refuse, Return
<1>2. CASE StatSource
  <2>1. CASE pc' = "put"
    BY <1>2, <2>1, StatCases, Numbers
  <2>2. CASE pc' = "open"
    BY <1>2, <2>2, StatCases, Numbers
  <2>3. CASE pc' = "multipart"
    BY <1>2, <2>3, StatCases, Numbers
  <2> QED
    BY <1>2, <2>1, <2>2, <2>3, StatCases
<1>3. CASE OpenSource
  BY <1>3 DEF OpenSource
<1>4. CASE OpenFails
  BY <1>4 DEF OpenFails, Return
<1>5. CASE ReadChunk
  BY <1>5 DEF ReadChunk
<1>6. CASE ResendPut
  BY <1>6, KeyRecords, RequestRecords DEF ResendPut
<1>7. CASE PutSucceeds
  BY <1>7 DEF PutSucceeds
<1>8. CASE PutFails
  BY <1>8, GivenUpPut DEF PutFails, GiveUpPut, Return
<1>9. CASE Subscribe
  BY <1>9 DEF Subscribe
<1>10. CASE FirstLook
  <2>1. CASE GiveUpPut
    BY <1>10, <2>1, LookCases, GivenUpPut DEF GiveUpPut, Return
  <2>2. CASE ~GiveUpPut
    BY <1>10, <2>2, LookCases
  <2> QED
    BY <2>1, <2>2
<1>11. CASE SignalChanged
  <2>1. CASE GiveUpPut
    BY <1>11, <2>1, LookCases, GivenUpPut DEF GiveUpPut, Return
  <2>2. CASE ~GiveUpPut
    BY <1>11, <2>2, LookCases
  <2> QED
    BY <2>1, <2>2
<1>12. CASE SourceUnchanged
  BY <1>12 DEF SourceUnchanged, Return
<1>13. CASE RestatFails
  BY <1>13 DEF RestatFails, Return
<1>14. CASE SourceChanged
  BY <1>14 DEF SourceChanged
<1>15. CASE ResendDelete
  BY <1>15, KeyRecords, RequestRecords DEF ResendDelete
<1>16. CASE RolledBack
  BY <1>16 DEF RolledBack, Return
<1>17. CASE RollbackFails
  BY <1>17, KeyRecords, RequestRecords DEF RollbackFails, Return
<1>18. CASE OpenSession
  BY <1>18 DEF OpenSession, Leg!Open
<1>19. CASE SettleSession
  <2>1. CASE session' = "published"
    BY <1>19, <2>1, KeyRecords DEF SettleSession, Leg!Settle
  <2>2. CASE session' # "published"
    BY <1>19, <2>2 DEF SettleSession, Leg!Settle
  <2> QED
    BY <2>1, <2>2
<1>20. CASE SessionPublished
  BY <1>20 DEF SessionPublished, Leg!Confirm, Return
<1>21. CASE SessionFails
  BY <1>21 DEF SessionFails, Leg!Confirm, Leg!Fail, Return
<1>22. CASE HandlePut
  BY <1>22, KeyRecords, RequestRecords DEF HandlePut
<1>23. CASE HandleDelete
  BY <1>23, KeyRecords, RequestRecords DEF HandleDelete
<1>24. CASE HandleLate
  <2>1. PICK r \in late :
           /\ late' = late \ {r}
           /\ IF r.op = "Put"
              THEN key' = Ours(r.content) /\ stored' = stored \union {r.content}
              ELSE key' = NoObject /\ UNCHANGED stored
           /\ UNCHANGED <<file, pc, watch, fingerprint, putVars, reply, outcome, legVars>>
    BY <1>24 DEF HandleLate
  <2> QED
    BY <2>1, RequestRecords, KeyRecords
<1>25. CASE RewriteFile
  BY <1>25, Rewritten
<1>26. CASE OtherWriterPuts
  BY <1>26, KeyRecords, RequestRecords DEF OtherWriterPuts
<1>27. CASE Cancel
  BY <1>27 DEF Cancel
<1>28. CASE UNCHANGED vars
  BY <1>28 DEF vars
<1> QED
    BY <1>1, <1>2, <1>3, <1>4, <1>5, <1>6, <1>7, <1>8, <1>9, <1>10, <1>11, <1>12, <1>13,
  <1>14, <1>15, <1>16, <1>17, <1>18, <1>19, <1>20, <1>21, <1>22, <1>23, <1>24, <1>25,
  <1>26, <1>27, <1>28
  DEF Next, SinglePutStep, MultipartStep, RemoteStep, EnvironmentStep

LEMMA RollbackStep ==
    ASSUME IInv, [Next]_vars
    PROVE  RollbackInv'
<1> USE DEF IInv, TypeInv, Versions, Sizes, legVars, putVars, watch, LegInv,
  Legged, PutInv, VersionInv, RollbackInv, RolledBackIsGone
<1>1. CASE Refuse
  BY <1>1 DEF Refuse, Return
<1>2. CASE StatSource
  <2>1. CASE pc' = "put"
    BY <1>2, <2>1, StatCases, Numbers
  <2>2. CASE pc' = "open"
    BY <1>2, <2>2, StatCases, Numbers
  <2>3. CASE pc' = "multipart"
    BY <1>2, <2>3, StatCases, Numbers
  <2> QED
    BY <1>2, <2>1, <2>2, <2>3, StatCases
<1>3. CASE OpenSource
  BY <1>3 DEF OpenSource
<1>4. CASE OpenFails
  BY <1>4 DEF OpenFails, Return
<1>5. CASE ReadChunk
  BY <1>5 DEF ReadChunk
<1>6. CASE ResendPut
  BY <1>6, KeyRecords, RequestRecords DEF ResendPut
<1>7. CASE PutSucceeds
  BY <1>7 DEF PutSucceeds
<1>8. CASE PutFails
  BY <1>8, GivenUpPut DEF PutFails, GiveUpPut, Return
<1>9. CASE Subscribe
  BY <1>9 DEF Subscribe
<1>10. CASE FirstLook
  <2>1. CASE GiveUpPut
    BY <1>10, <2>1, LookCases, GivenUpPut DEF GiveUpPut, Return
  <2>2. CASE ~GiveUpPut
    BY <1>10, <2>2, LookCases
  <2> QED
    BY <2>1, <2>2
<1>11. CASE SignalChanged
  <2>1. CASE GiveUpPut
    BY <1>11, <2>1, LookCases, GivenUpPut DEF GiveUpPut, Return
  <2>2. CASE ~GiveUpPut
    BY <1>11, <2>2, LookCases
  <2> QED
    BY <2>1, <2>2
<1>12. CASE SourceUnchanged
  BY <1>12 DEF SourceUnchanged, Return
<1>13. CASE RestatFails
  BY <1>13 DEF RestatFails, Return
<1>14. CASE SourceChanged
  BY <1>14 DEF SourceChanged
<1>15. CASE ResendDelete
  BY <1>15, KeyRecords, RequestRecords DEF ResendDelete
<1>16. CASE RolledBack
  BY <1>16 DEF RolledBack, Return
<1>17. CASE RollbackFails
  BY <1>17, KeyRecords, RequestRecords DEF RollbackFails, Return
<1>18. CASE OpenSession
  BY <1>18 DEF OpenSession, Leg!Open
<1>19. CASE SettleSession
  <2>1. CASE session' = "published"
    BY <1>19, <2>1, KeyRecords DEF SettleSession, Leg!Settle
  <2>2. CASE session' # "published"
    BY <1>19, <2>2 DEF SettleSession, Leg!Settle
  <2> QED
    BY <2>1, <2>2
<1>20. CASE SessionPublished
  BY <1>20 DEF SessionPublished, Leg!Confirm, Return
<1>21. CASE SessionFails
  BY <1>21 DEF SessionFails, Leg!Confirm, Leg!Fail, Return
<1>22. CASE HandlePut
  BY <1>22, KeyRecords, RequestRecords DEF HandlePut
<1>23. CASE HandleDelete
  BY <1>23, KeyRecords, RequestRecords DEF HandleDelete
<1>24. CASE HandleLate
  <2>1. PICK r \in late :
           /\ late' = late \ {r}
           /\ IF r.op = "Put"
              THEN key' = Ours(r.content) /\ stored' = stored \union {r.content}
              ELSE key' = NoObject /\ UNCHANGED stored
           /\ UNCHANGED <<file, pc, watch, fingerprint, putVars, reply, outcome, legVars>>
    BY <1>24 DEF HandleLate
  <2> QED
    BY <2>1, RequestRecords, KeyRecords
<1>25. CASE RewriteFile
  BY <1>25, Rewritten
<1>26. CASE OtherWriterPuts
  BY <1>26, KeyRecords, RequestRecords DEF OtherWriterPuts
<1>27. CASE Cancel
  BY <1>27 DEF Cancel
<1>28. CASE UNCHANGED vars
  BY <1>28 DEF vars
<1> QED
    BY <1>1, <1>2, <1>3, <1>4, <1>5, <1>6, <1>7, <1>8, <1>9, <1>10, <1>11, <1>12, <1>13,
  <1>14, <1>15, <1>16, <1>17, <1>18, <1>19, <1>20, <1>21, <1>22, <1>23, <1>24, <1>25,
  <1>26, <1>27, <1>28
  DEF Next, SinglePutStep, MultipartStep, RemoteStep, EnvironmentStep

THEOREM Invariance == Spec => []IInv
<1>1. IInv /\ [Next]_vars => IInv'
  BY TypeStep, LegStep, PutStep, VersionStep, RollbackStep DEF IInv
<1> QED
  BY InitInv, <1>1, PTL DEF Spec

----------------------------------------------------------------------------
(* The properties *)

\* Types of every variable of AdaptiveUpload, the watch channel's included.
THEOREM TypeCorrect == Spec => []TypeOK
<1>1. IInv => TypeOK
  BY TypeInvIsTypeOK DEF IInv
<1> QED
  BY Invariance, <1>1, PTL

\* send only returns Ok if the one version it fingerprinted is all it ever put
\* under the key, by whichever leg and however often the SDK sent it.
THEOREM OkIsTrue == Spec => []OkIsOneVersion
<1>1. IInv => OkIsOneVersion
  BY DEF IInv, LegInv, PutInv, OkIsOneVersion
<1> QED
  BY Invariance, <1>1, PTL

\* An answered rollback of a streamed PUT leaves nothing of it, for ever.
THEOREM RollbackIsTrue == Spec => []RolledBackIsGone
<1>1. IInv => RolledBackIsGone
  BY DEF IInv, RollbackInv
<1> QED
  BY Invariance, <1>1, PTL

\* No delete of the rollback is carried out unless the file has changed since its
\* fingerprint was taken, not even one that arrives late.
THEOREM RollbackIsJustified == Spec => GoodObjectStays
<1>1. IInv /\ [Next]_vars =>
        [key.writer = "send" /\ key'.writer = "nobody" => file.version # fingerprint]_vars
  <2> SUFFICES ASSUME IInv, Next, key.writer = "send", key'.writer = "nobody"
               PROVE  file.version # fingerprint
    OBVIOUS
  <2> USE Numbers DEF IInv, RollbackInv
  <2>1. CASE HandleDelete
    BY <2>1 DEF HandleDelete
  <2>2. CASE HandleLate
    <3>1. PICK r \in late :
             IF r.op = "Put" THEN key' = Ours(r.content) ELSE key' = NoObject
      BY <2>2 DEF HandleLate
    <3>2. r.op = "Delete"
      BY <3>1, RequestRecords DEF TypeInv, Ours
    <3> QED
      BY <3>2
  <2>3. CASE HandlePut \/ OtherWriterPuts
    BY <2>3 DEF HandlePut, OtherWriterPuts, Ours, Others
  <2>4. CASE SettleSession
    BY <2>4 DEF SettleSession, Leg!Settle, Ours
  <2>5. CASE UNCHANGED key
    BY <2>5
  <2>6. \/ SinglePutStep \/ OpenSession \/ SessionPublished \/ SessionFails
        \/ RewriteFile \/ Cancel
        => UNCHANGED key
    BY StatCases, LookCases
    DEF SinglePutStep, Refuse, StatSource, OpenSource, OpenFails, ReadChunk, ResendPut,
        PutSucceeds, PutFails, GiveUpPut, Subscribe, SourceUnchanged, RestatFails,
        SourceChanged, ResendDelete, RolledBack, RollbackFails, OpenSession, Leg!Open,
        SessionPublished, SessionFails, Leg!Confirm, Leg!Fail, RewriteFile, Cancel
  <2> QED
    BY <2>1, <2>2, <2>3, <2>4, <2>5, <2>6
    DEF Next, MultipartStep, RemoteStep, EnvironmentStep
<1> QED
  BY Invariance, <1>1, PTL DEF Spec, GoodObjectStays

----------------------------------------------------------------------------
(* The multipart leg *)

\* send does to the session, the report and the handle of its multipart leg only what
\* UploadContract lets upload_file do, and a single PUT does nothing to them: what
\* ManagedUploadProofs shows of upload_file holds of the leg as send uses it.
THEOREM LegKeepsContract == Spec => Leg!Spec
<1>1. Init => Leg!Init
  BY DEF Init
<1>2. ASSUME TypeInv, [Next]_vars PROVE [Leg!Next]_(Leg!vars)
  <2> USE <1>2 DEF legVars, Leg!vars, Leg!Next, Leg!Ends
  <2>1. CASE SinglePutStep
    <3>1. CASE StatSource
      <4>1. file.size \in Sizes
        BY <1>2 DEF TypeInv
      <4>2. Leg!Begin \/ UNCHANGED legVars
        BY <3>1, <4>1 DEF StatSource, Sizes
      <4> QED
        BY <4>2
    <3>2. CASE ~StatSource
      <4>1. UNCHANGED legVars
        BY <2>1, <3>2, LookCases
        DEF SinglePutStep, Refuse, OpenSource, OpenFails, ReadChunk, ResendPut,
            PutSucceeds, PutFails, GiveUpPut, Subscribe, SourceUnchanged, RestatFails,
            SourceChanged, ResendDelete, RolledBack, RollbackFails
      <4> QED
        BY <4>1
    <3> QED
      BY <3>1, <3>2
  <2>2. CASE OpenSession \/ SettleSession
    BY <2>2 DEF OpenSession, SettleSession
  <2>3. CASE SessionPublished \/ SessionFails
    BY <2>3 DEF SessionPublished, SessionFails
  <2>4. CASE RemoteStep \/ EnvironmentStep \/ UNCHANGED vars
    BY <2>4 DEF RemoteStep, HandlePut, HandleDelete, HandleLate, EnvironmentStep, RewriteFile,
       OtherWriterPuts, Cancel, vars
  <2> QED
    BY <2>1, <2>2, <2>3, <2>4 DEF Next, MultipartStep
<1>3. IInv => TypeInv
  BY DEF IInv
<1> QED
  BY <1>1, <1>2, <1>3, Invariance, PTL DEF Spec, Leg!Spec

----------------------------------------------------------------------------
(* Cancellation *)

\* A receiver that waits for a change has seen no signal: it looked at the value, and
\* found it false, after it subscribed.
WaitInv == waiter = "waiting" => seen = 0

LEMMA WaitStep == WaitInv /\ TypeInv /\ [Next]_vars => WaitInv'
<1> SUFFICES ASSUME WaitInv, TypeInv, [Next]_vars PROVE WaitInv'
  OBVIOUS
<1> USE DEF WaitInv, watch
<1>1. CASE Look
  BY <1>1 DEF Look, cancelled, TypeInv
<1>2. CASE UNCHANGED <<waiter, seen>>
  BY <1>2
<1>3. CASE waiter' \in {"idle", "subscribed"}
  BY <1>3
<1>4. SinglePutStep => Look \/ UNCHANGED <<waiter, seen>> \/ waiter' \in {"idle", "subscribed"}
  BY StatCases
  DEF SinglePutStep, Refuse, OpenSource, OpenFails, ReadChunk, ResendPut, PutSucceeds,
      PutFails, Subscribe, FirstLook, SignalChanged, SourceUnchanged, RestatFails,
      SourceChanged, ResendDelete, RolledBack, RollbackFails
<1>5. MultipartStep \/ RemoteStep \/ EnvironmentStep \/ UNCHANGED vars => UNCHANGED <<waiter, seen>>
  BY DEF MultipartStep, OpenSession, SettleSession, SessionPublished, SessionFails, RemoteStep,
     HandlePut, HandleDelete, HandleLate, EnvironmentStep, RewriteFile, OtherWriterPuts, Cancel,
     vars
<1> QED
  BY <1>1, <1>2, <1>3, <1>4, <1>5 DEF Next

\* When LocalStep and SignalChanged can be taken.
LocalReady ==
    \/ pc \in {"stat", "open", "recheck"}
    \/ pc = "put" /\ (waiter \in {"idle", "subscribed"} \/ reply = "ok")
SignalReady == pc = "put" /\ waiter = "waiting" /\ seen # signal

\* What the fairness of FairSpec is read with: no prover here computes ENABLED.
GuardsEnable ==
    /\ LocalReady => ENABLED <<LocalStep>>_vars
    /\ SignalReady => ENABLED <<SignalChanged>>_vars

\* A cancelled PUT is left through its receiver, or through its answer.
Idle    == pc = "put" /\ cancelled /\ waiter = "idle"
Subbed  == pc = "put" /\ cancelled /\ waiter = "subscribed"
Waiting == pc = "put" /\ cancelled /\ waiter = "waiting"
Recheck == pc = "recheck"
Left    == pc \in {"done", "rollback"}

LEMMA CancelledPutSteps ==
    ASSUME TypeInv, [Next]_vars
    PROVE  /\ Idle => Idle' \/ Subbed' \/ Recheck' \/ Left'
           /\ Subbed => Subbed' \/ Recheck' \/ Left'
           /\ Waiting => Waiting' \/ Recheck' \/ Left'
           /\ Recheck => Recheck' \/ Left'
<1> USE DEF Idle, Subbed, Waiting, Recheck, Left, watch
<1>1. cancelled => cancelled'
  <2>1. signal' = signal \/ signal' = signal + 1
    BY StatCases, LookCases
    DEF Next, SinglePutStep, Refuse, OpenSource, OpenFails, ReadChunk, ResendPut, PutSucceeds,
        PutFails, Subscribe, SourceUnchanged, RestatFails, SourceChanged, ResendDelete,
        RolledBack, RollbackFails, MultipartStep, OpenSession, SettleSession, SessionPublished,
        SessionFails, RemoteStep, HandlePut, HandleDelete, HandleLate, EnvironmentStep,
        RewriteFile, OtherWriterPuts, Cancel, vars
  <2> QED
    BY <2>1 DEF cancelled, TypeInv
<1>2. pc = "put" =>
        \/ pc' \in {"done", "recheck"}
        \/ /\ pc' = "put"
           /\ \/ waiter' = waiter
              \/ waiter = "idle" /\ waiter' = "subscribed"
              \/ ~cancelled
  BY StatCases
  DEF Next, SinglePutStep, Refuse, Return, OpenSource, OpenFails, ReadChunk, ResendPut,
      PutSucceeds, PutFails, GiveUpPut, Subscribe, FirstLook, SignalChanged, Look,
      SourceUnchanged, RestatFails, SourceChanged, ResendDelete,
      RolledBack, RollbackFails, MultipartStep, OpenSession, SettleSession, SessionPublished,
      SessionFails, RemoteStep, HandlePut, HandleDelete, HandleLate, EnvironmentStep,
      RewriteFile, OtherWriterPuts, Cancel, vars
<1>3. pc = "recheck" => pc' \in {"recheck", "done", "rollback"}
  BY StatCases, LookCases
  DEF Next, SinglePutStep, Refuse, Return, OpenSource, OpenFails, ReadChunk, ResendPut,
      PutSucceeds, PutFails, Subscribe, SourceUnchanged, RestatFails, SourceChanged,
      ResendDelete, RolledBack, RollbackFails, MultipartStep, OpenSession, SettleSession,
      SessionPublished, SessionFails, RemoteStep, HandlePut, HandleDelete, HandleLate,
      EnvironmentStep, RewriteFile, OtherWriterPuts, Cancel, vars
<1> QED
  BY <1>1, <1>2, <1>3

\* A cancelled PUT is left, whenever cancel() came: before the receiver subscribed,
\* between that and its first look, or after, and even if R2 never answers.
THEOREM CancelIsHeard == FairSpec /\ []GuardsEnable => CancelReturns
<1> USE DEF Idle, Subbed, Waiting, Recheck, Left
<1>1. TypeInv /\ [Next]_vars =>
          /\ Idle => Idle' \/ Subbed' \/ Recheck' \/ Left'
          /\ Subbed => Subbed' \/ Recheck' \/ Left'
          /\ Waiting => Waiting' \/ Recheck' \/ Left'
          /\ Recheck => Recheck' \/ Left'
  BY CancelledPutSteps
<1>2. /\ Idle => LocalReady
      /\ Subbed => LocalReady
      /\ Recheck => LocalReady
  BY DEF LocalReady
<1>3. TypeInv /\ WaitInv /\ Waiting => SignalReady
  BY DEF SignalReady, WaitInv, cancelled, TypeInv
<1>4. /\ Idle /\ <<LocalStep>>_vars => Subbed' \/ Recheck'
      /\ Subbed /\ <<LocalStep>>_vars => Recheck' \/ Left'
      /\ Recheck /\ <<LocalStep>>_vars => Left'
  BY DEF LocalStep, Refuse, StatSource, OpenSource, OpenFails, Subscribe, FirstLook, Look,
     PutSucceeds, SourceUnchanged, RestatFails, SourceChanged, Return, GiveUpPut, cancelled
<1>5. Waiting /\ <<SignalChanged>>_vars => Left'
  BY DEF SignalChanged, Look, GiveUpPut, Return
<1>6. TypeInv /\ cancelled /\ pc = "put" => Idle \/ Subbed \/ Waiting
  BY DEF TypeInv
<1>7. Init => WaitInv
  BY DEF Init, WaitInv
<1>8. IInv => TypeInv
  BY DEF IInv
<1>9. Left => pc \in {"done", "rollback"}
  OBVIOUS
<1> HIDE DEF Idle, Subbed, Waiting, Recheck, Left
<1> QED
  BY <1>1, <1>2, <1>3, <1>4, <1>5, <1>6, <1>7, <1>8, <1>9, WaitStep, Invariance, PTL
  DEF FairSpec, Spec, GuardsEnable, CancelReturns
=============================================================================
