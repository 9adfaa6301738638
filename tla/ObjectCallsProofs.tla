------------------------- MODULE ObjectCallsProofs -------------------------
(***************************************************************************)
(* Proofs about ObjectCalls for every set of contents, number of writes,   *)
(* writes on the wire and chunks of a body.                                *)
(*                                                                         *)
(* The inductive invariant IInv is TypeOK with five further parts:         *)
(*   CallInv    the call has a condition that its operation can have;      *)
(*   SeenInv    the object is among the values seen during the call;       *)
(*   ReplyInv   a response in transit is true of one of those values, and  *)
(*              that of a put of one that a put replaced;                  *)
(*   CopyInv    the file while the object is copied to it;                 *)
(*   IdleInv    what the call returned (AnswerWasTrue, DownloadIsWhole).   *)
(***************************************************************************)
EXTENDS ObjectCalls, TLAPS

Values == Object \union {NoObject}
WriteRequest ==
    [op : Writes, base : Values, condition : Conditions]

Here == {o \in seen : o # NoObject}
Meets(o) == Satisfies(o, call.condition, call.base)

CallInv == call.condition \in ConditionsOf(call.op)

SeenInv == pc # "idle" => object \in seen

\* The call was answered with a version that met its condition.
Read == reply.object \in Here /\ Meets(reply.object)

ReplyInv ==
    /\ pc = "idle" => reply = NoReply
    /\ pc = "sent" =>
          /\ reply.status = 200 => call.op # "delete"
          /\ reply.status = 200 /\ call.op \in Reads \union {"copy"} => Read
          /\ reply.status = 200 /\ call.op = "put" =>
                (\E o \in Here : o.etag = Mine) /\ (\E o \in replaced : Meets(o))
          /\ reply.status = 204 => call.op = "delete" /\ NoObject \in seen
          /\ reply.status = 404 => call.op \notin Writes /\ NoObject \in seen
          /\ reply.status = 304 =>
                /\ call.op \in Reads
                /\ call.condition \in {"if_none_match", "if_modified_since"}
                /\ \E o \in Here : ~Meets(o)
          /\ reply.status = 412 =>
                /\ call.op # "delete"
                /\ \E o \in (IF call.op = "put" THEN seen ELSE Here) : ~Meets(o)

CopyInv ==
    /\ pc = "sent" => file = Earlier
    /\ pc = "copy" =>
          /\ call.op = "download"
          /\ Read
          /\ \E n \in 0..Chunks : file = FileOf(reply.object.etag, n)

IdleInv == AnswerWasTrue /\ DownloadIsWhole

IInv == TypeOK /\ CallInv /\ SeenInv /\ ReplyInv /\ CopyInv /\ IdleInv

USE ObjectAssumption DEF ObjectAssumption

----------------------------------------------------------------------------
(* R2 *)

\* What a status says of the object that was there.
LEMMA StatusIsTrue ==
    ASSUME NEW r, r.op \in Ops, r.condition \in ConditionsOf(r.op)
    PROVE  /\ Status(r) \in {200, 204, 304, 404, 412}
           /\ Status(r) = 204 <=> r.op = "delete"
           /\ Status(r) = 200 =>
                 /\ Satisfies(object, r.condition, r.base)
                 /\ r.op # "put" => object # NoObject
           /\ Status(r) = 404 => r.op \notin Writes /\ object = NoObject
           /\ Status(r) = 304 =>
                 /\ r.op \in Reads
                 /\ r.condition \in {"if_none_match", "if_modified_since"}
                 /\ object # NoObject /\ ~Satisfies(object, r.condition, r.base)
           /\ Status(r) = 412 =>
                 /\ r.op # "delete" /\ ~Satisfies(object, r.condition, r.base)
                 /\ r.op # "put" => object # NoObject
<1>1. r.condition = "none" => Satisfies(object, r.condition, r.base)
  BY DEF Satisfies
<1>2. r.op = "copy" \/ r.op \in Reads \/ r.op \in Writes
  BY DEF Ops
<1> QED
  BY <1>1, <1>2 DEF Status, Reads, Writes

\* The histories of the call under way only grow, and rest between calls.
HistoryGrows ==
    /\ seen \subseteq seen' /\ replaced \subseteq replaced'
    /\ pc = "idle" => seen' = seen /\ replaced' = replaced

RemoteTypes ==
    /\ object \in Values /\ clock \in 0..MaxTime
    /\ seen \subseteq Values /\ replaced \subseteq Values

\* What a write that reaches R2 does, whoever sent it.
LEMMA ApplyInv ==
    ASSUME TypeOK, SeenInv, NEW r, Apply(r), pc' = pc
    PROVE  /\ RemoteTypes' /\ HistoryGrows /\ SeenInv'
           /\ r.op = "put" /\ Status(r) # 412 /\ pc # "idle" => object \in replaced'
<1> USE DEF TypeOK, SeenInv, Values, RemoteTypes, HistoryGrows
<1>1. CASE r.op \in Writes /\ Status(r) # 412
  <2>1. Write(r)
    BY <1>1 DEF Apply
  <2>2. clock' \in 1..MaxTime /\ clock' \in 0..MaxTime
    BY <2>1 DEF Write
  <2>3. object' \in Values /\ seen' = IF pc = "idle" THEN seen ELSE seen \union {object'}
    <3>1. [etag |-> Mine, time |-> clock'] \in Object
      BY <2>2 DEF Object, Etags
    <3> QED
      BY <2>1, <3>1 DEF Write, SetObject
  <2>4. replaced' = IF r.op = "put" /\ pc # "idle" THEN replaced \union {object} ELSE replaced
    BY <2>1 DEF Write
  <2> QED
    BY <2>2, <2>3, <2>4
<1>2. CASE ~(r.op \in Writes /\ Status(r) # 412)
  BY <1>2 DEF Apply, remoteVars, Writes
<1> QED
  BY <1>1, <1>2

\* The call goes on while the object changes.
LEMMA WorldInv ==
    ASSUME IInv, UNCHANGED <<pc, call, reply, known, outcome, file, unremoved>>, HistoryGrows
    PROVE  CallInv' /\ ReplyInv' /\ CopyInv' /\ IdleInv'
<1> USE DEF HistoryGrows
<1>1. ReplyInv'
  BY DEF IInv, ReplyInv, Read, Here, Meets
<1>2. CopyInv'
  BY DEF IInv, CopyInv, Read, Here, Meets
<1>3. IdleInv'
  BY DEF IInv, IdleInv, AnswerWasTrue, DownloadIsWhole, Done
<1> QED
  BY <1>1, <1>2, <1>3 DEF IInv, CallInv

LEMMA LateAndSignedInv ==
    ASSUME IInv, HandleLate \/ UseSigned \/ ExpireSigned
    PROVE  IInv'
<1> USE DEF IInv, fileVars, remoteVars
<1>1. /\ UNCHANGED <<pc, call, reply, known, outcome, file, unremoved>>
      /\ late' \subseteq late /\ signed' \subseteq signed
  BY DEF HandleLate, UseSigned, ExpireSigned
<1>2. RemoteTypes' /\ HistoryGrows /\ SeenInv'
  <2>1. CASE HandleLate \/ UseSigned
    <3>1. PICK r \in late \union signed : Apply(r)
      BY <2>1 DEF HandleLate, UseSigned
    <3> QED
      BY <1>1, <3>1, ApplyInv
  <2>2. CASE ExpireSigned
    BY <2>2 DEF ExpireSigned, TypeOK, SeenInv, Values, RemoteTypes, HistoryGrows
  <2> QED
    BY <2>1, <2>2
<1>3. TypeOK'
  BY <1>1, <1>2 DEF TypeOK, Values, RemoteTypes
<1> QED
  BY <1>1, <1>2, <1>3, WorldInv

LEMMA OthersInv ==
    ASSUME IInv, OthersStep
    PROVE  IInv'
<1> USE DEF IInv, fileVars
<1>1. UNCHANGED <<pc, call, reply, known, outcome, file, unremoved, late, signed, replaced>>
  BY DEF OthersStep, OtherWriterPuts, OtherWriterDeletes
<1>2. object' \in Values /\ clock' \in 0..MaxTime
  BY DEF OthersStep, OtherWriterPuts, OtherWriterDeletes, SetObject, Values, Object, Etags,
         TypeOK
<1>3. seen' = IF pc = "idle" THEN seen ELSE seen \union {object'}
  BY DEF OthersStep, OtherWriterPuts, OtherWriterDeletes, SetObject
<1>4. TypeOK'
  BY <1>1, <1>2, <1>3 DEF TypeOK, Values
<1>5. SeenInv' /\ HistoryGrows
  BY <1>1, <1>3 DEF SeenInv, HistoryGrows
<1> QED
  BY <1>1, <1>4, <1>5, WorldInv

LEMMA HandleRequestInv ==
    ASSUME IInv, HandleRequest
    PROVE  IInv'
<1> USE DEF IInv, fileVars
<1>1. /\ UNCHANGED <<pc, call, known, outcome, file, unremoved, late, signed>>
      /\ pc = "sent"
  BY DEF HandleRequest
<1>2. CallInv'
  BY <1>1 DEF CallInv
<1>3. CopyInv' /\ IdleInv'
  BY <1>1 DEF CopyInv, IdleInv, AnswerWasTrue, DownloadIsWhole, Done
<1>4. CASE Apply(Request(call))
           /\ reply' = [status |-> Status(Request(call)), object |-> object]
  <2> DEFINE r == Request(call)
  <2>1. /\ r.op = call.op /\ r.base = call.base /\ r.condition = call.condition
        /\ r.op \in Ops /\ r.condition \in ConditionsOf(r.op)
    BY DEF Request, TypeOK, Call, CallInv
  <2>2. /\ RemoteTypes' /\ HistoryGrows /\ SeenInv'
        /\ r.op = "put" /\ Status(r) # 412 => object \in replaced'
    BY <1>1, <1>4, <2>1, ApplyInv
  <2>3. reply'.status = Status(r) /\ reply'.object = object
    BY <1>4
  <2>4. ASSUME r.op \in Writes, Status(r) # 412
        PROVE  /\ object' \in seen'
               /\ r.op = "put" => object' # NoObject /\ object'.etag = Mine
               /\ r.op = "delete" => object' = NoObject
    <3>1. Write(r)
      BY <1>4, <2>4 DEF Apply
    <3>2. clock' # 0
      BY <3>1 DEF Write, TypeOK
    <3> QED
      BY <1>1, <2>4, <3>1, <3>2 DEF Write, SetObject, NoObject, Writes
  <2>5. object \in seen /\ seen \subseteq seen'
    BY <1>1, <2>2 DEF SeenInv, HistoryGrows
  <2> HIDE DEF r
  <2>6. TypeOK'
    BY <1>1, <1>4, <2>1, <2>2, <2>3, StatusIsTrue DEF TypeOK, Values, RemoteTypes
  <2>7. ReplyInv'
    <3>1. Status(r) = 200 /\ call.op \in Reads \union {"copy"} => Read'
      BY <1>1, <2>1, <2>2, <2>3, <2>5, StatusIsTrue DEF Read, Here, Meets, Reads
    <3>2. Status(r) = 200 /\ call.op = "put" =>
             (\E o \in Here' : o.etag = Mine) /\ (\E o \in replaced' : Meets(o)')
      <4> SUFFICES ASSUME Status(r) = 200, call.op = "put"
                   PROVE  (\E o \in Here' : o.etag = Mine) /\ (\E o \in replaced' : Meets(o)')
        OBVIOUS
      <4>1. object \in replaced' /\ Satisfies(object, call'.condition, call'.base)
        BY <1>1, <2>1, <2>2, StatusIsTrue
      <4>2. object' \in Here' /\ object'.etag = Mine
        BY <2>1, <2>4 DEF Here, Writes
      <4>3. \E o \in replaced' : Meets(o)'
        BY <4>1 DEF Meets
      <4> QED
        BY <4>2, <4>3
    <3>3. Status(r) = 204 => NoObject \in seen'
      BY <2>1, <2>4, StatusIsTrue DEF Writes
    <3>4. Status(r) = 404 => NoObject \in seen'
      BY <2>1, <2>2, <2>5, StatusIsTrue
    <3>5. Status(r) = 304 => \E o \in Here' : ~Meets(o)'
      BY <1>1, <2>1, <2>2, <2>5, StatusIsTrue DEF Here, Meets
    <3>6. Status(r) = 412 =>
             \E o \in (IF call.op = "put" THEN seen' ELSE Here') : ~Meets(o)'
      BY <1>1, <2>1, <2>2, <2>5, StatusIsTrue DEF Here, Meets
    <3> QED
      BY <1>1, <2>1, <2>3, <3>1, <3>2, <3>3, <3>4, <3>5, <3>6, StatusIsTrue DEF ReplyInv
  <2> QED
    BY <1>2, <1>3, <2>2, <2>6, <2>7
<1>5. CASE reply' = [status |-> 503, object |-> NoObject] /\ UNCHANGED <<remoteVars, replaced>>
  BY <1>1, <1>2, <1>3, <1>5 DEF TypeOK, SeenInv, ReplyInv, remoteVars
<1> QED
  BY <1>4, <1>5 DEF HandleRequest

----------------------------------------------------------------------------
(* The calls *)

\* What a call conditions on, and what it leaves on the wire.
LEMMA NewCallInv ==
    ASSUME TypeOK, NEW op \in Ops, NEW condition \in ConditionsOf(op),
           NEW base \in Values,
           NEW c, c = [op |-> op, condition |-> condition, base |-> base]
    PROVE  /\ c \in Call /\ c.condition \in ConditionsOf(c.op)
           /\ op \in Writes => Request(c) \in WriteRequest
<1>1. condition \in Conditions
  BY DEF ConditionsOf, Conditions, Ops, Reads, Writes
<1> QED
  BY <1>1 DEF Call, Request, WriteRequest, Values

LEMMA AbandonInv ==
    ASSUME TypeOK, Abandon
    PROVE  late' \subseteq WriteRequest
<1>1. call.op \in Writes => Request(call) \in WriteRequest
  BY DEF TypeOK, Call, Request, WriteRequest, Values
<1> QED
  BY <1>1 DEF Abandon, TypeOK, WriteRequest, Values

LEMMA StartCallInv ==
    ASSUME IInv, StartCall
    PROVE  IInv'
<1> USE DEF IInv
<1>1. call' \in Call /\ call'.condition \in ConditionsOf(call'.op)
  <2>1. PICK op \in Ops : \E condition \in ConditionsOf(op) :
           call' = [op |-> op, condition |-> condition,
                    base |-> IF condition = "none" THEN NoObject ELSE known]
    BY DEF StartCall
  <2>2. PICK condition \in ConditionsOf(op) :
           call' = [op |-> op, condition |-> condition,
                    base |-> IF condition = "none" THEN NoObject ELSE known]
    BY <2>1
  <2>3. (IF condition = "none" THEN NoObject ELSE known) \in Values
    BY DEF TypeOK, Values
  <2> QED
    BY <2>2, <2>3, NewCallInv
<1>2. reply = NoReply
  BY DEF StartCall, ReplyInv
<1>3. TypeOK'
  <2>1. outcome'.object = NoObject /\ file' = Earlier /\ unremoved' = FALSE
        /\ seen' = {object} /\ replaced' = {} /\ pc' = "sent"
    BY DEF StartCall, Pending, Returned
  <2> QED
    <3>1. unremoved' \in BOOLEAN
      BY <2>1
    <3>2. file' \in {Earlier, NoFile}
      BY <2>1
    <3>3. seen' \subseteq Object \union {NoObject} /\ pc' \in {"idle", "sent", "copy"}
      BY <2>1 DEF TypeOK
    <3>4. outcome'.object \in Object \union {NoObject}
      BY <2>1
    <3>5. UNCHANGED <<object, clock, late, signed, reply, known>> /\ replaced' = {}
      BY DEF StartCall
    <3> QED
      BY <1>1, <3>1, <3>2, <3>3, <3>4, <3>5 DEF TypeOK
<1>4. CallInv' /\ SeenInv' /\ CopyInv'
  BY <1>1 DEF StartCall, CallInv, SeenInv, CopyInv
<1>5. ReplyInv' /\ IdleInv'
  BY <1>2 DEF StartCall, ReplyInv, NoReply, IdleInv, AnswerWasTrue, DownloadIsWhole, Done
<1> QED
  BY <1>3, <1>4, <1>5

LEMMA PresignInv ==
    ASSUME IInv, PresignPut \/ PresignDelete
    PROVE  IInv'
<1> USE DEF IInv, fileVars, remoteVars
<1>1. PICK c \in Call : Request(c) \in WriteRequest /\ Sign(c)
  <2>1. CASE PresignPut
    <3>1. PICK condition \in ConditionsOf("put") :
             Sign([op |-> "put", condition |-> condition,
                   base |-> IF condition = "none" THEN NoObject ELSE known])
      BY <2>1 DEF PresignPut
    <3>2. (IF condition = "none" THEN NoObject ELSE known) \in Values
      BY DEF TypeOK, Values
    <3>3. "put" \in Ops /\ "put" \in Writes
      BY DEF Ops, Writes
    <3> QED
      BY <3>1, <3>2, <3>3, NewCallInv
  <2>2. CASE PresignDelete
    <3>1. Sign([op |-> "delete", condition |-> "none", base |-> NoObject])
      BY <2>2 DEF PresignDelete
    <3>2. "delete" \in Ops /\ "delete" \in Writes /\ "none" \in ConditionsOf("delete")
      BY DEF Ops, Writes, ConditionsOf
    <3>3. NoObject \in Values
      BY DEF Values
    <3> QED
      BY <3>1, <3>2, <3>3, NewCallInv
  <2> QED
    BY <2>1, <2>2
<1>2. /\ UNCHANGED <<object, clock, seen, late, pc, call, reply, known, outcome, file,
                     unremoved, replaced>>
      /\ signed' = signed \union {Request(c)}
  BY <1>1 DEF Sign
<1>3. TypeOK'
  BY <1>1, <1>2 DEF TypeOK, WriteRequest, Values
<1>4. SeenInv' /\ HistoryGrows
  BY <1>2 DEF SeenInv, HistoryGrows
<1> QED
  BY <1>2, <1>3, <1>4, WorldInv

LEMMA ResendRequestInv ==
    ASSUME IInv, ResendRequest
    PROVE  IInv'
<1> USE DEF IInv, fileVars, remoteVars
<1>1. UNCHANGED <<object, clock, seen, signed, pc, call, known, outcome, file,
                  unremoved, replaced>> /\ reply' = NoReply /\ pc = "sent"
  BY DEF ResendRequest
<1>2. late' \subseteq WriteRequest
  BY AbandonInv DEF ResendRequest
<1>3. TypeOK'
  BY <1>1, <1>2 DEF TypeOK, WriteRequest, Values, NoReply
<1>4. CallInv' /\ SeenInv' /\ CopyInv'
  BY <1>1 DEF CallInv, SeenInv, CopyInv
<1>5. ReplyInv' /\ IdleInv'
  BY <1>1 DEF ReplyInv, NoReply, IdleInv, AnswerWasTrue, DownloadIsWhole, Done
<1> QED
  BY <1>3, <1>4, <1>5

\* A call that returns: nothing is left to show but what it returned.
LEMMA ReturnInv ==
    ASSUME IInv, UNCHANGED <<object, clock, seen, signed, call, replaced>>,
           late' \subseteq WriteRequest,
           pc' = "idle", reply' = NoReply, known' \in Values, outcome'.object \in Values,
           file' \in {NoFile, file}, unremoved' \in BOOLEAN, IdleInv'
    PROVE  IInv'
<1> USE DEF IInv
<1>1. TypeOK'
  BY DEF TypeOK, WriteRequest, Values, NoReply
<1>2. CallInv' /\ SeenInv' /\ CopyInv' /\ ReplyInv'
  BY DEF CallInv, SeenInv, CopyInv, ReplyInv
<1> QED
  BY <1>1, <1>2

LEMMA LateStays ==
    ASSUME IInv, late' = late
    PROVE  late' \subseteq WriteRequest
  BY DEF IInv, TypeOK, WriteRequest, Values

\* Errors that say nothing of the object.
Silent(e) == e.is \notin {"none", "NotFound", "NotModified", "PreconditionFailed"}
             /\ ~IsNotFound(e)

\* What there is of a download is of one version that was there during the call.
HasVersion(f) == f.is = "download" => \E o \in seen : o.etag = f.etag

LEMMA FileHasVersion ==
    /\ HasVersion(Earlier) /\ HasVersion(NoFile)
    /\ IInv /\ pc \in {"sent", "copy"} => HasVersion(file)
<1>1. HasVersion(Earlier) /\ HasVersion(NoFile)
  BY DEF HasVersion, Earlier, NoFile
<1>2. ASSUME IInv, pc = "copy" PROVE HasVersion(file)
  BY <1>2 DEF IInv, CopyInv, Read, Here, FileOf, HasVersion
<1>3. ASSUME IInv, pc = "sent" PROVE HasVersion(file)
  BY <1>1, <1>3 DEF IInv, CopyInv
<1> QED
  BY <1>1, <1>2, <1>3

LEMMA SilentReturn ==
    ASSUME IInv, UNCHANGED <<object, clock, seen, signed, call, replaced>>,
           late' \subseteq WriteRequest,
           known' = known, reply' = NoReply,
           NEW e, Silent(e), Return(e, NoObject),
           file' \in {NoFile, file}, unremoved' \in BOOLEAN, HasVersion(file'),
           \/ file' = Earlier
           \/ e.is = "Io" /\ (file' = NoFile \/ unremoved' = TRUE)
           \/ e.is = "dropped"
    PROVE  IInv'
<1> USE DEF IInv, Return, Returned
<1>1. AnswerWasTrue'
  BY DEF AnswerWasTrue, Silent, IsNotFound, NoError
<1>2. DownloadIsWhole'
  BY DEF DownloadIsWhole, Silent, NoError, Done, HasVersion
<1> QED
  BY <1>1, <1>2, ReturnInv DEF TypeOK, Values, IdleInv

LEMMA SilentErrors ==
    /\ Silent(Error("InvalidInput")) /\ Silent(Error("Service")) /\ Silent(Error("Io"))
    /\ Silent(Error("dropped")) /\ Silent(Remote(0))
    /\ Error("dropped").is = "dropped" /\ Error("Io").is = "Io"
  BY DEF Silent, Error, Remote, KindOf, IsNotFound

LEMMA SilentStepsInv ==
    ASSUME IInv, Refuse \/ TakeMalformed \/ NoResponse \/ DropCall \/ CopyFails
    PROVE  IInv'
<1> USE DEF IInv, fileVars, remoteVars
<1>1. CASE Refuse
  <2>1. file' = Earlier /\ file' = file /\ unremoved' \in BOOLEAN
    BY <1>1 DEF Refuse, CopyInv, TypeOK
  <2> QED
    BY <1>1, <2>1, SilentErrors, FileHasVersion, LateStays, SilentReturn DEF Refuse
<1>2. CASE TakeMalformed
  <2>1. file' = Earlier /\ file' = file /\ unremoved' \in BOOLEAN
    BY <1>2 DEF TakeMalformed, CopyInv, TypeOK
  <2> QED
    BY <1>2, <2>1, SilentErrors, FileHasVersion, LateStays, SilentReturn DEF TakeMalformed
<1>3. CASE NoResponse
  <2>1. file' = Earlier /\ file' = file /\ unremoved' \in BOOLEAN
    BY <1>3 DEF NoResponse, CopyInv, TypeOK
  <2> QED
    BY <1>3, <2>1, SilentErrors, FileHasVersion, AbandonInv, SilentReturn DEF NoResponse
<1>4. CASE DropCall
  <2>1. file' = file /\ unremoved' \in BOOLEAN /\ HasVersion(file')
    BY <1>4, FileHasVersion DEF DropCall, TypeOK
  <2> QED
    BY <1>4, <2>1, SilentErrors, AbandonInv, SilentReturn DEF DropCall
<1>5. CASE CopyFails
  <2>1. /\ file' \in {NoFile, file} /\ unremoved' \in BOOLEAN
        /\ file' = NoFile \/ unremoved' = TRUE
        /\ HasVersion(file')
    <3>1. unremoved \in BOOLEAN /\ HasVersion(file) /\ HasVersion(NoFile)
      BY <1>5, FileHasVersion DEF TypeOK, CopyFails
    <3>2. CASE file' = NoFile /\ unremoved' = unremoved
      BY <3>1, <3>2
    <3>3. CASE unremoved' = TRUE /\ file' = file
      BY <3>1, <3>3
    <3> QED
      BY <1>5, <3>2, <3>3 DEF CopyFails
  <2> QED
    BY <1>5, <2>1, SilentErrors, LateStays, SilentReturn DEF CopyFails
<1> QED
  BY <1>1, <1>2, <1>3, <1>4, <1>5

LEMMA TakeReplyInv ==
    ASSUME IInv, TakeReply
    PROVE  IInv'
<1> USE DEF IInv, fileVars, remoteVars
<1>1. /\ UNCHANGED <<object, clock, seen, signed, late, call, replaced, file, unremoved>>
      /\ pc = "sent" /\ pc' = "idle" /\ reply' = NoReply /\ call.op # "download"
      /\ outcome'.error = NoError /\ outcome'.object = reply.object
      /\ reply.status \in {200, 204}
  BY DEF TakeReply, Return, Returned
<1>2. known' \in Values /\ outcome'.object \in Values /\ unremoved' \in BOOLEAN
  BY <1>1 DEF TakeReply, TypeOK, Values
<1>3. AnswerWasTrue'
  <2>1. ~IsNotFound(NoError) /\ NoError.is = "none"
    BY DEF IsNotFound, NoError
  <2>2. call.op \in Reads \union {"copy"} => Read
    BY <1>1 DEF ReplyInv, Reads
  <2>3. call.op = "put" => (\E o \in Here : o.etag = Mine) /\ (\E o \in replaced : Meets(o))
    BY <1>1 DEF ReplyInv
  <2>4. call.op = "delete" => NoObject \in seen
    BY <1>1 DEF ReplyInv
  <2> QED
    BY <1>1, <2>1, <2>2, <2>3, <2>4 DEF AnswerWasTrue, Read, Here, Meets
<1>4. DownloadIsWhole'
  BY <1>1 DEF DownloadIsWhole, Done
<1> QED
  BY <1>1, <1>2, <1>3, <1>4, LateStays, ReturnInv DEF IdleInv

LEMMA TakeErrorInv ==
    ASSUME IInv, TakeError
    PROVE  IInv'
<1> USE DEF IInv, fileVars, remoteVars
<1> DEFINE e == MapError(call.op, reply.status)
<1>1. /\ UNCHANGED <<object, clock, seen, signed, late, call, replaced, file, unremoved, known>>
      /\ pc = "sent" /\ pc' = "idle" /\ reply' = NoReply
      /\ outcome'.error = e /\ outcome'.object = NoObject
      /\ reply.status \in {304, 404, 412, 503} /\ file = Earlier
  BY DEF TakeError, Return, Returned, TypeOK, CopyInv
<1>2. known' \in Values /\ outcome'.object \in Values /\ unremoved' \in BOOLEAN
  BY <1>1 DEF TypeOK, Values
<1>3. /\ e.is # "none"
      /\ e.is # "Io" /\ e.is # "dropped"
      /\ IsNotFound(e) => reply.status = 404
      /\ e.is = "NotModified" => reply.status = 304
      /\ e.is = "PreconditionFailed" => reply.status = 412
  BY <1>1 DEF MapError, Error, Remote, KindOf, IsNotFound
<1>4. AnswerWasTrue'
  <2>1. e # NoError
    BY <1>3 DEF NoError
  <2>2. e.is \in {"NotModified", "PreconditionFailed"} =>
           \E o \in (IF call.op = "put" THEN seen ELSE Here) : ~Meets(o)
    BY <1>1, <1>3 DEF ReplyInv, Reads
  <2> HIDE DEF e
  <2> QED
    BY <1>1, <1>3, <2>1, <2>2 DEF AnswerWasTrue, ReplyInv, Here, Meets
<1>5. DownloadIsWhole'
  <2>1. Earlier.is # "download"
    BY DEF Earlier
  <2> HIDE DEF e
  <2> QED
    BY <1>1, <1>3, <2>1 DEF DownloadIsWhole, NoError
<1> QED
  BY <1>1, <1>2, <1>4, <1>5, LateStays, ReturnInv DEF IdleInv

----------------------------------------------------------------------------
(* The download *)

LEMMA CreateFileInv ==
    ASSUME IInv, CreateFile
    PROVE  IInv'
<1> USE DEF IInv, fileVars, remoteVars
<1>1. CASE file' = FileOf(reply.object.etag, 0) /\ pc' = "copy" /\ UNCHANGED <<outcome, reply>>
  <2>1. /\ UNCHANGED <<object, clock, seen, signed, late, call, replaced, known, unremoved>>
        /\ pc = "sent" /\ call.op = "download" /\ Read
    BY DEF CreateFile, ReplyInv, Reads
  <2>2. reply.object.etag \in Etags /\ 0 \in 0..Chunks
    BY <2>1 DEF Read, Here, TypeOK, Object
  <2>3. TypeOK'
    BY <1>1, <2>1, <2>2 DEF TypeOK
  <2>4. CopyInv'
    BY <1>1, <2>1, <2>2 DEF CopyInv, Read, Here, Meets
  <2>5. CallInv' /\ SeenInv' /\ ReplyInv'
    BY <1>1, <2>1 DEF CallInv, SeenInv, ReplyInv
  <2>6. IdleInv'
    BY <1>1 DEF IdleInv, AnswerWasTrue, DownloadIsWhole, Done
  <2> QED
    BY <2>3, <2>4, <2>5, <2>6
<1>2. CASE Return(Error("Io"), NoObject) /\ reply' = NoReply /\ UNCHANGED file
  <2>1. file' = Earlier /\ unremoved' \in BOOLEAN
    BY <1>2 DEF CreateFile, CopyInv, TypeOK
  <2> QED
    BY <1>2, <2>1, SilentErrors, FileHasVersion, LateStays, SilentReturn DEF CreateFile
<1> QED
  BY <1>1, <1>2 DEF CreateFile

LEMMA CopyChunkInv ==
    ASSUME IInv, CopyChunk
    PROVE  IInv'
<1> USE DEF IInv, fileVars, remoteVars
<1>1. /\ UNCHANGED <<object, clock, seen, signed, late, pc, call, reply, known, outcome,
                     unremoved, replaced>>
      /\ pc = "copy" /\ file.chunks < Chunks /\ file' = [file EXCEPT !.chunks = @ + 1]
  BY DEF CopyChunk
<1>2. PICK n \in 0..Chunks : file = FileOf(reply.object.etag, n)
  BY <1>1 DEF CopyInv
<1>3. n + 1 \in 0..Chunks /\ file' = FileOf(reply.object.etag, n + 1)
  BY <1>1, <1>2 DEF FileOf
<1>4. reply.object.etag \in Etags
  BY <1>1 DEF CopyInv, Read, Here, TypeOK, Object
<1>5. TypeOK'
  BY <1>1, <1>3, <1>4 DEF TypeOK
<1>6. CopyInv'
  BY <1>1, <1>3 DEF CopyInv, Read, Here, Meets
<1>7. CallInv' /\ SeenInv' /\ ReplyInv'
  BY <1>1 DEF CallInv, SeenInv, ReplyInv
<1>8. IdleInv'
  BY <1>1 DEF IdleInv, AnswerWasTrue, DownloadIsWhole, Done
<1> QED
  BY <1>5, <1>6, <1>7, <1>8

LEMMA DownloadSucceedsInv ==
    ASSUME IInv, DownloadSucceeds
    PROVE  IInv'
<1> USE DEF IInv, fileVars, remoteVars
<1>1. /\ UNCHANGED <<object, clock, seen, signed, late, call, replaced, file, unremoved>>
      /\ pc = "copy" /\ pc' = "idle" /\ reply' = NoReply /\ known' = reply.object
      /\ outcome'.error = NoError /\ outcome'.object = reply.object
      /\ file.chunks = Chunks
  BY DEF DownloadSucceeds, Return, Returned
<1>2. call.op = "download" /\ Read /\ file = FileOf(reply.object.etag, Chunks)
  BY <1>1 DEF CopyInv, FileOf
<1>3. known' \in Values /\ outcome'.object \in Values /\ unremoved' \in BOOLEAN
  BY <1>1 DEF TypeOK, Values
<1>4. AnswerWasTrue'
  <2>1. ~IsNotFound(NoError) /\ NoError.is = "none"
    BY DEF IsNotFound, NoError
  <2> QED
    BY <1>1, <1>2, <2>1 DEF AnswerWasTrue, Read, Here, Meets
<1>5. DownloadIsWhole'
  <2>1. NoError.is = "none"
    BY DEF NoError
  <2>2. HasVersion(file)
    BY <1>1, FileHasVersion
  <2> QED
    BY <1>1, <1>2, <2>1, <2>2 DEF DownloadIsWhole, HasVersion
<1> QED
  BY <1>1, <1>3, <1>4, <1>5, LateStays, ReturnInv DEF IdleInv

----------------------------------------------------------------------------
(* The invariant *)

LEMMA InitInv == Init => IInv
<1> SUFFICES ASSUME Init PROVE IInv
  OBVIOUS
<1>1. TypeOK
  <2>1. call \in Call
    BY DEF Init, Call, Ops, Reads, Conditions
  <2>2. reply.status = 0 /\ reply \in [status : {0}, object : {NoObject}]
    BY DEF Init, NoReply
  <2>3. outcome.object = NoObject
    BY DEF Init, Pending, Returned
  <2> QED
    <3>1. unremoved \in BOOLEAN
      BY DEF Init
    <3>2. replaced \subseteq Object \union {NoObject}
      BY DEF Init
    <3>3. file \in {Earlier, NoFile} /\ seen = {NoObject} /\ late \union signed = {}
      BY DEF Init
    <3>4. object = NoObject /\ known = NoObject /\ clock \in 0..MaxTime /\ pc = "idle"
      BY DEF Init
    <3> QED
      BY <2>1, <2>2, <2>3, <3>1, <3>2, <3>3, <3>4 DEF TypeOK
<1>2. CallInv
  BY DEF Init, CallInv, ConditionsOf, Conditions
<1>3. SeenInv /\ ReplyInv /\ CopyInv
  BY DEF Init, SeenInv, ReplyInv, CopyInv
<1>4. AnswerWasTrue
  BY DEF Init, AnswerWasTrue, Pending, Returned, Error, NoError, IsNotFound
<1>5. DownloadIsWhole
  BY DEF Init, DownloadIsWhole, Done
<1> QED
  BY <1>1, <1>2, <1>3, <1>4, <1>5 DEF IInv, IdleInv

THEOREM Invariance == Spec => []IInv
<1>1. IInv /\ [Next]_vars => IInv'
  <2> SUFFICES ASSUME IInv, [Next]_vars PROVE IInv'
    OBVIOUS
  <2>1. CASE CallStep
    BY <2>1, StartCallInv, PresignInv, ResendRequestInv, TakeReplyInv, TakeErrorInv,
       SilentStepsInv DEF CallStep
  <2>2. CASE DownloadStep
    BY <2>2, CreateFileInv, CopyChunkInv, SilentStepsInv, DownloadSucceedsInv
    DEF DownloadStep
  <2>3. CASE RemoteStep
    BY <2>3, HandleRequestInv, LateAndSignedInv DEF RemoteStep
  <2>4. CASE OthersStep
    BY <2>4, OthersInv
  <2>5. CASE UNCHANGED vars
    <3>1. TypeOK' /\ SeenInv' /\ HistoryGrows
      BY <2>5 DEF IInv, TypeOK, SeenInv, HistoryGrows, vars, remoteVars, fileVars
    <3> QED
      BY <2>5, <3>1, WorldInv DEF IInv, vars, remoteVars, fileVars
  <2> QED
    BY <2>1, <2>2, <2>3, <2>4, <2>5 DEF Next
<1> QED
  BY InitInv, <1>1, PTL DEF Spec

----------------------------------------------------------------------------
(* The properties *)

\* Types of every variable of ObjectCalls.
THEOREM TypeCorrect == Spec => []TypeOK
<1>1. IInv => TypeOK
  BY DEF IInv
<1> QED
  BY Invariance, <1>1, PTL

\* Each answer and each error of a call was true of the object during the call, and
\* an acknowledged put took effect then, on an object that met its condition.
THEOREM AnswersAreTrue == Spec => []AnswerWasTrue
<1>1. IInv => AnswerWasTrue
  BY DEF IInv, IdleInv
<1> QED
  BY Invariance, <1>1, PTL

\* download_file delivers one version whole, for bodies of any length; what a dropped
\* call leaves is of one version too, and an error before the body leaves the file.
THEOREM DownloadDeliversWhole == Spec => []DownloadIsWhole
<1>1. IInv => DownloadIsWhole
  BY DEF IInv, IdleInv
<1> QED
  BY Invariance, <1>1, PTL
=============================================================================
