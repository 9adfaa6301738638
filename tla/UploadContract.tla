--------------------------- MODULE UploadContract ---------------------------
(***************************************************************************)
(* What a caller of a resumable upload may rely on, without parts,         *)
(* attempts, files or requests: the life of one remote session and what    *)
(* the caller has been told of it.  A session is published or discarded at *)
(* most once and never both, and each report is true when it is made:      *)
(* "published" and "discarded" of a session that is, and an error that     *)
(* says neither leaves the caller a handle on a session that is not gone.  *)
(***************************************************************************)

VARIABLES
    session,    \* the remote session: none, open, published or discarded
    report,     \* what the last call said: nothing, published, discarded or unsettled
    calling,    \* a call is under way
    handle      \* the caller can name the session in a later call

vars == <<session, report, calling, handle>>

TypeOK ==
    /\ session \in {"none", "open", "published", "discarded"}
    /\ report \in {"nothing", "published", "discarded", "unsettled"}
    /\ calling \in BOOLEAN
    /\ handle \in BOOLEAN

Init ==
    /\ session = "none"
    /\ report = "nothing"
    /\ calling = FALSE
    /\ handle = FALSE

\* The first call, or a later one on the session the caller has a handle on.
Begin ==
    /\ ~calling
    /\ handle \/ (session = "none" /\ report = "nothing")
    /\ calling' = TRUE
    /\ report' = "nothing"
    /\ UNCHANGED <<session, handle>>

Open ==
    /\ calling
    /\ session = "none"
    /\ session' = "open"
    /\ UNCHANGED <<report, calling, handle>>

\* Settling needs no call: a request of an earlier one may still be on its way.
Settle(end) ==
    /\ session = "open"
    /\ session' = end
    /\ UNCHANGED <<report, calling, handle>>

\* A call that settles the session says how, and only of one that is settled so.
Confirm(end) ==
    /\ calling
    /\ session = end
    /\ calling' = FALSE
    /\ report' = end
    /\ UNCHANGED <<session, handle>>

\* A call that fails never leaves an open session without a handle.
Fail ==
    /\ calling
    /\ calling' = FALSE
    /\ report' = "unsettled"
    /\ handle' \in {handle, TRUE}
    /\ session = "open" => handle'
    /\ UNCHANGED session

\* The caller dies: it learns nothing, and keeps the handle it had.
Vanish ==
    /\ calling
    /\ calling' = FALSE
    /\ UNCHANGED <<session, report, handle>>

Ends == {"published", "discarded"}

Next ==
    \/ Begin
    \/ Open
    \/ \E end \in Ends : Settle(end)
    \/ \E end \in Ends : Confirm(end)
    \/ Fail
    \/ Vanish

Spec == Init /\ [][Next]_vars

\* What a caller concludes from a report, at any time after it: the session ended as
\* was said, or, if the call failed and the session is open, there is a handle on it.
ReportHolds ==
    /\ report \in Ends => session = report
    /\ report = "unsettled" /\ session = "open" => handle

\* A session ends once, and no handle on it is ever lost.
EndsOnce ==
    [][/\ session \in Ends => session' = session
       /\ session # "none" => session' # "none"
       /\ handle => handle']_vars
=============================================================================
