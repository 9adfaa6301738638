-------------------------- MODULE MCMultipartPlan --------------------------
(***************************************************************************)
(* MultipartPlan for TLC: limits small enough to try every file size and   *)
(* part size, one beyond each limit included.  The largest file needs more *)
(* parts of the smallest size than CountWidth can count, and less than the *)
(* largest number of the largest parts.                                    *)
(***************************************************************************)
EXTENDS MultipartPlan
=============================================================================
