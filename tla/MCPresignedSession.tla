------------------------- MODULE MCPresignedSession -------------------------
(***************************************************************************)
(* PresignedSession for TLC: three parts on pages of one, so that a page   *)
(* is skipped, repeated or changed between two others; two bodies, one of  *)
(* the planned length, so that either can replace the other; one restart,  *)
(* so that a completion left behind meets a later call.                    *)
(***************************************************************************)
EXTENDS PresignedSession
=============================================================================
