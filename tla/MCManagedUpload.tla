-------------------------- MODULE MCManagedUpload --------------------------
(***************************************************************************)
(* ManagedUpload for TLC.                                                  *)
(*                                                                         *)
(* ManagedUploadSafety.cfg: three parts and two slots, so that a part      *)
(* waits, one sleeps and one is uploaded; two attempts, the fewest with a  *)
(* retry and a last attempt; two versions of the file; two calls, so that  *)
(* a resumed call meets late requests of the first.                        *)
(* ManagedUploadLiveness.cfg: one slot and two parts, under fairness.      *)
(* ManagedUploadOrphan.cfg: one part suffices to lose the session.         *)
(***************************************************************************)
EXTENDS ManagedUpload
=============================================================================
