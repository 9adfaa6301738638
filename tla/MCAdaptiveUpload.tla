-------------------------- MODULE MCAdaptiveUpload --------------------------
(***************************************************************************)
(* AdaptiveUpload for TLC: three versions, so that the file can change     *)
(* once before and once after the handle is opened or the first read, and  *)
(* two reads, the fewest that tear an object.                              *)
(***************************************************************************)
EXTENDS AdaptiveUpload
=============================================================================
