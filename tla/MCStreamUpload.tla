--------------------------- MODULE MCStreamUpload ---------------------------
(***************************************************************************)
(* StreamUpload for TLC.                                                   *)
(*                                                                         *)
(* StreamUpload.cfg: six parts fill every place of the pipeline (a channel *)
(* of two, two slots, the reader's buffer) and leave one behind it.        *)
(* StreamUploadBudget.cfg: a budget that validate() accepts and that       *)
(* leaves the channel its minimum of one place.                            *)
(***************************************************************************)
EXTENDS StreamUpload
=============================================================================
