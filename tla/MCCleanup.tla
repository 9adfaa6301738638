----------------------------- MODULE MCCleanup -----------------------------
(***************************************************************************)
(* Cleanup for TLC: three keys, with up to two uploads each, on pages of   *)
(* one, so that the uploads of a key go on in the next page; batches of    *)
(* two, so that one is full, one is not, and an answer can say different   *)
(* things of two keys.                                                     *)
(***************************************************************************)
EXTENDS Cleanup
=============================================================================
