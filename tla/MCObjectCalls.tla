--------------------------- MODULE MCObjectCalls ---------------------------
(***************************************************************************)
(* ObjectCalls for TLC: two contents of other writers, so that one can be  *)
(* put again after the other, and enough writes for a late one to find a   *)
(* third.  The contents are interchangeable.                               *)
(***************************************************************************)
EXTENDS ObjectCalls, TLC

Symmetry == Permutations(Theirs)
=============================================================================
