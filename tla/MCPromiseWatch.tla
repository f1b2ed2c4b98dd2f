--------------------------- MODULE MCPromiseWatch ---------------------------
(***************************************************************************)
(* PromiseWatch for TLC.  Two watchers share the table: one completes,     *)
(* times out or throws while the other registers, polls or cleans up; the  *)
(* proofs cover any number.                                                *)
(***************************************************************************)
EXTENDS PromiseWatch

CONSTANTS w1, w2
MCWatchers == {w1, w2}
=============================================================================
