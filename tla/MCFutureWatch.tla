--------------------------- MODULE MCFutureWatch ----------------------------
(***************************************************************************)
(* FutureWatch for TLC.  Two watchers of one future or of two: reactions   *)
(* queue up behind each other, and one watcher ends while the other waits. *)
(***************************************************************************)
EXTENDS FutureWatch

CONSTANTS w1, w2, f1, f2
MCWatchers == {w1, w2}
MCFutures  == {f1, f2}
=============================================================================
