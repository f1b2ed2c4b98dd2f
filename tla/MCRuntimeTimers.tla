-------------------------- MODULE MCRuntimeTimers --------------------------
(***************************************************************************)
(* RuntimeTimers for TLC.  Three timers per context let one be created     *)
(* after another has fired or been cleared while a third is live; three    *)
(* contexts let an id be used again after a close(), twice; two jobs give  *)
(* a drain that goes on and one that stops with work left.                 *)
(***************************************************************************)
EXTENDS RuntimeTimers

MCTimers   == 3
MCSessions == 3
MCJobs     == 2
=============================================================================
