------------------------- MODULE MCExecutionTimeout -------------------------
(***************************************************************************)
(* ExecutionTimeout for TLC.  Three nested entries, and a counter that takes *)
(* longer to its poll than the clock to the deadline, so that the two can  *)
(* meet in any order.                                                      *)
(***************************************************************************)
EXTENDS ExecutionTimeout

MCTimeout  == 2
MCPolls    == 3
MCDepth    == 3
MCMaxJobs  == 2
MCMaxSpent == 3
=============================================================================
