---------------------------- MODULE MCJscBridge -----------------------------
(***************************************************************************)
(* JscBridge for TLC.  Two requests give one that is settled while the     *)
(* other is called or open; two objects and two keys give an object under  *)
(* both keys, under one, and one that replaces another.                    *)
(***************************************************************************)
EXTENDS JscBridge

CONSTANTS r1, r2, o1, o2, k1, k2
MCRequests == {r1, r2}
MCObjects  == {o1, o2}
MCKeys     == {k1, k2}
MCMaxHeld  == 2
=============================================================================
