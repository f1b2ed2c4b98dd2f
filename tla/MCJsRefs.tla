------------------------------ MODULE MCJsRefs ------------------------------
(***************************************************************************)
(* JsRefs for TLC.  Two calls give a call inside a handler, one inside the *)
(* settlement of another, and two pending futures; an export, given again  *)
(* after it was collected, shares its function with the application; two   *)
(* engines let an old call meet the next engine.                           *)
(***************************************************************************)
EXTENDS JsRefs

CONSTANTS c1, c2, e1, v1
MCCalls      == {c1, c2}
MCExports    == {e1}
MCResults    == {v1}
MCMaxEngines == 2
MCMaxKept    == 1
=============================================================================
