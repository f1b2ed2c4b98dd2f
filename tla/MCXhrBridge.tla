---------------------------- MODULE MCXhrBridge -----------------------------
(***************************************************************************)
(* XhrBridge for TLC.  Three sends of two objects and two enableXhr are    *)
(* what it takes for a reply from before the second enableXhr to take the  *)
(* callback of a request whose number is then free for a third; one lost   *)
(* send is enough to leave a callback behind and to have its object        *)
(* finished by the reply to an earlier send.                               *)
(***************************************************************************)
EXTENDS XhrBridge

CONSTANTS x1, x2
MCObjects     == {x1, x2}
MCMaxSends    == 3
MCMaxLost     == 1
MCMaxInstalls == 2
MCMaxCloses   == 1
=============================================================================
