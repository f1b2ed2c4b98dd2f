---------------------------- MODULE MCQjsPromise ----------------------------
(***************************************************************************)
(* QjsPromise for TLC.  Three promises give one that follows another while *)
(* a third reacts; p1 and p2 can follow each other, and p1 can follow once *)
(* more when what it followed has passed on a thenable; two reactions can  *)
(* be out of order.                                                        *)
(***************************************************************************)
EXTENDS QjsPromise, TLC

CONSTANTS p1, p2, p3
MCPromises     == {p1, p2, p3}
MCMaxPairs     == p1 :> 3 @@ p2 :> 2 @@ p3 :> 1
MCMaxReactions == 2
=============================================================================
