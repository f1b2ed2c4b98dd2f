----------------------------- MODULE Completion -----------------------------
(***************************************************************************)
(* What the asynchronous operations of a runtime promise: a request that   *)
(* was accepted is answered at most once, with an answer that never        *)
(* changes, and closing the runtime answers every request that is still    *)
(* open, so nobody waits for an engine that is gone.  The watchers of      *)
(* handlePromise, the watchers of QuickJS futures and the deferred bridge  *)
(* requests of JavaScriptCore implement it.                                *)
(***************************************************************************)
CONSTANT Requests

VARIABLES
  status,  \* what each request has come to
  down     \* the runtime is disposed

vars == <<status, down>>

Answers == {"value", "error", "timeout"}
Status  == {"unused", "open", "cancelled"} \cup Answers

Init ==
  /\ status = [r \in Requests |-> "unused"]
  /\ down = FALSE

Open(r) ==
  /\ ~down /\ status[r] = "unused"
  /\ status' = [status EXCEPT ![r] = "open"]
  /\ UNCHANGED down

\* A request that cannot be served fails at once.
Refuse(r) ==
  /\ status[r] = "unused"
  /\ status' = [status EXCEPT ![r] = "error"]
  /\ UNCHANGED down

Answer(r, answer) ==
  /\ status[r] = "open"
  /\ status' = [status EXCEPT ![r] = answer]
  /\ UNCHANGED down

\* close() and dispose() cancel all that is open; dispose() is for ever.
CancelAll ==
  /\ status' = [r \in Requests |-> IF status[r] = "open" THEN "cancelled"
                                                        ELSE status[r]]
  /\ down' \in {down, TRUE}

Next ==
  \/ \E r \in Requests : Open(r) \/ Refuse(r)
  \/ \E r \in Requests, answer \in Answers : Answer(r, answer)
  \/ CancelAll

Spec == Init /\ [][Next]_vars

----------------------------------------------------------------------------
TypeOK == status \in [Requests -> Status] /\ down \in BOOLEAN

\* Nobody waits for a runtime that is gone.
NoneOpenWhenDown == down => \A r \in Requests : status[r] # "open"

\* An answer, the cancellation included, is final.
AnswersAreFinal ==
  [][\A r \in Requests :
       status[r] \notin {"unused", "open"} => status'[r] = status[r]]_vars
=============================================================================
