----------------------------- MODULE JscBridge -----------------------------
(***************************************************************************)
(* The bridge of JavascriptCoreRuntime                                     *)
(* (lib/javascriptcore/jscore_runtime.dart): requests that JavaScript      *)
(* makes with sendMessage to an asynchronous Dart channel, answered by the *)
(* handler's future, by the timeout of the channel or by dispose(), and    *)
(* the reference counts (_protectedValues) that keep JavaScript objects    *)
(* alive for pending requests, for the local context and for the other     *)
(* callers of retainValue.                                                 *)
(*                                                                         *)
(* Settling a promise runs its reactions before the call returns, and a    *)
(* channel handler runs inside the JavaScript that called it; both can     *)
(* reach every operation of the runtime, dispose() included.  So a         *)
(* settlement and a call are two steps each, and at[r] stands between.     *)
(***************************************************************************)
EXTENDS Naturals, FiniteSets

CONSTANTS Requests,   \* calls of sendMessage that return a promise
          Objects,    \* other JavaScript objects that Dart keeps alive
          Keys,       \* keys of the local context
          Nothing,    \* the local context has no value for a key
          MaxHeld     \* bound: retainValue calls not yet released, per object

ASSUME BoundsAssumption == MaxHeld \in Nat
ASSUME PointersAssumption ==
  /\ Requests \cap Objects = {}
  /\ Nothing \notin Requests \cup Objects
ASSUME FiniteAssumption == IsFiniteSet(Keys)

VARIABLES
  active,     \* isRuntimeActive
  at,         \* where each request stands
  pending,    \* _pendingRequests
  timers,     \* requests whose timeout Timer is live and registered
  future,     \* the future that the channel handler returned
  promise,    \* the promise JavaScript got, and how it was settled
  verdict,    \* what a request was answered with
  count,      \* _protectedValues, from pointer to count; 0: not there
  local,      \* _localContext
  held        \* retainValue calls of handlePromise and others, not yet released

requestVars == <<at, pending, timers, future, promise, verdict>>
holderVars  == <<local, held>>
vars == <<active, requestVars, count, holderVars>>

\* A request stands for its resolve and its reject function, which are always
\* retained and released together.
Pointers == Requests \cup Objects

Init ==
  /\ active = TRUE
  /\ at = [r \in Requests |-> "unused"]
  /\ pending = {} /\ timers = {}
  /\ future = [r \in Requests |-> "none"]
  /\ promise = [r \in Requests |-> "none"]
  /\ verdict = [r \in Requests |-> "none"]
  /\ count = [p \in Pointers |-> 0]
  /\ local = [k \in Keys |-> Nothing]
  /\ held = [p \in Objects |-> 0]

----------------------------------------------------------------------------
\* The Bug... definitions are mistakes the code could contain, which show that
\* a property can fail; no specification uses them.

\* _retainValue and _releaseValue; a pointer that is not there is left alone.
BugRetained(c, p) == [c EXCEPT ![p] = 1]
Retained(c, p)    == [c EXCEPT ![p] = @ + 1]
BugReleased(c, p) == [c EXCEPT ![p] = @ - 1]
Released(c, p)    == IF c[p] = 0 THEN c ELSE [c EXCEPT ![p] = @ - 1]

\* setLocalContextValue retains the new value, then releases the old one.
SetLocal(k, p) ==
  /\ active
  /\ local' = [local EXCEPT ![k] = p]
  /\ LET c == Retained(count, p)
     IN  count' = IF local[k] = Nothing THEN c ELSE Released(c, local[k])
  /\ UNCHANGED <<active, requestVars, held>>

RemoveLocal(k) ==
  /\ active
  /\ local[k] # Nothing
  /\ local' = [local EXCEPT ![k] = Nothing]
  /\ count' = Released(count, local[k])
  /\ UNCHANGED <<active, requestVars, held>>

\* clearLocalContext releases a value once for every key that holds it.
KeysOf(p) == {k \in Keys : local[k] = p}
ClearLocal ==
  /\ \E k \in Keys : local[k] # Nothing
  /\ local' = [k \in Keys |-> Nothing]
  /\ count' = [p \in Pointers |->
                 IF Cardinality(KeysOf(p)) >= count[p]
                 THEN 0 ELSE count[p] - Cardinality(KeysOf(p))]
  /\ UNCHANGED <<active, requestVars, held>>

\* retainValue and the releaseValue that goes with it, which may come after
\* dispose().
Retain(p) ==
  /\ active
  /\ held[p] < MaxHeld
  /\ held' = [held EXCEPT ![p] = @ + 1]
  /\ count' = Retained(count, p)
  /\ UNCHANGED <<active, requestVars, local>>

Release(p) ==
  /\ held[p] > 0
  /\ held' = [held EXCEPT ![p] = @ - 1]
  /\ count' = Released(count, p)
  /\ UNCHANGED <<active, requestVars, local>>

----------------------------------------------------------------------------
\* JavaScript calls sendMessage; the channel handler starts.
Call(r) ==
  /\ active
  /\ at[r] = "unused"
  /\ at' = [at EXCEPT ![r] = "calling"]
  /\ UNCHANGED <<active, pending, timers, future, promise, verdict, count,
                 holderVars>>

\* The handler returned a future: _createPendingPromise.
BugTimersFor(r) == {}
TimersFor(r)    == {r}

CreatePending(r) ==
  /\ active
  /\ at[r] = "calling"
  /\ at' = [at EXCEPT ![r] = "open"]
  /\ count' = Retained(count, r)
  /\ pending' = pending \cup {r}
  /\ timers' = timers \cup TimersFor(r)
  /\ future' = [future EXCEPT ![r] = "running"]
  /\ promise' = [promise EXCEPT ![r] = "pending"]
  /\ UNCHANGED <<active, verdict, holderVars>>

\* The call fails: the channel is unknown, the handler throws, or no promise can
\* be made, as when the handler disposed the runtime.  What _createPendingPromise
\* had done so far is undone.
CallFails(r) ==
  /\ at[r] = "calling"
  /\ at' = [at EXCEPT ![r] = "done"]
  /\ verdict' = [verdict EXCEPT ![r] = "error"]
  /\ UNCHANGED <<active, pending, timers, future, promise, count, holderVars>>

\* Dart microtasks and Timers run when no settlement or call is on the stack.
Quiet == \A r \in Requests : at[r] \notin {"calling", "settling"}

\* _claimPending: only one of the answers finds the request pending.
BugClaimable(r) == TRUE
Claimable(r)    == r \in pending

\* A claimed request is settled in JavaScript, whose reactions run now; a promise
\* is settled once, whatever is called again.
Settle(r, answer) ==
  /\ at' = [at EXCEPT ![r] = "settling"]
  /\ pending' = pending \ {r}
  /\ timers' = timers \ {r}
  /\ verdict' = [verdict EXCEPT ![r] = answer]
  /\ promise' = [promise EXCEPT ![r] =
                   IF @ # "pending" THEN @
                   ELSE IF answer = "value" THEN "resolved" ELSE "rejected"]

\* The handler's future completes, with a value that encodes as JSON or with an
\* error (a value that does not encode is one): a late answer finds nothing to
\* claim.
FutureCompletes(r, answer) ==
  /\ Quiet
  /\ future[r] = "running"
  /\ future' = [future EXCEPT ![r] = "completed"]
  /\ IF Claimable(r) THEN Settle(r, answer)
                     ELSE UNCHANGED <<at, pending, timers, verdict, promise>>
  /\ UNCHANGED <<active, count, holderVars>>

\* The timeout Timer of the channel fires.
TimeOut(r) ==
  /\ Quiet
  /\ r \in timers
  /\ IF Claimable(r) THEN Settle(r, "timeout")
                     ELSE /\ timers' = timers \ {r}
                          /\ UNCHANGED <<at, pending, verdict, promise>>
  /\ UNCHANGED <<active, future, count, holderVars>>

\* The reactions are through: the finally block releases resolve and reject.
EndSettle(r) ==
  /\ at[r] = "settling"
  /\ at' = [at EXCEPT ![r] = "done"]
  /\ count' = Released(count, r)
  /\ UNCHANGED <<active, pending, timers, future, promise, verdict, holderVars>>

----------------------------------------------------------------------------
\* dispose(), as an event or from JavaScript on the stack.  The runtime is out
\* of _runtimesByContext before the pending promises are rejected, so their
\* reactions reach no handler; then every count goes, whoever holds it.
BugCancelled == {}
Cancelled    == pending

Dispose ==
  /\ active
  /\ active' = FALSE
  /\ at' = [r \in Requests |-> IF r \in Cancelled THEN "done" ELSE at[r]]
  /\ verdict' = [r \in Requests |->
                   IF r \in Cancelled THEN "cancelled" ELSE verdict[r]]
  /\ promise' = [r \in Requests |->
                   IF r \in Cancelled THEN "rejected" ELSE promise[r]]
  /\ pending' = pending \ Cancelled
  /\ timers' = {}
  /\ local' = [k \in Keys |-> Nothing]
  /\ count' = [p \in Pointers |-> 0]
  /\ UNCHANGED <<future, held>>

Next ==
  \/ \E k \in Keys, p \in Objects : SetLocal(k, p)
  \/ \E k \in Keys : RemoveLocal(k)
  \/ ClearLocal
  \/ \E p \in Objects : Retain(p) \/ Release(p)
  \/ \E r \in Requests :
       \/ Call(r) \/ CreatePending(r) \/ CallFails(r)
       \/ \E answer \in {"value", "error"} : FutureCompletes(r, answer)
       \/ TimeOut(r) \/ EndSettle(r)
  \/ Dispose

\* Handlers and reactions return, and the event loop gives every live Timer its
\* turn.  Nothing is assumed of the futures of the handlers.
Fairness ==
  \A r \in Requests :
    /\ WF_vars(CreatePending(r) \/ CallFails(r))
    /\ WF_vars(EndSettle(r)) /\ SF_vars(TimeOut(r))

Spec == Init /\ [][Next]_vars
FairSpec == Spec /\ Fairness

----------------------------------------------------------------------------
TypeOK ==
  /\ active \in BOOLEAN
  /\ at \in [Requests -> {"unused", "calling", "open", "settling", "done"}]
  /\ pending \subseteq Requests /\ timers \subseteq Requests
  /\ future \in [Requests -> {"none", "running", "completed"}]
  /\ promise \in [Requests -> {"none", "pending", "resolved", "rejected"}]
  /\ verdict \in [Requests -> {"none", "value", "error", "timeout", "cancelled"}]
  /\ count \in [Pointers -> Nat]
  /\ local \in [Keys -> Objects \cup {Nothing}]
  /\ held \in [Objects -> 0 .. MaxHeld]

\* While the runtime is active, an object is protected exactly as often as
\* somebody counts on it: too few lets the collector take it, too many leaks it.
\* Afterwards nothing is protected, whoever still releases.
CountsMatchHolders ==
  /\ \A p \in Objects :
       count[p] = IF active THEN Cardinality(KeysOf(p)) + held[p] ELSE 0
  /\ \A r \in Requests :
       count[r] = IF active /\ at[r] \in {"open", "settling"} THEN 1 ELSE 0

\* A request is pending, with a live Timer to end it, from the moment its
\* promise exists until an answer, a timeout or dispose() claims it; then the
\* promise that JavaScript holds is settled, and settled as it was answered.
PromisesMatchRequests ==
  /\ pending = {r \in Requests : promise[r] = "pending"}
  /\ pending = {r \in Requests : at[r] = "open"}
  /\ timers = pending
  /\ \A r \in Requests :
       promise[r] \in {"resolved", "rejected"} =>
         (promise[r] = "resolved" <=> verdict[r] = "value")

\* A request ends, even if its handler's future never completes.
RequestsEnd == \A r \in Requests : at[r] = "open" ~> at[r] = "done"

\* The bridge keeps the promise of Completion: of a timeout, a late answer and
\* dispose() one wins, for good, and no request outlives the runtime.
Answered == INSTANCE Completion WITH
  down   <- ~active,
  status <- [r \in Requests |->
               IF verdict[r] # "none" THEN verdict[r]
               ELSE IF at[r] = "open" THEN "open" ELSE "unused"]
ImplementsCompletion == Answered!Spec
=============================================================================
