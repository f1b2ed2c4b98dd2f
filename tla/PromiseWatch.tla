---------------------------- MODULE PromiseWatch ----------------------------
(***************************************************************************)
(* handlePromise on JavaScriptCore: the polling branch of _doHandlePromise *)
(* (lib/extensions/handle_promises.dart) with the JavaScript table it      *)
(* shares with all other watchers, the retained promise, the poll and      *)
(* timeout Timers and the dispose callback, against dispose() of the       *)
(* runtime (lib/javascriptcore/jscore_runtime.dart).                       *)
(*                                                                         *)
(* A handler is one Dart event, but evaluate() and callFunction() run the  *)
(* JavaScript that is due before they return, and that JavaScript reaches  *)
(* Dart channel handlers that may settle a promise or call dispose().      *)
(* So a handler is cut where it calls into the engine: at[w] says where    *)
(* the handler that works for w stands.                                    *)
(***************************************************************************)
EXTENDS Integers, FiniteSets

CONSTANTS Watchers,   \* calls of handlePromise, each with a promise of its own
          Nobody      \* no watcher

ASSUME NobodyAssumption == Nobody \notin Watchers
ASSUME FiniteAssumption == IsFiniteSet(Watchers)

VARIABLES
  active,      \* isRuntimeActive
  promise,     \* state of the JavaScript promise each watcher is about
  at,          \* where the work for each watcher stands
  index,       \* idxPromise
  count,       \* FLUTTER_NATIVEJS_PENDING_PROMISES_COUNT + 1
  table,       \* FLUTTER_NATIVEJS_PENDING_PROMISES, from index to watcher
  retained,    \* watchers that hold a reference to their promise
  onDispose,   \* watchers whose dispose callback is registered
  polls,       \* watchers whose poll Timer is live
  timeouts,    \* watchers whose timeout Timer is live
  verdict      \* what a watcher is completed with, and by whose promise

handlerVars == <<index, count, retained, onDispose, polls, timeouts, verdict>>
vars == <<active, promise, at, table, handlerVars>>

Places  == {"unused", "registering", "waiting", "polling", "cleaning", "done"}
Indexes == 0 .. Cardinality(Watchers) - 1
Pending == [kind |-> "none", of |-> Nobody]

\* Every other event waits while a handler is on the stack; only a call of
\* handlePromise can come from JavaScript that a handler runs, and returns
\* before that handler goes on.
Quiet == \A w \in Watchers : at[w] \notin {"registering", "polling", "cleaning"}
OnTop == \A w \in Watchers : at[w] # "registering"

Init ==
  /\ active = TRUE
  /\ promise = [w \in Watchers |-> "pending"]
  /\ at = [w \in Watchers |-> "unused"]
  /\ index = [w \in Watchers |-> -1]
  /\ count = 0
  /\ table = [i \in Indexes |-> Nobody]
  /\ retained = {} /\ onDispose = {} /\ polls = {} /\ timeouts = {}
  /\ verdict = [w \in Watchers |-> Pending]

----------------------------------------------------------------------------
\* JavaScript settles a promise: an event of its own, or code that runs while
\* a handler is in the engine.
Settle(w, how) ==
  /\ active
  /\ promise[w] = "pending"
  /\ promise' = [promise EXCEPT ![w] = how]
  /\ UNCHANGED <<active, at, table, handlerVars>>

\* The Bug... definitions are mistakes the code could contain, which show that
\* a property can fail; no specification uses them.
BugCountTwice == count + 1
BugSameIndex  == 0
NextIndex     == count

\* handlePromise retains the promise and registers it in the table.
Register(w) ==
  /\ OnTop /\ active
  /\ at[w] = "unused"
  /\ at' = [at EXCEPT ![w] = "registering"]
  /\ retained' = retained \cup {w}
  /\ index' = [index EXCEPT ![w] = NextIndex]
  /\ table' = [table EXCEPT ![NextIndex] = w]
  /\ count' = count + 1
  /\ UNCHANGED <<active, promise, onDispose, polls, timeouts, verdict>>

\* The registration throws in JavaScript, before the table has an entry: the
\* reference goes and handlePromise throws.
RegisterFails(w) ==
  /\ OnTop /\ active
  /\ at[w] = "unused"
  /\ at' = [at EXCEPT ![w] = "done"]
  /\ count' = count + 1
  /\ verdict' = [verdict EXCEPT ![w] = [kind |-> "error", of |-> Nobody]]
  /\ UNCHANGED <<active, promise, table, index, retained, onDispose, polls,
                 timeouts>>

\* Back in Dart: the dispose callback and the Timers.  They are refused, and
\* handlePromise throws, when the registration led to dispose().
Attach(w, timed) ==
  /\ at[w] = "registering"
  /\ IF active
     THEN /\ at' = [at EXCEPT ![w] = "waiting"]
          /\ onDispose' = onDispose \cup {w}
          /\ polls' = polls \cup {w}
          /\ timeouts' = IF timed THEN timeouts \cup {w} ELSE timeouts
          /\ UNCHANGED <<retained, verdict>>
     ELSE /\ at' = [at EXCEPT ![w] = "done"]
          /\ retained' = retained \ {w}
          /\ verdict' = [verdict EXCEPT ![w] = [kind |-> "error", of |-> Nobody]]
          /\ UNCHANGED <<onDispose, polls, timeouts>>
  /\ UNCHANGED <<active, promise, table, index, count>>

----------------------------------------------------------------------------
\* The first half of cleanup(), up to the JavaScript that drops the entry.
\* result is what completes the watcher when cleanup() is through.
BugUnlessCompleted(w) == TRUE
UnlessCompleted(w)    == verdict[w] = Pending

StartCleanup(w, result) ==
  IF UnlessCompleted(w)
  THEN /\ at' = [at EXCEPT ![w] = "cleaning"]
       /\ verdict' = [verdict EXCEPT ![w] = result]
       /\ onDispose' = onDispose \ {w}
       /\ table' = IF active THEN [table EXCEPT ![index[w]] = Nobody] ELSE table
  ELSE /\ at' = [at EXCEPT ![w] = "done"]
       /\ UNCHANGED <<verdict, onDispose, table>>

\* The poll Timer ticks: executePendingJob runs the JavaScript that is due.
Tick(w) ==
  /\ Quiet
  /\ w \in polls
  /\ at' = [at EXCEPT ![w] = "polling"]
  /\ UNCHANGED <<active, promise, table, handlerVars>>

\* The tick looks the promise up by index.  An evaluate() that throws, because
\* of a dispose() on the way, is an error as well as a missing entry is.
Answer(w) ==
  LET of == table[index[w]]
  IN  IF ~active \/ of = Nobody
      THEN [kind |-> "error", of |-> Nobody]
      ELSE [kind |-> IF promise[of] = "fulfilled" THEN "value" ELSE "error",
            of   |-> of]

BugIsPending(p) == p # "fulfilled"
IsPending(p)    == p = "pending"

Observe(w) ==
  /\ at[w] = "polling" /\ OnTop
  /\ IF /\ active /\ table[index[w]] # Nobody
        /\ IsPending(promise[table[index[w]]])
     THEN /\ at' = [at EXCEPT ![w] = "waiting"]
          /\ UNCHANGED <<verdict, onDispose, table>>
     ELSE StartCleanup(w, Answer(w))
  /\ UNCHANGED <<active, promise, index, count, retained, polls, timeouts>>

\* The timeout Timer fires.
TimeOut(w) ==
  /\ Quiet
  /\ w \in timeouts
  /\ StartCleanup(w, [kind |-> "timeout", of |-> Nobody])
  /\ timeouts' = timeouts \ {w}
  /\ UNCHANGED <<active, promise, index, count, retained, polls>>

\* The rest of cleanup(): the Timers and the reference; then the completion.
BugStopped(w) == {}
Stopped(w)    == {w}

EndCleanup(w) ==
  /\ at[w] = "cleaning" /\ OnTop
  /\ at' = [at EXCEPT ![w] = "done"]
  /\ polls' = polls \ Stopped(w)
  /\ timeouts' = timeouts \ {w}
  /\ retained' = retained \ {w}
  /\ UNCHANGED <<active, promise, table, index, count, onDispose, verdict>>

----------------------------------------------------------------------------
\* dispose(), as an event or from JavaScript that a handler runs: it cancels
\* the registered Timers, runs the dispose callbacks, whose cleanup() leaves
\* the table alone, and releases every retained value.  A tick that is on the
\* stack goes on.
Dispose ==
  /\ active
  /\ active' = FALSE
  /\ polls' = {} /\ timeouts' = {} /\ onDispose' = {} /\ retained' = {}
  /\ verdict' = [w \in Watchers |->
                   IF w \in onDispose THEN [kind |-> "cancelled", of |-> Nobody]
                                      ELSE verdict[w]]
  /\ at' = [w \in Watchers |-> IF at[w] = "waiting" THEN "done" ELSE at[w]]
  /\ UNCHANGED <<promise, table, index, count>>

\* enableHandlePromises once more: the table and the count start afresh.  The
\* application does it before it watches anything.
ReEnable ==
  /\ active /\ count > 0
  /\ \A w \in Watchers : at[w] \in {"unused", "done"}
  /\ table' = [i \in Indexes |-> Nobody]
  /\ count' = 0
  /\ UNCHANGED <<active, promise, at, index, retained, onDispose, polls,
                 timeouts, verdict>>

Next ==
  \/ \E w \in Watchers, how \in {"fulfilled", "rejected"} : Settle(w, how)
  \/ \E w \in Watchers : Register(w) \/ RegisterFails(w)
  \/ \E w \in Watchers, timed \in BOOLEAN : Attach(w, timed)
  \/ \E w \in Watchers : Tick(w) \/ Observe(w) \/ TimeOut(w) \/ EndCleanup(w)
  \/ Dispose \/ ReEnable

\* Handlers run to their end, and the event loop gives every live Timer turns.
Fairness ==
  \A w \in Watchers :
    /\ WF_vars(\E timed \in BOOLEAN : Attach(w, timed))
    /\ WF_vars(Observe(w)) /\ WF_vars(EndCleanup(w))
    /\ SF_vars(Tick(w)) /\ SF_vars(TimeOut(w))

Spec == Init /\ [][Next]_vars
FairSpec == Spec /\ Fairness

----------------------------------------------------------------------------
Kinds == {"none", "value", "error", "timeout", "cancelled"}

TypeOK ==
  /\ active \in BOOLEAN
  /\ promise \in [Watchers -> {"pending", "fulfilled", "rejected"}]
  /\ at \in [Watchers -> Places]
  /\ index \in [Watchers -> Indexes \cup {-1}]
  /\ count \in 0 .. Cardinality(Watchers)
  /\ table \in [Indexes -> Watchers \cup {Nobody}]
  /\ retained \subseteq Watchers /\ onDispose \subseteq Watchers
  /\ polls \subseteq Watchers /\ timeouts \subseteq Watchers
  /\ verdict \in [Watchers -> [kind : Kinds, of : Watchers \cup {Nobody}]]

\* A watcher is answered by its own promise, although the poll looks it up by
\* an index in a table that all share.
OwnAnswer ==
  \A w \in Watchers :
    /\ verdict[w].of \in {w, Nobody}
    /\ verdict[w].kind = "value" => promise[w] = "fulfilled" /\ verdict[w].of = w

\* What a waiting watcher lives on: its reference, its entry, its Timer and the
\* callback that ends the wait when the runtime goes.
WaitersAreServed ==
  \A w \in Watchers :
    at[w] = "waiting" =>
      /\ active
      /\ w \in retained \cap polls \cap onDispose
      /\ table[index[w]] = w

\* A completed watcher leaves nothing behind: no Timer, no dispose callback, no
\* reference, and no entry while the table lives.
NothingLeftBehind ==
  \A w \in Watchers :
    at[w] = "done" =>
      /\ w \notin retained \cup polls \cup timeouts \cup onDispose
      /\ active => \A i \in Indexes : table[i] # w

\* So a watcher holds what it needs exactly as long as it needs it.
HoldsWhileWaiting == WaitersAreServed /\ NothingLeftBehind

\* A wait ends when the promise is settled, or the time is up.
SettledIsAnswered ==
  \A w \in Watchers :
    (at[w] = "waiting" /\ (promise[w] # "pending" \/ w \in timeouts))
      ~> at[w] = "done"

\* handlePromise keeps the promise of Completion: one final answer, and a
\* cancellation for all who wait when the runtime is disposed.
Answered == INSTANCE Completion WITH
  Requests <- Watchers,
  down     <- ~active,
  status   <- [w \in Watchers |->
                 IF verdict[w] # Pending THEN verdict[w].kind
                 ELSE IF at[w] \in {"unused", "registering"} THEN "unused"
                 ELSE "open"]
ImplementsCompletion == Answered!Spec
=============================================================================
