---------------------------- MODULE FutureWatch ----------------------------
(***************************************************************************)
(* handlePromise on QuickJS: _handleDartFuture                             *)
(* (lib/extensions/handle_promises.dart) on futures that _jsToDart         *)
(* (lib/quickjs/wrapper.dart) made of JavaScript promises, against close() *)
(* and dispose() of the runtime (lib/quickjs/quickjs_runtime2.dart).       *)
(*                                                                         *)
(* An answer travels: JavaScript settles the promise, a reaction waits in  *)
(* the engine's job queue until somebody drains it (the poll Timers do     *)
(* nothing else), the reaction completes the Dart future, and a microtask  *)
(* brings the result to the watcher.  Timeouts, close(), a second engine   *)
(* and dispose() can cut in between any two of these.                      *)
(***************************************************************************)
EXTENDS Naturals, Sequences, FiniteSets

CONSTANTS Watchers,   \* calls of handlePromise
          Futures,    \* Dart futures of JavaScript promises
          Nothing     \* a watcher that has no future yet

ASSUME NothingAssumption == Nothing \notin Futures

VARIABLES
  lifecycle,   \* of the runtime
  running,     \* what runs in the engine: nothing, jobs, or the drain of close()
  future,      \* where each future stands
  queue,       \* reactions in the job queue, by future
  at,          \* where each watcher stands
  of,          \* the future a watcher watches
  polls,       \* watchers whose poll Timer is live and registered
  timeouts,    \* watchers whose timeout Timer is live and registered
  onDispose,   \* watchers whose dispose callback is registered
  due,         \* watchers whose microtask is scheduled
  verdict,     \* what a watcher is completed with
  late         \* history: watchers that started after their future's engine was freed

engineVars  == <<lifecycle, running, future, queue>>
watcherVars == <<at, of, polls, timeouts, onDispose, due, verdict, late>>
vars == <<engineVars, watcherVars>>

\* How a future completes, and what else becomes of its reaction: its Dart
\* callback fails before it completes the future.
Outcomes == {"value", "unencodable", "error"}
Fates    == Outcomes \cup {"dropped"}
Active   == lifecycle = "active"
Idle     == running = "nothing"
\* Timers fire when the microtasks of the event before are through.
EventDue == Idle /\ due = {}

Init ==
  /\ lifecycle = "active"
  /\ running = "nothing"
  /\ future = [f \in Futures |-> "none"]
  /\ queue = <<>>
  /\ at = [w \in Watchers |-> "unused"]
  /\ of = [w \in Watchers |-> Nothing]
  /\ polls = {} /\ timeouts = {} /\ onDispose = {} /\ due = {} /\ late = {}
  /\ verdict = [w \in Watchers |-> "none"]

----------------------------------------------------------------------------
\* The engine.

\* A result is a promise: _jsToDart attaches a reaction to it and makes a future.
Create(f) ==
  /\ Active
  /\ future[f] = "none"
  /\ future' = [future EXCEPT ![f] = "pending"]
  /\ UNCHANGED <<lifecycle, running, queue, watcherVars>>

\* JavaScript, in a script or a job, settles the promise: its reaction is queued.
Settle(f) ==
  /\ Active \/ ~Idle
  /\ future[f] = "pending"
  /\ future' = [future EXCEPT ![f] = "queued"]
  /\ queue' = Append(queue, f)
  /\ UNCHANGED <<lifecycle, running, watcherVars>>

\* A poll Timer ticks.  Its check for an inactive runtime never helps: dispose()
\* cancels the Timer in the event that ends the runtime.
BugJobsRun == "nothing"
JobsRun    == "jobs"

Tick(w) ==
  /\ EventDue
  /\ w \in polls
  /\ running' = JobsRun
  /\ UNCHANGED <<lifecycle, future, queue, watcherVars>>

\* The application calls executePendingJob.
Dispatch ==
  /\ Active /\ Idle
  /\ running' = "jobs"
  /\ UNCHANGED <<lifecycle, future, queue, watcherVars>>

\* The next job completes its future; watchers that listen get a microtask.  Or it
\* fails and is used up with the future incomplete: the channel throws an error of
\* the conversion of the argument, or that completeError() does not take the null
\* of a rejection without a reason, to the engine.
Listeners(f) == {w \in Watchers : of[w] = f}

RunJob(fate) ==
  /\ ~Idle
  /\ queue # <<>>
  /\ queue' = Tail(queue)
  /\ future' = [future EXCEPT ![Head(queue)] = fate]
  /\ due' = IF fate = "dropped" THEN due ELSE due \cup Listeners(Head(queue))
  /\ UNCHANGED <<lifecycle, running, at, of, polls, timeouts, onDispose,
                 verdict, late>>

\* The drain ends, with jobs left when one that is not a reaction failed.
JobsEnd ==
  /\ running = "jobs"
  /\ running' = "nothing"
  /\ UNCHANGED <<lifecycle, future, queue, watcherVars>>

----------------------------------------------------------------------------
\* The watchers.

\* The Bug... definitions are mistakes the code could contain, which show that
\* a property can fail; no specification uses them.

\* handlePromise: the callback, the Timers and then() on the future, which
\* schedules a microtask at once if the future is complete.
Watch(w, f, timed) ==
  /\ Active
  /\ at[w] = "unused" /\ future[f] # "none"
  /\ at' = [at EXCEPT ![w] = "waiting"]
  /\ of' = [of EXCEPT ![w] = f]
  /\ onDispose' = onDispose \cup {w}
  /\ polls' = polls \cup {w}
  /\ timeouts' = IF timed THEN timeouts \cup {w} ELSE timeouts
  /\ due' = IF future[f] \in Outcomes THEN due \cup {w} ELSE due
  /\ late' = IF future[f] = "gone" THEN late \cup {w} ELSE late
  /\ UNCHANGED <<engineVars, verdict>>

\* cleanup() and the completion, for the watchers W; who is completed already is
\* left alone.
BugUncompleted(W) == W
Uncompleted(W)    == {w \in W : verdict[w] = "none"}
Stopped(W)        == W

Complete(W, answer) ==
  /\ verdict' = [w \in Watchers |->
                   IF w \in Uncompleted(W) THEN answer ELSE verdict[w]]
  /\ at' = [w \in Watchers |-> IF w \in Uncompleted(W) THEN "done" ELSE at[w]]
  /\ onDispose' = onDispose \ Uncompleted(W)
  /\ polls' = polls \ Stopped(Uncompleted(W))
  /\ timeouts' = timeouts \ Uncompleted(W)

\* The microtask: a result that jsonEncode refuses is an error.
BugEncoded(outcome) == outcome
Encoded(outcome)    == IF outcome = "value" THEN "value" ELSE "error"

Arrive(w) ==
  /\ Idle
  /\ w \in due
  /\ due' = due \ {w}
  /\ Complete({w}, Encoded(future[of[w]]))
  /\ UNCHANGED <<engineVars, of, late>>

TimeOut(w) ==
  /\ EventDue
  /\ w \in timeouts
  /\ Complete({w}, "timeout")
  /\ UNCHANGED <<engineVars, of, due, late>>

----------------------------------------------------------------------------
\* close() and dispose(): first the jobs that are due, whose futures complete ...
StartClose(then) ==
  /\ Active /\ Idle
  /\ lifecycle' = then
  /\ running' = "closing"
  /\ UNCHANGED <<future, queue, watcherVars>>

\* ... then every registered Timer is cancelled, the dispose callbacks complete
\* their watchers, and the engine is freed with the jobs and promises it has left.
BugCallbacks == {w \in onDispose : future[of[w]] = "pending"}
Callbacks    == onDispose

Unsettled    == {f \in Futures : future[f] \in {"pending", "queued", "dropped"}}

EndClose ==
  /\ running = "closing"
  /\ running' = "nothing"
  /\ lifecycle' = IF Active THEN "active" ELSE "disposed"
  /\ future' = [f \in Futures |-> IF f \in Unsettled THEN "gone" ELSE future[f]]
  /\ queue' = <<>>
  /\ verdict' = [w \in Watchers |->
                   IF w \in Uncompleted(Callbacks) THEN "cancelled"
                   ELSE verdict[w]]
  /\ at' = [w \in Watchers |-> IF w \in Uncompleted(Callbacks) THEN "done"
                                                               ELSE at[w]]
  /\ onDispose' = {} /\ polls' = {} /\ timeouts' = {}
  /\ UNCHANGED <<of, due, late>>

Next ==
  \/ \E f \in Futures : Create(f) \/ Settle(f)
  \/ \E w \in Watchers : Tick(w) \/ Arrive(w) \/ TimeOut(w)
  \/ \E w \in Watchers, f \in Futures, timed \in BOOLEAN : Watch(w, f, timed)
  \/ \E fate \in Fates : RunJob(fate)
  \/ Dispatch \/ JobsEnd \/ EndClose
  \/ \E then \in {"active", "disposing"} : StartClose(then)

\* JavaScript returns, a drain gets to the jobs that wait (one that stops early
\* has used up the job that failed), microtasks run, and the event loop gives
\* every live Timer its turns.
Fairness ==
  /\ WF_vars(JobsEnd) /\ WF_vars(EndClose)
  /\ SF_vars(\E fate \in Fates : RunJob(fate))
  /\ \A w \in Watchers : SF_vars(Arrive(w)) /\ SF_vars(Tick(w)) /\ SF_vars(TimeOut(w))

Spec == Init /\ [][Next]_vars
FairSpec == Spec /\ Fairness

----------------------------------------------------------------------------
Answers == {"value", "error", "timeout", "cancelled"}

TypeOK ==
  /\ lifecycle \in {"active", "disposing", "disposed"}
  /\ running \in {"nothing", "jobs", "closing"}
  /\ future \in [Futures -> {"none", "pending", "queued", "gone"} \cup Fates]
  /\ queue \in Seq(Futures)
  /\ at \in [Watchers -> {"unused", "waiting", "done"}]
  /\ of \in [Watchers -> Futures \cup {Nothing}]
  /\ polls \subseteq Watchers /\ timeouts \subseteq Watchers
  /\ onDispose \subseteq Watchers
  /\ due \subseteq Watchers /\ late \subseteq Watchers
  /\ verdict \in [Watchers -> {"none"} \cup Answers]

\* While a watcher waits it has the Timer that drives the engine for it and the
\* callback that ends the wait, and a completed future has its microtask on the
\* way; when it has ended it keeps no Timer and no callback.  The only watchers
\* that wait for an engine that was freed are those that were given a result of
\* the freed engine: close() leaves nobody behind, with jobs still queued or
\* microtasks on the way.
HoldsWhileWaiting ==
  \A w \in Watchers :
    /\ at[w] = "waiting" =>
         /\ lifecycle # "disposed"
         /\ w \in polls \cap onDispose
         /\ \/ w \in due \/ future[of[w]] \in {"pending", "queued", "dropped"}
            \/ future[of[w]] = "gone" /\ w \in late
    /\ at[w] # "waiting" => w \notin polls \cup timeouts \cup onDispose

\* The watcher's own poll Timer is enough to bring it the answer: a watcher whose
\* promise is settled, or that has a timeout, ends.  Only one without a timeout
\* waits on, and only if the reaction failed to complete its future.
SettledIsAnswered ==
  \A w \in Watchers :
    (/\ at[w] = "waiting"
     /\ w \in timeouts \/ future[of[w]] \notin {"pending", "dropped", "gone"})
      ~> \/ at[w] = "done"
         \/ w \notin timeouts /\ of[w] \in {f \in Futures : future[f] = "dropped"}

\* handlePromise keeps the promise of Completion on QuickJS too; close() cancels
\* those who wait although the runtime stays up.
Answered == INSTANCE Completion WITH
  Requests <- Watchers,
  down     <- lifecycle = "disposed",
  status   <- [w \in Watchers |->
                 IF at[w] = "waiting" THEN "open"
                 ELSE IF at[w] = "unused" THEN "unused" ELSE verdict[w]]
ImplementsCompletion == Answered!Spec
=============================================================================
