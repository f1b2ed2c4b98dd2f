--------------------------- MODULE RuntimeTimers ---------------------------
(***************************************************************************)
(* The life of one QuickJS runtime (lib/quickjs/quickjs_runtime2.dart on   *)
(* top of lib/javascript_runtime.dart): its lifecycle, the native engine   *)
(* it creates, closes and creates again, the job queue of that engine, and *)
(* the setTimeout/setInterval machinery, half of which lives in JavaScript *)
(* (the table __NATIVE_FLUTTER_JS__timerCallbacks) and half in Dart (the   *)
(* Timer objects, _runtimeTimers and _runtimeTimerRecords).                *)
(*                                                                         *)
(* Dart runs one event at a time, so a step taken with running = "idle" is *)
(* an event of the Dart loop; the steps taken while JavaScript runs are    *)
(* what that JavaScript does before the event returns.                     *)
(***************************************************************************)
EXTENDS Naturals

CONSTANTS MaxTimers,    \* bound: timers one engine session may create
          MaxSessions,  \* bound: engines created over the runtime's life
          MaxJobs       \* bound: jobs in the engine's queue at one time

ASSUME BoundsAssumption ==
  MaxTimers \in Nat /\ MaxSessions \in Nat \ {0} /\ MaxJobs \in Nat

VARIABLES
  lifecycle,   \* _lifecycle
  engine,      \* _rt # null: the native runtime exists
  needsInit,   \* _needsInit: the context lacks the JavaScript globals
  running,     \* what the current Dart event runs in the engine
  jobs,        \* number of pending jobs of the native runtime
  session,     \* history: how many contexts have been initialised
  timerCount,  \* the id the next timer gets, __NATIVE_FLUTTER_JS__timerCount + 1
  callbacks,   \* entries of __NATIVE_FLUTTER_JS__timerCallbacks
  armed,       \* Dart Timers that are active (created, not fired, not cancelled)
  registered,  \* _runtimeTimers
  records,     \* _runtimeTimerRecords, a map from id to Timer
  starting,    \* entries whose setTimeout is still converting the delay
  failed,      \* history: ids of this context whose delay could not be converted
  cleared      \* history: ids of this context cleared while theirs was converted

engineVars == <<engine, needsInit, jobs, session>>
startVars  == <<starting, failed, cleared>>
timerVars  == <<callbacks, armed, registered, records, startVars>>
vars == <<lifecycle, running, timerCount, engineVars, timerVars>>

TimerId == 0 .. MaxTimers - 1
Entry   == [id : TimerId, interval : BOOLEAN]
\* A Dart Timer, with the context its id belongs to; late: it was created
\* when the runtime was no longer active.
Timer   == [session : 1 .. MaxSessions, id : TimerId,
            interval : BOOLEAN, late : BOOLEAN]

Initialised == engine /\ ~needsInit
InJs        == running # "idle"

\* The definitions named Bug... are mistakes the code could contain; no
\* specification uses them, each shows that a property can fail.
Active == lifecycle = "active"

BugReady == engine
Ready    == Initialised

\* The timer entries a script sees: a context that init() has yet to set up
\* starts with an empty table.
Globals == IF Ready THEN callbacks ELSE {}

Init ==
  /\ lifecycle = "active" /\ running = "idle"
  /\ engine = TRUE /\ needsInit = FALSE
  /\ jobs = 0 /\ session = 1 /\ timerCount = 0
  /\ callbacks = {} /\ armed = {} /\ registered = {} /\ records = {}
  /\ starting = {} /\ failed = {} /\ cleared = {}

----------------------------------------------------------------------------
\* _ensureEngine and the init() that evaluate runs when it is needed.
EnsureEngine ==
  \/ /\ Ready
     /\ UNCHANGED <<engineVars, timerCount>>
  \/ /\ ~Ready
     /\ session < MaxSessions
     /\ engine' = TRUE
     /\ needsInit' = FALSE
     /\ jobs' = 0
     /\ session' = session + 1
     /\ timerCount' = 0

\* evaluate(): user code starts in an initialised context.
Evaluate ==
  /\ ~InJs /\ Active
  /\ EnsureEngine
  /\ callbacks' = Globals
  /\ running' = "script"
  /\ UNCHANGED <<lifecycle, armed, registered, records, startVars>>

\* An engine without the globals: evaluate() whose init() throws (it restores
\* _needsInit), or runGC / memoryUsage after a close(), which only call
\* _ensureEngine.
BareEngine ==
  /\ ~InJs /\ Active /\ ~Ready
  /\ engine' = TRUE
  /\ UNCHANGED <<lifecycle, running, timerCount, needsInit, jobs, session,
                 timerVars>>

\* The id a new timer gets: ++__NATIVE_FLUTTER_JS__timerCount.
FreshId == timerCount

\* setTimeout / setInterval store the entry and then convert the delay, which
\* runs code of the user when the delay is an object with a valueOf.
StoreTimer(interval) ==
  /\ InJs
  /\ timerCount < MaxTimers
  /\ LET entry == [id |-> FreshId, interval |-> interval]
     IN  /\ callbacks' = callbacks \cup {entry}
         /\ starting' = starting \cup {entry}
  /\ timerCount' = timerCount + 1
  /\ UNCHANGED <<lifecycle, running, engineVars, armed, registered, records,
                 failed, cleared>>

\* The call of setTimeout that runs: those it interrupts came before it.
Innermost(c) == c \in starting /\ \A d \in starting : d.id <= c.id

\* The delay is a number: the SetTimer handler.  It starts the Timer and records
\* it before registerRuntimeTimer, which throws unless the runtime is active;
\* the channel swallows the error.
StartTimer(c) ==
  /\ Innermost(c)
  /\ LET timer == [session |-> session, id |-> c.id,
                   interval |-> c.interval, late |-> ~Active]
     IN  /\ armed' = armed \cup {timer}
         /\ records' = {r \in records : r.id # c.id} \cup {timer}
         /\ registered' = IF Active THEN registered \cup {timer}
                                    ELSE registered
  /\ starting' = starting \ {c}
  /\ UNCHANGED <<lifecycle, running, timerCount, engineVars, callbacks,
                 failed, cleared>>

\* The conversion of the delay throws (a BigInt, a Symbol, a valueOf that
\* throws): setTimeout throws and its entry stays in the table.
DelayThrows(c) ==
  /\ Innermost(c)
  /\ starting' = starting \ {c}
  /\ failed' = failed \cup {c.id}
  /\ UNCHANGED <<lifecycle, running, timerCount, engineVars, callbacks, armed,
                 registered, records, cleared>>

\* clearTimeout / clearInterval and the ClearTimer handler, for an id that has
\* an entry (for any other id clearTimeout does nothing).
ClearTimer(id) ==
  /\ InJs
  /\ \E c \in callbacks : c.id = id
  /\ callbacks' = {c \in callbacks : c.id # id}
  /\ LET cancelled == {r \in records : r.id = id}
     IN  /\ records' = records \ cancelled
         /\ registered' = registered \ cancelled
         /\ armed' = armed \ cancelled
  /\ cleared' = cleared \cup {c.id : c \in {d \in starting : d.id = id}}
  /\ UNCHANGED <<lifecycle, running, timerCount, engineVars, starting, failed>>

\* JavaScript, or a Dart future that settles a promise between two events,
\* queues a job.
QueueJob ==
  /\ Ready
  /\ jobs < MaxJobs
  /\ jobs' = jobs + 1
  /\ UNCHANGED <<lifecycle, running, timerCount, engine, needsInit, session,
                 timerVars>>

ScriptEnd ==
  /\ running = "script" /\ starting = {}
  /\ running' = "idle"
  /\ UNCHANGED <<lifecycle, timerCount, engineVars, timerVars>>

----------------------------------------------------------------------------
\* executePendingJob() / dispatch(): the first job of the drain.
Dispatch ==
  /\ ~InJs /\ Active /\ engine /\ jobs > 0
  /\ running' = "jobs"
  /\ jobs' = jobs - 1
  /\ UNCHANGED <<lifecycle, timerCount, engine, needsInit, session, timerVars>>

\* The loop of _executePendingJob goes on with the next job.
NextJob ==
  /\ running \in {"jobs", "closing"} /\ starting = {}
  /\ jobs > 0
  /\ jobs' = jobs - 1
  /\ UNCHANGED <<lifecycle, running, timerCount, engine, needsInit, session,
                 timerVars>>

\* The loop ends: the queue is empty, or a job failed and the rest stays queued.
DrainEnd ==
  /\ running = "jobs" /\ starting = {}
  /\ running' = "idle"
  /\ UNCHANGED <<lifecycle, timerCount, engineVars, timerVars>>

----------------------------------------------------------------------------
\* The entries, of those found under the id, that the firing deletes.
BugConsumed(found) == {}
Consumed(found)    == {c \in found : ~c.interval}

BugExpire(t) ==
  IF t.interval
  THEN UNCHANGED <<armed, registered, records>>
  ELSE /\ armed' = armed \ {t}
       /\ records' = {r \in records : r.id # t.id}
       /\ UNCHANGED registered

\* What a Timer does to the Dart side before its callback: a one-shot timer
\* unregisters itself and drops the record under its id, an interval stays.
Expire(t) ==
  IF t.interval
  THEN UNCHANGED <<armed, registered, records>>
  ELSE /\ armed' = armed \ {t}
       /\ registered' = registered \ {t}
       /\ records' = {r \in records : r.id # t.id}

\* A Timer fires.  _fireTimerCallback does nothing unless the runtime is
\* active; otherwise the evaluated code finds the entry by its id alone, and
\* runs its function after dropping a one-shot entry.
Fire(t) ==
  /\ ~InJs
  /\ t \in armed
  /\ Expire(t)
  /\ \/ /\ ~Active
        /\ UNCHANGED <<running, timerCount, engineVars, callbacks>>
     \/ /\ Active
        /\ EnsureEngine
        /\ LET found == {c \in Globals : c.id = t.id}
           IN  /\ callbacks' = Globals \ Consumed(found)
               /\ running' = IF found = {} THEN "idle" ELSE "script"
  /\ UNCHANGED <<lifecycle, startVars>>

----------------------------------------------------------------------------
\* The Timers that cancelRuntimeTimers cancels.
BugCancelled == {t \in registered : ~t.interval}
Cancelled    == registered

\* cancelRuntimeTimers, the release of the engine and the finally blocks of
\* close() and, when the lifecycle lc is "disposing", of dispose().
FreeEngine(lc) ==
  /\ armed' = armed \ Cancelled
  /\ registered' = {}
  /\ records' = {}
  /\ callbacks' = {}
  /\ failed' = {} /\ cleared' = {}
  /\ jobs' = 0
  /\ engine' = FALSE
  /\ needsInit' = (lc = "active")
  /\ running' = "idle"
  /\ lifecycle' = IF lc = "disposing" THEN "disposed" ELSE lc
  /\ UNCHANGED <<session, timerCount, starting>>

\* close() starts by draining the jobs; with none it is one step.
StartClose(lc) ==
  \/ /\ jobs > 0
     /\ lifecycle' = lc
     /\ running' = "closing"
     /\ jobs' = jobs - 1
     /\ UNCHANGED <<timerCount, engine, needsInit, session, timerVars>>
  \/ /\ jobs = 0
     /\ FreeEngine(lc)

Close == ~InJs /\ StartClose(lifecycle)

\* dispose(): beginDispose refuses unless the runtime is active.
Dispose == ~InJs /\ Active /\ StartClose("disposing")

\* The drain of close() or dispose() ends and the engine is freed.
CloseEnd == running = "closing" /\ starting = {} /\ FreeEngine(lifecycle)

----------------------------------------------------------------------------
Next ==
  \/ Evaluate \/ BareEngine
  \/ \E interval \in BOOLEAN : StoreTimer(interval)
  \/ \E c \in starting : StartTimer(c) \/ DelayThrows(c)
  \/ \E id \in TimerId : ClearTimer(id)
  \/ QueueJob \/ ScriptEnd
  \/ Dispatch \/ NextJob \/ DrainEnd
  \/ \E t \in armed : Fire(t)
  \/ Close \/ Dispose \/ CloseEnd

\* JavaScript returns, to the setTimeout that asked for a delay and to Dart, and
\* the Dart event loop runs every due timer: whatever else is queued, a Timer
\* that stays armed gets its turn.
Fairness ==
  /\ WF_vars(ScriptEnd) /\ WF_vars(DrainEnd) /\ WF_vars(CloseEnd)
  /\ WF_vars(\E c \in starting : StartTimer(c) \/ DelayThrows(c))
  /\ \A id \in TimerId : SF_vars(\E t \in armed : t.id = id /\ Fire(t))

Spec == Init /\ [][Next]_vars
FairSpec == Spec /\ Fairness

----------------------------------------------------------------------------
TypeOK ==
  /\ lifecycle \in {"active", "disposing", "disposed"}
  /\ engine \in BOOLEAN /\ needsInit \in BOOLEAN
  /\ running \in {"idle", "script", "jobs", "closing"}
  /\ jobs \in 0 .. MaxJobs
  /\ session \in 1 .. MaxSessions
  /\ timerCount \in 0 .. MaxTimers
  /\ callbacks \subseteq Entry
  /\ armed \subseteq Timer /\ registered \subseteq armed /\ records \subseteq armed
  /\ starting \subseteq Entry
  /\ failed \subseteq TimerId /\ cleared \subseteq TimerId

\* While the runtime is active, the JavaScript table and the Dart timers agree,
\* whatever mix of setTimeout, clearTimeout, firings, drains and close() led
\* there.  An entry has a live Timer of this context and of the same kind, but
\* for the two gaps that the conversion of the delay leaves: an entry without a
\* Timer is one that is still converted or could not be, and a Timer without an
\* entry is one that was cleared in the middle.  No id has two Timers, and
\* cancelRuntimeTimers and ClearTimer can reach every one.  So no other callback
\* is lost and no Timer of a closed context can fire the callback that a later
\* context stored under the same id.
TimerFor(c) == [session |-> session, id |-> c.id,
                interval |-> c.interval, late |-> FALSE]
Starting(id) == \E c \in starting : c.id = id
TimersMatchCallbacks ==
  Active =>
    /\ registered = armed /\ records = armed
    /\ \A t, u \in armed : t.id = u.id => t = u
    /\ \A c \in callbacks :
         TimerFor(c) \in armed <=> c.id \notin failed /\ ~Starting(c.id)
    /\ \A t \in armed :
         /\ t.session = session /\ ~t.late
         /\ t.id \notin cleared => [id |-> t.id, interval |-> t.interval] \in callbacks

\* Once dispose() has run, a Timer that is still armed was started by a job of
\* dispose's own drain: everything scheduled while the runtime was active has
\* been cancelled.
OnlyLateTimersSurvive ==
  lifecycle = "disposed" => \A t \in armed : t.late

\* So the Timers follow the lifecycle of the runtime.
TimersMatchLifecycle == TimersMatchCallbacks /\ OnlyLateTimersSurvive

\* Code of the user never runs in a context that init() did not set up, though
\* runGC, memoryUsage and a failing init() leave such a context behind, and a
\* runtime with live timers never has one.
ScriptsSeeGlobals ==
  /\ InJs => Initialised
  /\ Active /\ armed # {} => Initialised

\* Disposal is terminal: no later event revives the engine or runs JavaScript,
\* not even a Timer that survived.
DisposalIsTerminal ==
  [][lifecycle = "disposed" =>
       lifecycle' = "disposed" /\ ~engine' /\ running' = "idle"]_vars

\* Within one context an id that has been used never gets a callback again, so
\* a clearTimeout with a stale handle cannot hit somebody else's timer.
IdsAreNotReused ==
  [][session' = session =>
       \A c \in callbacks' : c \in callbacks \/ c.id >= timerCount]_vars

\* A timeout does not stay pending for ever: it fires, is cleared, turns out to
\* have a delay that cannot be converted, or goes with its context.
Pending(s, id) ==
  /\ session = s
  /\ [id |-> id, interval |-> FALSE] \in callbacks
  /\ id \notin failed
EveryTimeoutEnds ==
  \A s \in 1 .. MaxSessions, id \in TimerId : Pending(s, id) ~> ~Pending(s, id)

\* test/timer_primitives_test.dart:154, "dispose cancels outstanding timers and
\* no callbacks run": after dispose() no Timer is left.  The code does not keep
\* this for a Timer that a job of dispose's drain starts.
DisposeCancelsTimers == lifecycle = "disposed" => armed = {}
=============================================================================
