# Verification of flutter_js

TLA+ models of flutter_js: of its Dart side (`lib/`), of the reference counts
and the time limit of its QuickJS bridge, and of the promises and jobs of the
engine that the Dart side relies on. Modules are parameterised by CONSTANTS,
checked by TLC on small instances, and most of them are proved for every value
of the constants with TLAPS.

## The system

flutter_js runs JavaScript inside a Dart program, on QuickJS (Android, Linux,
Windows) or on JavaScriptCore (iOS, macOS). Dart is single-threaded with an
event loop: one event (a Timer, a microtask, a port message, application code)
runs to its end before the next. What makes the code hard is that an event
*calls into* JavaScript, JavaScript *calls back* into Dart channel handlers, and
those may do anything the application may do, closing the runtime included.

| component | files | state | operations | what is hard | module |
|---|---|---|---|---|---|
| runtime base, QuickJS runtime | `javascript_runtime.dart`, `quickjs/quickjs_runtime2.dart` | lifecycle, `_rt`, `_needsInit`, job queue, `_runtimeTimers`, `_runtimeTimerRecords` | evaluate, dispatch, close (the engine may be created again), dispose, runGC, timers (half JavaScript, half Dart) | two halves of a timer, ids that restart, draining inside close, half-initialised engines | `RuntimeTimers` |
| handlePromise | `extensions/handle_promises.dart` | JavaScript table of promises (JavaScriptCore), Dart future (QuickJS); per watcher: Timers, dispose callback | register, poll, time out, clean up | re-entrant dispose, shared table, an answer that travels through two queues | `PromiseWatch`, `FutureWatch` |
| JavaScriptCore runtime | `javascriptcore/jscore_runtime.dart` | `_pendingRequests`, `_protectedValues`, `_localContext` | sendMessage, settle, time out, cancel, retain/release, dispose | late answers, re-entrant settlement, counts | `JscBridge` |
| QuickJS values | `quickjs/object.dart`, `wrapper.dart`, `ffi.dart` | counts of `JSRef`, Dart objects in JavaScript | call, return, settle, dup/free, collect, release on close | a reference too many or too few; futures that settle after close | `JsRefs` |
| time limit | `libfastdev_quickjs_runtime.cpp`, polling in `quickjs.c` | deadline, interrupt counter | jsEval, jsCall, jsJSONStringify, drain | nested entries move the one deadline | `ExecutionTimeout` |
| isolate | `quickjs/isolate.dart`, `object.dart` | session, ports, worker | evaluate, close, module lookup | exit races, restart, waiting on each other | `IsolateSession` |
| XHR, fetch | `extensions/xhr.dart`, `fetch.dart` | request numbers, table, queue of calls, calls in flight | open, send, abort, poll, reply, fail | replies after abort, close or a second enable | `XhrBridge` |
| promises of QuickJS | `linux/quickjs/upstream/quickjs.c` | promise states, resolving functions, reactions, `job_list` | resolve, then, await, jobs | promises that follow promises, order of reactions | `QjsPromise` |

How they interact: `RuntimeTimers` is the life of the runtime in which the
others live; they take from it that `close()` and `dispose()` first drain the
job queue, then cancel Timers and run the dispose callbacks, then free the
engine. `QjsPromise` is the job queue and the reactions that `FutureWatch` sees
as a queue of futures. `ExecutionTimeout` says when the time limit makes
JavaScript return, and when it does not.
`FutureWatch` and `JsRefs` look at the same Dart futures, from the side of who
waits and of who holds. `PromiseWatch`, `FutureWatch` and `JscBridge` promise
the same thing, `Completion`.

What makes the components correct: a timer's two halves agree and no timer of an
old context fires in a new one; what is pending is answered exactly once and
leaves nothing behind; a value lives exactly while somebody holds it; nothing is
interrupted early or runs on for ever; after `dispose()` nothing runs; nothing
waits for ever.

## Modules

| module | models | proofs |
|---|---|---|
| `RuntimeTimers` | life cycle, engine sessions, job queue and timers of a QuickJS runtime | `RuntimeTimersProofs` |
| `Completion` | abstract: an accepted request gets one final answer, and none is open when the runtime is down | in those of the three that implement it |
| `PromiseWatch` | handlePromise on JavaScriptCore (polling); implements `Completion` | `PromiseWatchProofs` |
| `FutureWatch` | handlePromise on QuickJS (Dart futures); implements `Completion` | `FutureWatchProofs` |
| `JscBridge` | deferred requests and protected values of JavaScriptCore; implements `Completion` | `JscBridgeProofs` |
| `JsRefs` | references between Dart and QuickJS | `JsRefsProofs` |
| `ExecutionTimeout` | the deadline and its polling through nested entries | `EngineProofs` |
| `QjsPromise` | promises, async functions and jobs of the engine | `EngineProofs` |
| `XhrBridge` | XMLHttpRequest | `XhrBridgeProofs` |
| `IsolateSession` | an engine in a worker isolate | `IsolateSessionProofs` |

`MC<module>` holds the constants for TLC of each of them. Definitions whose name
begins with `Bug` are the plausible mistakes used to show that each property can
fail; no specification uses them. Variables called history in their comments are
read by properties only (and by bounds).

### RuntimeTimers

`lifecycle`, `engine` (`_rt != null`), `needsInit`, and the native queue as a
number `jobs`. `running` says what the current event runs in the engine: nothing
(`"idle"`), a script, jobs of `executePendingJob`, or the drain of `close()` and
`dispose()`. A timer is an entry in `callbacks` (the JavaScript table) and a
record in `armed` (live Dart Timers), `registered` (`_runtimeTimers`) and
`records` (`_runtimeTimerRecords`). setTimeout is cut where it converts the
delay, which may run code of the user: `StoreTimer` stores the entry, and then
either the handler of SetTimer creates the Timer (`StartTimer`) or the
conversion throws (`DelayThrows`) and the entry stays while its context does.
What the user's code does in between, further timers and clearing this one
included, comes before either; `starting`, `failed` and `cleared` keep track.
`session` numbers the contexts so that properties can tell the timer ids of
different contexts apart; `late` marks a Timer created when the runtime was no
longer active.

`close()` and `dispose()` are one step when no job is queued; otherwise
`StartClose` begins the drain, jobs set and clear timers, `NextJob` goes on, and
`CloseEnd` frees the engine, which it may also do with jobs left (a failing job
ends the drain). `BareEngine` is the engine that `runGC`, `memoryUsage` or a
failing `init()` leave behind.

### PromiseWatch

A handler is cut at each call into the engine that can run user JavaScript:
`Register` | `Attach` (registration), `Tick` | `Observe` (poll), `Observe` or
`TimeOut` | `EndCleanup` (the evaluate in `cleanup()`). Between the two halves
`Settle`, `Dispose` and nested `Register`s happen; other events wait (`Quiet`).
`verdict` is what the completer is completed with and whose promise it came
from; a verdict that is set stands for the `completed` flag. The branch of the
poll callback for an inactive runtime is not a separate step: `dispose()` cancels
the Timer in the same event, and the check inside the tick is in `Observe`.

### FutureWatch

An answer travels: `Settle` queues the promise's reaction (`queue`), a drain
(`Tick` of a poll Timer, `Dispatch`, or that of `close()`) runs it (`RunJob`),
which completes the future and schedules a microtask for every watcher that
listens (`due`), and `Arrive` is the microtask. The Dart callback of the reaction
may also fail first, which uses the job up and leaves the future incomplete for
ever (`"dropped"`): converting the argument may throw, and `completeError` does
not take the null that `Promise.reject()` gives it. `TimeOut`, `StartClose` and
`EndClose` cut in. Timers fire only when no microtask is due (`EventDue`).
`late` marks a watcher that was given a result of an engine already freed
(`future = "gone"`): it waits for its timeout or `dispose()`, and
`HoldsWhileWaiting` says that no other watcher is ever in that position.

### JscBridge

`Call` | `CreatePending` or `CallFails` are the two sides of a channel handler;
`FutureCompletes` or `TimeOut` | `EndSettle` those of a settlement. `count` is
`_protectedValues`, its holders are pending requests, keys of the local context
and callers of `retainValue` (`held`). A request stands for its resolve and
reject functions, which the code retains and releases together. A handler whose
future completes when the runtime is gone finds nothing to claim.

### Completion

`status` of each request and `down`. The refinements (`ImplementsCompletion`) map
the verdict of a watcher or request to its status and the end of the runtime to
`down`. On QuickJS `close()` cancels who waits although the runtime stays up.

### JsRefs

References are the `JSRef` objects of Dart by role: arguments of a call (`Arg`),
the resolving functions of its promise (`Res`; resolve stands for both) and the
`_DartObject` that keeps them (`Holder`), the exported Dart function (`Func`) and
the JavaScript objects that stand for it (`Export`), a result that is a function
(`Value`) and the second reference to it that the Finalizer of the result has
(`Native`). `count` starts at 0 and a reference is destroyed *below* 0, as in
`ffi.dart`. A call goes through `phase`s: running (the handler), converting (its
result, with the arguments released once), done; or, when the handler threw or
its result cannot be converted, failing: the channel releases the arguments and
then makes the error (`ReleaseThrown` | `ConvertError`), from a reference that is
destroyed if the handler threw its own argument (`ThrewArgument`, which ends the
process); or pending (it returned a future), released | answering | answered, one
per microtask of `onFutureSettled`, done. An argument that a later one leaves
behind when it cannot be converted is `"leaked"` (`CallFails`). Calls nest on
`stack`. `Close` destroys what the engine
has; `EnsureEngine` makes the next, and `home` remembers which engine a call
belongs to.

### ExecutionTimeout

`left` is the time to the deadline, `counter` the engine's interrupt counter,
`stack` the entries that have not returned; an entry is in Dart while a channel
handler is at work. jsEval, jsCall, jsJSONStringify and a drain set `left` anew:
the one deadline of the runtime. jsToCString, jsGetProperty and
jsGetOwnPropertyNames run JavaScript too (`toString`, getters, proxies) and leave
it as it is (`"inspect"`). A `Step` of JavaScript counts down; the `Poll` that
finds the deadline passed throws. That ends a script, but only one job of a drain
(`Interrupt`), unless it strikes between the reaction and its resolving function
(`JobFails`); and in an async function or the executor of a new Promise it only
rejects that promise, and the script goes on (`Swallow`). With `Endless = FALSE`
handlers enter and jobs queue at most `MaxSpent` times; termination depends on
that, and on a script not having interrupts swallowed for ever.

### IsolateSession

Requests (`evaluate`, `close`) wait as listeners of `session.ready`, go on as
microtasks (`micro`), travel in the worker's `inbox`, and are answered through
`outbox`, which also carries the port, module lookups, errors and the exit. A
reply port is a request that is `"sent"`; the three ports of a session are in
`ports`. Messages of one worker arrive in order, those of different workers in
any. `fail()` is `FailSession`. A close() that throws in the worker leaves its port
open (`ShutFails`, `"leaked"`). A script, or a job in the drain of the worker's
close(), may import a module: `Import` blocks the worker's thread until
`HandlerEnds`; the handler may itself evaluate (`HandlerEvaluates`). `Export` is
a function passed out of a worker, whose `ReceivePort` keeps it alive.

### XhrBridge

A `send()` makes its object loading, whatever its state was, takes the `next`
number, leaves its callback in `table` under it and a call in `queue`. It may
stop on the way (`Outcomes`): a handler of the object throws before the callback
is stored (`"thrown"`), or the request cannot be turned into a message or is not
what the Dart handler expects, an error the channel swallows (`"unheard"`);
`lost` keeps those sends, whose objects load for ever. The `Poll` of any live
`enableXhr` hands the queue to the client (`flight`); `Reply` or `Fail` looks
the number up in whatever table is there. `Enable` a second time restarts
numbers, table and queue. `Shutdown` is what `close()` and `dispose()` do.
History: `sends`, `answeredBy`, `abandoned`, and `crossed`, the sends whose
callback a reply of another `enableXhr` took. `fetch()` is a use of
XMLHttpRequest without state of its own.

### QjsPromise

`pairs` counts the pairs of resolving functions of each promise, `resolved` is
`already_resolved` of each. `Resolve` is `js_promise_resolve_function_call`:
settle, or queue a thenable job. `Attach` is `perform_promise_then`. The head of
`jobs` is run by `RunReaction` (a handler, the closures of an async function,
or, without a handler, the pair the settlement goes on to, which reads `then` of
the value once more: the value may be a thenable by now) or `RunThenable` (a
second pair is given to the thenable). `running` is the JavaScript at work,
which does what it likes: new promises, `then`, calls of resolving functions.
`reported` is what the rejection tracker told Dart; `attached` and `started` are
histories of the reactions.

### What the models take from the application

- It does not call `close()` or `dispose()` of a QuickJS runtime from a channel
  handler: the engine would be freed under the running script.
- A dispose callback does not evaluate scripts; scripts do not redefine the timer
  globals or declare `entry`.
- `enableHandlePromises` is called while nobody waits (`getJavascriptRuntime`
  calls it once).
- Scripts in a worker isolate return: `isolate.dart:110` gives its engine no
  timeout, so nothing would interrupt them.
- It frees what it duplicated or owns and nothing else, and keeps nothing of a
  call in `localContext` (`JsRefs`).

## Runs

| run | shows | bounds |
|---|---|---|
| `timers` | the timer halves agree, scripts see their globals, every timeout ends | 3 timers per context, 3 contexts, 2 queued jobs |
| `timers_dispose` | counterexample: a Timer survives `dispose()` | 2 timers, 1 context, 1 job |
| `watch` | own answer, what a waiting watcher holds, refinement, a settled promise is answered | 2 watchers |
| `future` | nobody is stranded by `close()`, refinement, the poll Timer is enough | 2 watchers, 2 futures |
| `bridge` | counts match holders, promises match requests, refinement, requests end | 2 requests, 2 objects, 2 keys, 2 holds |
| `jsrefs` | references live exactly as long as needed, answers find their engine, completed calls give everything back | 2 calls, 1 export, 1 result, 2 engines, arguments kept once |
| `timeout` | interrupts are prompt, nobody is cut short, every entry returns | timeout 2, poll every 3 steps, depth 3, 2 jobs, 3 entries or jobs by handlers |
| `timeout_nested` | counterexample: a script that is never interrupted | timeout 1, depth 2, endless handlers |
| `isolate` | requests in order, the live session is the current one, requests end | 4 requests, 2 workers, 1 module lookup |
| `xhr` | replies reach their object, callbacks match calls, closed sessions stay closed, loading ends | 2 objects, 3 sends of which 1 fails on its way, 2 `enableXhr`, 1 `close()` |
| `xhr_resend` | counterexample: the reply to an aborted request finishes the next | 1 object, 2 sends |
| `qjspromise` | one authority per promise, reactions once and in order, rejections travel, nobody is left behind | 3 promises with 3, 2 and 1 pairs, 2 reactions each |

Why the bounds are enough. The properties relate at most two timers, watchers,
requests or calls at a time: two let each race the other, and where a third
party matters there is one (a third timer, a third promise that reacts while one
follows another, a third send whose number an old reply has). Two contexts,
engines or workers are the least that can confuse ids; a third context shows it
can be done again. A queue of two has a drain that goes on and one that stops
early. Two keys and two holds reach a count that is shared and one that is
replaced. A poll interval longer than the timeout lets counter and clock meet in
any order, and three entries put one in the middle. A promise with three pairs
follows twice in a row. Where a proof exists it covers any number.

Safety and liveness share a run, so no symmetry is used. `CHECK_DEADLOCK FALSE`
stands in every run but the timer and time limit ones: when every watcher,
request, send or promise of the instance is used up, nothing is left to happen.

### Fairness

Taken from Dart's event loop, which serves every due Timer, microtask and
message, and from JavaScript returning to Dart. `ExecutionTimeout` justifies the
latter where a runtime has a time limit, up to the scripts it names that escape
the limit; without one, and in worker isolates, it is the application's part.
Nothing is assumed of futures that handlers return,
of promises, or of the application, unless it is said here.

| module | weak | strong (other events keep coming in between) |
|---|---|---|
| `RuntimeTimers` | the end of scripts and drains, of the conversion of a delay | firing of a Timer |
| `PromiseWatch` | the second halves of handlers | poll and timeout Timers |
| `JscBridge` | the second halves of handlers and settlements | timeout Timers |
| `FutureWatch` | the end of a drain and of `close()` | jobs of a drain, in either outcome, microtasks, poll and timeout Timers |
| `JsRefs` | handlers and JavaScript return; microtasks | |
| `ExecutionTimeout` | time passes; the drain takes the next job | JavaScript steps or is interrupted (a script need not end); handlers return |
| `IsolateSession` | microtasks; a worker spawns or fails, serves its requests, exits | messages to the main isolate; module handlers end if what they await does |
| `XhrBridge` | poll Timers; the client answers or fails | |
| `QjsPromise` | scripts, handlers and `then` methods return | jobs run |

### What was found

`timers_dispose`: on QuickJS a job that runs in the drain of `dispose()` and calls
`setTimeout` or `setInterval` starts a Dart Timer that `dispose()` does not cancel
(`javascript_runtime.dart:296-308`: the Timer is started and recorded before
`registerRuntimeTimer` throws, and the channel swallows the error). An interval
ticks for as long as the isolate lives. `TimersMatchLifecycle` and
`DisposalIsTerminal` say that this is all: no earlier Timer survives, and the
survivors never reach JavaScript.

`xhr_resend`: `abort()` only resets `readyState`, so after `abort()`, `open()` and
`send()` of the same object the reply to the aborted request finds it loading
again and finishes the new request with the old answer (`xhr.dart:104-116`).

`timeout_nested`: every entry sets the one deadline of the runtime, so a script
that calls, in a loop, a handler that evaluates is never interrupted
(`libfastdev_quickjs_runtime.cpp:543`). `EveryEntryReturns` holds when handlers
enter only so often. `ScriptsAreInterrupted` and `EveryEntryReturns` are about
behaviours in which interrupts are not swallowed for ever (`<>[][~Swallow]`), so
the counterexample needs no `Swallow`: it is another way to run on.

Deviations that the models contain, and that no document of the repository rules
out, have no run of their own:

- A request whose client fails after QuickJS `close()` is answered in the new
  engine, where its number may belong to another request (`xhr.dart:350`);
  `RepliesReachTheirObject` speaks of one `enableXhr` at a time for this reason.
- A worker that passed out a function keeps its `ReceivePort` open and never
  exits after `close()` (`object.dart:217-219`).
- A module handler that waits for its own worker waits for ever
  (`isolate.dart:118`); `RequestsEnd` exempts exactly this.
- `setTimeout(f, 1n)` throws after it has stored `f`: the entry has no Timer and no
  handle and stays as long as the context (`javascript_runtime.dart:246-253`).
- `handlePromise` without a timeout of a promise that is rejected without a reason
  (`Promise.reject()`) waits for ever on QuickJS, although the promise is settled
  (`wrapper.dart:210-213`, `completeError(null)` throws).
- `xhr.dart:89-103` sets the object loading and stores the callback before what may
  fail: such an object loads for ever, and its callback stays. As `send()` asks for
  no state, an object may have two requests under way, and the first reply
  finishes the second.
- A handler that throws its own argument, not kept, crashes the process: the
  argument is released before the error is made of it
  (`quickjs_runtime2.dart:109-112, 145`, `wrapper.dart:72`, and `js_channel` reads
  the null pointer it gets). An argument before one that cannot be converted is
  released only by `close()` (70-81).
- An async function or a Promise executor turns an interrupt into a rejection, and
  its caller goes on past the deadline: `async function f() { for (;;) {} }
  for (;;) f();` never returns (`quickjs.c:21127, 53473`).
- A `toString` or getter that the bridge runs through jsToCString or jsGetProperty
  may be interrupted at once, as the deadline of the entry before applies
  (`libfastdev_quickjs_runtime.cpp:641-682`).
- A worker whose `close()` throws keeps its port open and never exits
  (`isolate.dart:149-161`).
- An interrupted job becomes a rejection, so a drain whose jobs queue successors
  goes on past the deadline (`quickjs.c:53183-53192`).
- The rejection tracker reports a rejection that is handled later in the same
  script (`libfastdev_quickjs_runtime.cpp:416`).

## Proofs

Every theorem holds for all values of the constants under the named assumptions
of its module; the step lemmas have one step per action.

`RuntimeTimersProofs` proves all safety properties of `RuntimeTimers` from
`BoundsAssumption` only (bounds are naturals, and there is a first session).
None of them is inductive. The invariant `IndInv` adds: ids are below the
counter and unique (`IdsDiscipline`), without which a firing might find two
entries; a delay is converted for an entry that is there or was cleared
meanwhile, and an id has a Timer only when its delay is a number
(`StartDiscipline`); an uninitialised context has no entries, jobs or scripts,
and only the drain runs in a disposing runtime (`ContextDiscipline`), without
which preparing a context could orphan timers; and a live Timer of an inactive
runtime is registered or late (`LateDiscipline`, `SurvivorsLate`). The firing of
a timer is the interesting step, as it has to show that the id alone finds the
right entry. The conversion of a delay is the other: a Timer is started for an
id that has none, although timers were set, cleared and fired since the entry
was stored. `EnsureEngineOK` shows that evaluate never loses entries. Two action
properties, `DisposalIsTerminal` and `IdsAreNotReused`, are proved and not run.

`PromiseWatchProofs` proves the safety properties of `PromiseWatch` and that it
implements `Completion`, for any finite set of watchers (`FiniteAssumption`: the
room in the table is counted). `IndInv` adds that no entry lies at or above the
count and the count is no more than the calls made (`CountDiscipline`), without
which a registration could overwrite an entry; that watchers and entries find
each other (`TableDiscipline`), which is why a lookup by index gives a watcher
its own promise; where each Timer, callback and reference can be
(`HoldingDiscipline`); and that a watcher is completed from its cleanup on, or
by a dispose() under its tick (`VerdictDiscipline`).

`FutureWatchProofs`: `HoldsWhileWaiting` is inductive together with the types and
`VerdictDiscipline`, which says that a watcher is done exactly when it has an
answer, and that a microtask is under way only for a watcher whose future is
complete, and with `Waiting`: a reaction is queued once, for a future that is
not complete.

`JscBridgeProofs` proves the same of `JscBridge`, for any set of requests and
objects and any finite set of keys (the keys that hold an object are counted).
`PromisesMatchRequests` becomes inductive with `VerdictDiscipline` and
`NonePending`. `CountsMatchHolders` is inductive once the types are known; its
lemmas say how one step of the local context changes the number of keys that
hold an object (`KeysAfterSet`) and that an object under a key is counted
(`UnderAKey`), so that releasing it is never a release of nothing.

The three refinements have one lemma for each kind of step: it maps to `Open`,
`Refuse`, `Answer` or `CancelAll`, or changes nothing that `Completion` sees.
What `Completion` promises is inductive at once (`CompletionKept`), so each of the
three inherits it: no request is open when the runtime is down
(`NobodyWaitsWhenDown`), and an answer is final (`AnswersStay`).

`JsRefsProofs` proves that references live exactly as long as somebody needs
them, and that answers find their engine. `ReferencesLive` says who is there; It
states the two exceptions that the code makes, for an argument left behind and
for one that is thrown. `IndInv` says how often each is counted: an argument as
often as the phase of its call still has to release it (`Owes`) and the
application keeps it, less one (`ArgumentsCounted`); the exported function once
for every object that stands for it and once for the application, less one
(`FunctionCounted`); the others 0. `EnginesKnown` says that calls on the stack
belong to the engine that is up. Lemmas about freeing (`FreePlain`,
`FreeHolding`, `FreeNothing`), destroying and creating come first;
`HoldersOfAll` counts, by a bijection, what `close()` takes from the exported
function.

`EngineProofs` holds the proofs of both models of the engine, which is why the
definitions of `ExecutionTimeout` have names of their own (`LimitSpec`,
`LimitTypeOK`). Of the time limit it proves that interrupts are prompt and nobody
is cut short. The age of every entry on the stack that set the deadline, plus the
time left, is at least the timeout (`GoodStack`): entries share a deadline, and
setting it anew only adds. What has run past the deadline since it passed, or since
the last interrupt, and what the counter has left make up at most one poll interval
(`OverIsPolled`).

Of promises it proves `OneAuthority` from `PairsAssumption`. `IndInv` adds
that jobs, reactions and frames name pairs that were given out (`References`),
that a promise's pairs before the last are spent (`OnlyTheLast`), and that a pair
not spent is the last one of a pending promise for which no thenable job is due
(`Authority`). The step that needs it all is the thenable job, which takes its
authority from the queue and gives it to a new pair.

`ReactionsRunInOrder` becomes inductive (`OrderInv`) when a promise that is not
made has no history (`Untouched`) and a job lets a promise follow only one that
is made (`Known`). `Ordered` says of one promise what the property says, and lemmas
say what each kind of change does to it: settling (`OrderedSettled`: the
reactions line up behind a queue that has no job of this promise), attaching to a
pending or to a settled promise, starting the head of the queue, and a queue that
grows by jobs of others. `RejectionsTravel` needs an invariant about ownership:
every reaction that waits, and the handler that runs, has a pair of its own that
nobody has called or can call (`Owners`). So a rejection without a handler finds
the pair it goes on to unspent, and settles a pending promise. An async function
that awaits again hands its pair from the handler back to a reaction.

`IsolateSessionProofs` proves `CurrentIsTheLiveOne` and `CloseIsOrderly` from
bounds that are naturals. Four kinds of queues (listeners of a session that gets
ready, microtasks, the port of the worker, the port of the session) make up the
way of a request, so `IndInv` says of each what it holds: the waiting requests are
there and nowhere else, in the order of their calls (`WaitersOK`), then those that
were sent (`InboxOK`), and close() is the last of its session (`RequestsOK`). A
message of a worker is true when it is read, and an exit that no error precedes
means that the worker has left in order (`OutboxOK`); without it a late exit could
be taken for the fate of another session. `NothingLost` is the heart: a request
that was sent to a worker that listens, or has closed as it should, is in its port
or answered. Sessions that have not begun know nothing (`Unborn`), and what a
session takes for its worker's end is true (`SessionsOK`). Lemmas about queues
say what appending, taking the head and joining leave of the order and of an
exit that nothing announced.

`XhrBridgeProofs` proves all safety properties of `XhrBridge` from
`BoundsAssumption`. Objects and calls meet only in the number of a call, which is
the index of its callback and starts again with each `enableXhr`. `IndInv` says
that a call is in one place, the queue or one client, and that numbers keep the
calls of the current `enableXhr` apart (`Apart`); that a number leads to the
callback of its own call, unless a reply to an earlier owner took it (`CallsOK`,
`LeadsHome`), and a callback has a call, unless its send was lost, which has none
(`LostOK`); that the object of a callback waits for it, or has been aborted,
reopened or answered from elsewhere (`TableOK`, `Awaited`, `Astray`); and whose
calls are still of this engine (`SessionsOK`). A reply that finishes an object is
the step that needs them all: its number leads home, and the object awaits it or
is astray, which is what `RepliesReachTheirObject` allows.

Every safety property that a passing run checks is proved. Only model-checked are
the liveness properties, which need fairness and ENABLED.

## Not modelled

- `JSString` (`javascriptcore/jscore/js_string.dart`): every string is created
  and released in one synchronous function. The JavaScriptCore wrappers, the FFI
  bindings and the choice of the platform: stateless forwarding.
- The contents of values, their conversion between Dart and JavaScript, their
  encoding for isolates, and the channel registry: data that no property here
  tells apart. Calls of an `IsolateFunction`.
- Applications that do what is listed above as their obligation not to do.
- The rest of the vendored QuickJS: parser, interpreter, garbage collector,
  regular expressions, Unicode and number tables, its shell, tests and
  generators. These files are nearly all of the repository's lines of C and
  transform data for one caller at a time; of the engine only what meets the
  Dart side across events, its promises, jobs and interrupts, is modelled.
  Of the promises, `Promise.all`, `race` and `finally`, which are built from the
  operations modelled, async generators, subclasses of Promise and failing
  allocations are left out.
- Platform plugin glue and the example application.
