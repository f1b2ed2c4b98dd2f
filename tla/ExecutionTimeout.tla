-------------------------- MODULE ExecutionTimeout --------------------------
(***************************************************************************)
(* The time limit of a QuickJS runtime                                     *)
(* (linux/quickjs/bridge/cxx/libfastdev_quickjs_runtime.cpp and the        *)
(* polling of linux/quickjs/upstream/quickjs.c).  The bridge has one       *)
(* deadline per runtime.  jsEval, jsCall, jsJSONStringify and the drain of *)
(* the job queue set it anew; jsToCString, jsGetProperty and               *)
(* jsGetOwnPropertyNames, which run toString(), getters and proxies of the *)
(* application, do not.  The engine counts steps and asks for the deadline *)
(* once in Polls of them.                                                  *)
(*                                                                         *)
(* JavaScript that calls a Dart channel handler waits for it, and the      *)
(* handler may enter the engine again: entries are nested on a stack.      *)
(***************************************************************************)
EXTENDS Naturals, Sequences

CONSTANTS Timeout,    \* the time limit, in ticks of the clock
          Polls,      \* JS_INTERRUPT_COUNTER_INIT
          Depth,      \* bound: nested entries
          MaxJobs,    \* bound: queued jobs
          Endless,    \* whether handlers may enter and scripts queue for ever
          MaxSpent    \* bound: if not, how often they do

ASSUME TimeoutAssumption == Timeout \in Nat \ {0} /\ Polls \in Nat \ {0}
ASSUME BoundsAssumption ==
  Depth \in Nat /\ MaxJobs \in Nat /\ MaxSpent \in Nat /\ Endless \in BOOLEAN

VARIABLES
  left,     \* time until opaque->deadline; 0: it has passed
  counter,  \* ctx->interrupt_counter
  stack,    \* entries into the engine that have not returned, innermost last
  queue,    \* length of rt->job_list
  spent,    \* entries made by channel handlers and jobs queued, unless Endless
  over      \* history: steps since the deadline passed, or since an interrupt

limitVars == <<left, counter, stack, queue, spent, over>>

EntryKinds == {"eval", "call", "stringify", "inspect", "drain"}

\* kind: jsEval and the like, an "inspect" by jsToCString, jsGetProperty or
\* jsGetOwnPropertyNames, or a drain; age: how long ago it began, up to Timeout;
\* inJob: a drain runs a job; inDart: a channel handler is at work.
Entries == [kind   : EntryKinds,
           age    : 0 .. Timeout,
           inJob  : BOOLEAN,
           inDart : BOOLEAN]

Top     == stack[Len(stack)]
Running == stack # <<>> /\ ~Top.inDart /\ (Top.kind = "drain" => Top.inJob)
Pop     == SubSeq(stack, 1, Len(stack) - 1)

LimitInit ==
  /\ left = Timeout /\ counter = Polls
  /\ stack = <<>> /\ queue = 0
  /\ spent = 0 /\ over = 0

----------------------------------------------------------------------------
\* A use of the bounded budget.
Spend ==
  /\ Endless \/ spent < MaxSpent
  /\ spent' = IF Endless THEN spent ELSE spent + 1

\* The Bug... definitions are mistakes the code could contain, which show that
\* a property can fail; no specification uses them.

\* Dart enters the engine, on its own or from a channel handler: all but the
\* entries that inspect a value set the deadline of the runtime anew.
BugFresh(kind) == IF kind \in {"call", "inspect"} THEN left ELSE Timeout
Fresh(kind)    == IF kind = "inspect" THEN left ELSE Timeout

Enter(kind) ==
  /\ Len(stack) < Depth
  /\ IF stack = <<>> THEN UNCHANGED spent ELSE Top.inDart /\ Spend
  /\ stack' = Append(stack,
                     [kind |-> kind, age |-> 0, inJob |-> FALSE, inDart |-> FALSE])
  /\ left' = Fresh(kind)
  /\ over' = IF Fresh(kind) > 0 THEN 0 ELSE over
  /\ UNCHANGED <<counter, queue>>

\* JavaScript calls a channel; the handler returns.
CallChannel ==
  /\ Running
  /\ stack' = [stack EXCEPT ![Len(stack)].inDart = TRUE]
  /\ UNCHANGED <<left, counter, queue, spent, over>>

HandlerReturns ==
  /\ stack # <<>> /\ Top.inDart
  /\ stack' = [stack EXCEPT ![Len(stack)].inDart = FALSE]
  /\ UNCHANGED <<left, counter, queue, spent, over>>

\* JavaScript queues a job: a promise reaction, or that of a Dart future.
QueueJob ==
  /\ Running /\ queue < MaxJobs
  /\ queue' = queue + 1
  /\ Spend
  /\ UNCHANGED <<left, counter, stack, over>>

\* JS_ExecutePendingJob takes the next job; with none left the drain is over.
NextJob ==
  /\ stack # <<>> /\ Top.kind = "drain" /\ ~Top.inJob
  /\ IF queue > 0
     THEN /\ stack' = [stack EXCEPT ![Len(stack)].inJob = TRUE]
          /\ queue' = queue - 1
     ELSE /\ stack' = Pop
          /\ UNCHANGED queue
  /\ UNCHANGED <<left, counter, spent, over>>

\* A script ends, or a job, and the drain goes on.
Ended == IF Top.kind = "drain" THEN [stack EXCEPT ![Len(stack)].inJob = FALSE]
                               ELSE Pop

Return ==
  /\ Running
  /\ stack' = Ended
  /\ UNCHANGED <<left, counter, queue, spent, over>>

\* js_poll_interrupts at a step of JavaScript: the deadline is asked for when the
\* counter is down, and counted anew.
BugReload == Polls + 1
Reload    == Polls
BugExpired == left = 0 /\ Len(stack) = 1
Expired    == left = 0

Step ==
  /\ Running
  /\ IF counter > 1 THEN counter' = counter - 1
                    ELSE counter' = Reload /\ ~Expired
  /\ over' = IF left = 0 /\ over < Polls THEN over + 1 ELSE over
  /\ UNCHANGED <<left, stack, queue, spent>>

\* The poll that finds the deadline passed throws, which no catch clause catches.
Poll ==
  /\ Running /\ counter = 1 /\ Expired
  /\ counter' = Reload
  /\ over' = 0
  /\ UNCHANGED <<left, queue, spent>>

\* The interrupt ends the script, or the reaction of a job, whose promise it
\* rejects, and the drain goes on ...
Interrupt == Poll /\ stack' = Ended

\* ... unless it strikes between the reaction and its resolving function: then the
\* job fails and _executePendingJob stops ...
JobFails == Poll /\ Top.kind = "drain" /\ stack' = Pop

\* ... or in an async function or in the executor of a new Promise: it becomes the
\* rejection of that promise (js_async_function_resume, js_promise_constructor),
\* and the JavaScript that called goes on.
Swallow == Poll /\ UNCHANGED stack

\* Time passes, in the engine and between the entries.
Tick ==
  /\ left' = IF left = 0 THEN 0 ELSE left - 1
  /\ stack' = [i \in DOMAIN stack |->
                 [stack[i] EXCEPT !.age = IF @ = Timeout THEN @ ELSE @ + 1]]
  /\ UNCHANGED <<counter, queue, spent, over>>

LimitNext ==
  \/ \E kind \in EntryKinds : Enter(kind)
  \/ QueueJob \/ CallChannel \/ HandlerReturns \/ NextJob
  \/ Return \/ Step \/ Interrupt \/ JobFails \/ Swallow \/ Tick

\* Time passes, JavaScript goes on (a script need not end), and Dart handlers
\* return.
LimitFairness ==
  /\ WF_limitVars(Tick) /\ WF_limitVars(NextJob)
  /\ SF_limitVars(Step \/ Interrupt \/ JobFails \/ Swallow)
  /\ SF_limitVars(HandlerReturns)

LimitSpec == LimitInit /\ [][LimitNext]_limitVars
FairLimitSpec == LimitSpec /\ LimitFairness

----------------------------------------------------------------------------
LimitTypeOK ==
  /\ left \in 0 .. Timeout
  /\ counter \in 1 .. Polls
  /\ stack \in Seq(Entries) /\ Len(stack) <= Depth
  /\ queue \in 0 .. MaxJobs /\ spent \in 0 .. MaxSpent
  /\ over \in 0 .. Polls

\* Nested entries share one deadline, yet none shortens the time of another:
\* whatever is interrupted has had its full time limit, unless it only inspects a
\* value and so has none of its own.
NobodyIsCutShort ==
  [][(Interrupt \/ JobFails \/ Swallow)
       => Top.kind = "inspect" \/ Top.age = Timeout]_limitVars

\* When the deadline has passed, JavaScript takes no more than the steps to the
\* next poll without an interrupt, however deep it is nested.  The interrupt need
\* not end the entry: see Swallow.
InterruptIsPrompt == over < Polls

\* Every entry returns, the script that never ends included, as long as handlers
\* do not enter and jobs do not queue for ever, and scripts do not have every
\* interrupt swallowed by one more async function or executor.
EveryEntryReturns ==
  <>[][~Swallow]_limitVars => \A n \in 1 .. Depth : Len(stack) = n ~> Len(stack) < n

----------------------------------------------------------------------------
\* What a test says of the time limit and the code does not keep.

\* Execution is interrupted after the timeout: but a handler that enters the
\* engine gives the script that called it the whole time again.  (A script whose
\* interrupts are swallowed runs on as well, without any handler.)
ScriptsAreInterrupted ==
  <>[][~Swallow]_limitVars
    => (stack # <<>> /\ stack[1].kind # "drain" ~> stack = <<>>)
=============================================================================
