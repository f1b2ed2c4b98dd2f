------------------------------- MODULE JsRefs -------------------------------
(***************************************************************************)
(* The references that Dart holds in QuickJS, and QuickJS in Dart: JSRef   *)
(* and its counts (quickjs/ffi.dart), _DartObject and _JSObject            *)
(* (quickjs/object.dart), the conversion of futures (quickjs/wrapper.dart) *)
(* and the channel of QuickJsRuntime2 (quickjs/quickjs_runtime2.dart).     *)
(*                                                                         *)
(* A reference is created with count 0; dup() counts up, free() counts     *)
(* down and destroys it below 0; destroying it twice does nothing.  JS     *)
(* calls Dart functions with arguments that are released twice, by the     *)
(* function and by the channel, when the handler is done: at once, or in   *)
(* the microtasks of the future it returned.  close() destroys what the    *)
(* engine still has.  The answer to a call is converted before its         *)
(* arguments are released, an error after.                                 *)
(*                                                                         *)
(* Left out: the contents of values, and arguments in lists, which are     *)
(* counted one by one in the same way.  An application does not close the  *)
(* engine while JavaScript is on the stack, frees only what it has         *)
(* duplicated or owns, and keeps nothing of a call in localContext.        *)
(***************************************************************************)
EXTENDS Integers, Sequences, FiniteSets

CONSTANTS
  Calls,       \* calls of Dart functions by JavaScript
  Exports,     \* objects in JavaScript that stand for a Dart function
  Results,     \* values that evaluate returned to the application
  MaxEngines,  \* bound: engines, one after another
  MaxKept      \* bound: how often an application duplicates an argument

ASSUME EnginesAssumption == MaxEngines \in Nat \ {0}
ASSUME KeptAssumption    == MaxKept \in Nat

VARIABLES
  engine,    \* the number of the current or, between two, the last engine
  up,        \* _rt # null
  stack,     \* calls whose Dart code, or whose answer in JavaScript, is running
  phase,     \* of each call
  home,      \* the engine of each call
  kept,      \* how often the application holds the argument of a call
  outcome,   \* what became of the answer to a call
  exported,  \* exports that JavaScript holds
  owned,     \* the application holds the exported Dart function
  held,      \* of each result: its engine, its JsEvalResult reachable, its value not freed
  count,     \* JSRef._refCount
  alive      \* references created and not destroyed

vars == <<engine, up, stack, phase, home, kept, outcome, exported, owned, held, count, alive>>

Func      == <<"function", 0>>   \* the Dart function that is exported
Arg(c)    == <<"argument", c>>   \* the _JSObject of a call's argument
Res(c)    == <<"resolve", c>>    \* the _JSFunction that settles its promise
Holder(c) == <<"holder", c>>     \* the _DartObject refRes (and refRej)
Export(e) == <<"export", e>>     \* the _DartObject of an exported function
Value(v)  == <<"value", v>>      \* the _JSFunction that is a result
Native(v) == <<"native", v>>     \* nativeResult, the second _JSObject of a result

InEngine == ({"argument", "resolve", "holder"} \X Calls)
              \cup ({"export"} \X Exports) \cup ({"value", "native"} \X Results)
Refs     == InEngine \cup {Func}

\* The reference a _DartObject duplicates when it is created and frees when it
\* is destroyed.
Held(r) == CASE r[1] = "holder" -> {Res(r[2])}
             [] r[1] = "export" -> {Func}
             [] OTHER           -> {}

Phases   == {"idle", "running", "converting", "failing", "pending", "released", "answering",
             "answered", "leaked", "done"}
Outcomes == {"none", "delivered", "lost", "crashed"}

Top == stack[Len(stack)]
Pop == SubSeq(stack, 1, Len(stack) - 1)

\* Dart code runs that may call the engine: the event loop's or a handler's.
DartRuns == stack # <<>> => phase[Top] = "running"
JsRuns   == up /\ (stack # <<>> => phase[Top] \in {"running", "answering"})

Init ==
  /\ engine = 1 /\ up = TRUE /\ stack = <<>>
  /\ phase = [c \in Calls |-> "idle"]
  /\ home = [c \in Calls |-> 0]
  /\ kept = [c \in Calls |-> 0]
  /\ outcome = [c \in Calls |-> "none"]
  /\ exported = {} /\ owned = TRUE
  /\ held = [v \in Results |-> [home |-> 0, result |-> FALSE, value |-> FALSE]]
  /\ count = [r \in Refs |-> 0]
  /\ alive = {Func}

-----------------------------------------------------------------------------
(* Counts.  The Bug... definitions are mistakes the code could contain,    *)
(* which show that a property can fail; no specification uses them.        *)

Is(b) == IF b THEN 1 ELSE 0

\* How often a reference is freed when R are freed and O are destroyed.
Frees(r, R, O) == Is(r \in R) + Cardinality({o \in O : r \in Held(o)})

\* free(): "if (_refCount < 0) destroy();"
BugGone(r, n) == count[r] + 1 < n
Gone(r, n)    == count[r] < n

Less(R, O) ==
  /\ count' = [r \in Refs |-> count[r] - Frees(r, R, O)]
  /\ alive' = (alive \ O) \ {r \in Refs : Gone(r, Frees(r, R, O))}

\* A reference that is destroyed frees the one it holds, once.
Dying(R) == {r \in R \cap alive : Gone(r, 1)}
Free(R)  == Less(R, Dying(R))

\* New references have count 0, plus 1 for those that others hold; D are
\* duplicated, F are freed by who created them.
Create(R, D, F) ==
  /\ alive' = alive \cup R
  /\ count' = [r \in Refs |-> (IF r \in R THEN 0 ELSE count[r]) + Is(r \in D)
                 - Is(r \in F) + Cardinality({o \in R : r \in Held(o)})]

-----------------------------------------------------------------------------
(* Calls of Dart functions. *)

\* JavaScript calls an exported function, which is found in the engine's list.  The
\* channel duplicates the arguments before it invokes the function.
Call(c) ==
  /\ JsRuns /\ phase[c] = "idle"
  /\ \E e \in exported : Export(e) \in alive
  /\ Create({Arg(c)}, {Arg(c)}, {})
  /\ phase' = [phase EXCEPT ![c] = "running"]
  /\ home' = [home EXCEPT ![c] = engine]
  /\ stack' = Append(stack, c)
  /\ UNCHANGED <<engine, up, kept, outcome, exported, owned, held>>

\* A later argument cannot be converted (a promise whose then is no function):
\* JavaScript gets the error, and nobody releases the argument before it.
CallFails(c) ==
  /\ JsRuns /\ phase[c] = "idle"
  /\ \E e \in exported : Export(e) \in alive
  /\ Create({Arg(c)}, {}, {})
  /\ phase' = [phase EXCEPT ![c] = "leaked"]
  /\ home' = [home EXCEPT ![c] = engine]
  /\ UNCHANGED <<engine, up, stack, kept, outcome, exported, owned, held>>

OnTop(c, what) == stack # <<>> /\ Top = c /\ phase[c] = what

\* The handler returns a value or throws: the function releases its arguments.
HandlerReturns(c) ==
  /\ OnTop(c, "running")
  /\ Free({Arg(c)})
  /\ phase' = [phase EXCEPT ![c] = "converting"]
  /\ UNCHANGED <<engine, up, stack, home, kept, outcome, exported, owned, held>>

\* The handler returned: its value is converted, and then the channel releases
\* the arguments.
Convert(c) ==
  /\ OnTop(c, "converting")
  /\ Free({Arg(c)})
  /\ phase' = [phase EXCEPT ![c] = "done"]
  /\ outcome' = [outcome EXCEPT ![c] = "delivered"]
  /\ stack' = Pop
  /\ UNCHANGED <<engine, up, home, kept, exported, owned, held>>

\* The handler threw, or its value cannot be converted: the channel releases the
\* arguments, and only then converts the error for JavaScript.
ReleaseThrown(c) ==
  /\ OnTop(c, "converting")
  /\ Free({Arg(c)})
  /\ phase' = [phase EXCEPT ![c] = "failing"]
  /\ UNCHANGED <<engine, up, stack, home, kept, outcome, exported, owned, held>>

ConvertError(c) ==
  /\ OnTop(c, "failing")
  /\ phase' = [phase EXCEPT ![c] = "done"]
  /\ outcome' = [outcome EXCEPT ![c] = "delivered"]
  /\ stack' = Pop
  /\ UNCHANGED <<engine, up, home, kept, exported, owned, held, count, alive>>

\* The handler threw its own argument, which is destroyed by now unless somebody
\* keeps it: the channel has no value to return, and js_channel reads from the
\* null pointer it gets instead.
ThrewArgument(c) ==
  /\ OnTop(c, "failing") /\ Arg(c) \notin alive
  /\ outcome' = [outcome EXCEPT ![c] = "crashed"]
  /\ UNCHANGED <<engine, up, stack, phase, home, kept, exported, owned, held, count, alive>>

\* The process is gone.
Crashed == \E c \in Calls : outcome[c] = "crashed"

\* The handler returns a future: JavaScript gets a promise, whose resolving
\* functions stay with a _DartObject each.
BugReleasedOnCreation(c) == {}
ReleasedOnCreation(c)    == {Res(c)}

HandlerDefers(c) ==
  /\ OnTop(c, "running")
  /\ Create({Res(c), Holder(c)}, {}, ReleasedOnCreation(c))
  /\ phase' = [phase EXCEPT ![c] = "pending"]
  /\ stack' = Pop
  /\ UNCHANGED <<engine, up, home, kept, outcome, exported, owned, held>>

\* The future completes.  First microtask: the function releases its arguments.
Complete(c) ==
  /\ stack = <<>> /\ phase[c] = "pending"
  /\ Free({Arg(c)})
  /\ phase' = [phase EXCEPT ![c] = "released"]
  /\ UNCHANGED <<engine, up, stack, home, kept, outcome, exported, owned, held>>

\* _JSFunction.invoke needs a function that has not been destroyed.
BugCanSettle(c) == up
CanSettle(c)    == Res(c) \in alive

\* Second microtask: the promise is settled, which runs JavaScript; without its
\* engine that is an error.
Answer(c) ==
  /\ stack = <<>> /\ phase[c] = "released" /\ CanSettle(c)
  /\ phase' = [phase EXCEPT ![c] = "answering"]
  /\ outcome' = [outcome EXCEPT ![c] = "delivered"]
  /\ stack' = Append(stack, c)
  /\ UNCHANGED <<engine, up, home, kept, exported, owned, held, count, alive>>

\* onFutureSettled: the channel releases the arguments, whatever became of the
\* answer.
Settled(c) ==
  /\ Free({Arg(c)})
  /\ phase' = [phase EXCEPT ![c] = "answered"]
  /\ UNCHANGED <<engine, up, home, kept, exported, owned, held>>

AnswerEnds(c) ==
  /\ OnTop(c, "answering")
  /\ stack' = Pop /\ Settled(c)
  /\ UNCHANGED outcome

AnswerFails(c) ==
  /\ stack = <<>> /\ phase[c] = "released" /\ ~CanSettle(c)
  /\ outcome' = [outcome EXCEPT ![c] = "lost"]
  /\ Settled(c)
  /\ UNCHANGED stack

\* Third microtask: the resolving functions are given back.
BugGivenBack(c) == {Res(c)}
GivenBack(c)    == {Holder(c)}

FreeSettlers(c) ==
  /\ stack = <<>> /\ phase[c] = "answered"
  /\ Free(GivenBack(c))
  /\ phase' = [phase EXCEPT ![c] = "done"]
  /\ UNCHANGED <<engine, up, stack, home, kept, outcome, exported, owned, held>>

-----------------------------------------------------------------------------
(* The application. *)

\* A handler, or the asynchronous rest of it, keeps its argument.
Keep(c) ==
  /\ OnTop(c, "running") \/ (stack = <<>> /\ phase[c] = "pending")
  /\ kept[c] < MaxKept
  /\ kept' = [kept EXCEPT ![c] = @ + 1]
  /\ Create({}, {Arg(c)}, {})
  /\ UNCHANGED <<engine, up, stack, phase, home, outcome, exported, owned, held>>

Drop(c) ==
  /\ DartRuns /\ kept[c] > 0
  /\ kept' = [kept EXCEPT ![c] = @ - 1]
  /\ Free({Arg(c)})
  /\ UNCHANGED <<engine, up, stack, phase, home, outcome, exported, owned, held>>

\* Dart gives JavaScript its function, as often as it likes.
GiveFunction(e) ==
  /\ up /\ DartRuns /\ Func \in alive
  /\ Export(e) \notin alive /\ e \notin exported
  /\ Create({Export(e)}, {}, {})
  /\ exported' = exported \cup {e}
  /\ UNCHANGED <<engine, up, stack, phase, home, kept, outcome, owned, held>>

FreeFunction ==
  /\ DartRuns /\ owned
  /\ owned' = FALSE
  /\ Free({Func})
  /\ UNCHANGED <<engine, up, stack, phase, home, kept, outcome, exported, held>>

\* The engine collects an object that stands for the function, and its
\* finalizer frees the _DartObject that the address leads to.
Collect(e) ==
  /\ JsRuns /\ e \in exported
  /\ exported' = exported \ {e}
  /\ Free({Export(e)} \cap alive)
  /\ UNCHANGED <<engine, up, stack, phase, home, kept, outcome, owned, held>>

\* evaluate() returns a function: one reference is the value, one the result's.
Evaluate(v) ==
  /\ up /\ DartRuns /\ held[v].home = 0
  /\ Create({Value(v), Native(v)}, {}, {})
  /\ held' = [held EXCEPT ![v] = [home |-> engine, result |-> TRUE, value |-> TRUE]]
  /\ UNCHANGED <<engine, up, stack, phase, home, kept, outcome, exported, owned>>

FreeValue(v) ==
  /\ DartRuns /\ held[v].value
  /\ held' = [held EXCEPT ![v].value = FALSE]
  /\ Free({Value(v)})
  /\ UNCHANGED <<engine, up, stack, phase, home, kept, outcome, exported, owned>>

\* Dart's garbage collector has found the result unreachable: the Finalizer
\* destroys its reference, also when the engine is long gone.
Finalize(v) ==
  /\ DartRuns /\ held[v].result
  /\ held' = [held EXCEPT ![v].result = FALSE]
  /\ Less({}, {Native(v)} \cap alive)
  /\ UNCHANGED <<engine, up, stack, phase, home, kept, outcome, exported, owned>>

-----------------------------------------------------------------------------
(* The engine. *)

\* close(), when its drain is over: the calls of the drain are calls before it.
\* jsReleaseRuntimeRefs destroys what is left; the finalizers that freeing the
\* context runs find nothing.
Close ==
  /\ up /\ stack = <<>>
  /\ up' = FALSE /\ exported' = {}
  /\ Less({}, InEngine \cap alive)
  /\ UNCHANGED <<engine, stack, phase, home, kept, outcome, owned, held>>

\* The next evaluate() makes a new engine.
EnsureEngine ==
  /\ ~up /\ engine < MaxEngines
  /\ engine' = engine + 1 /\ up' = TRUE
  /\ UNCHANGED <<stack, phase, home, kept, outcome, exported, owned, held, count, alive>>

Act ==
  \/ \E c \in Calls :
        \/ Call(c) \/ CallFails(c) \/ HandlerReturns(c) \/ HandlerDefers(c)
        \/ Convert(c) \/ ReleaseThrown(c) \/ ConvertError(c) \/ ThrewArgument(c)
        \/ Complete(c) \/ Answer(c) \/ AnswerEnds(c) \/ AnswerFails(c)
        \/ FreeSettlers(c) \/ Keep(c) \/ Drop(c)
  \/ \E e \in Exports : GiveFunction(e) \/ Collect(e)
  \/ \E v \in Results : Evaluate(v) \/ FreeValue(v) \/ Finalize(v)
  \/ FreeFunction \/ Close \/ EnsureEngine

Next == ~Crashed /\ Act

\* JavaScript and Dart handlers return, and microtasks run.  A future that a
\* handler returned need not complete.
Return(c) ==
  HandlerReturns(c) \/ Convert(c) \/ ReleaseThrown(c) \/ ConvertError(c) \/ AnswerEnds(c)
Microtask(c) == Answer(c) \/ AnswerFails(c) \/ FreeSettlers(c)

Fairness ==
  /\ WF_vars(~Crashed /\ \E c \in Calls : Return(c))
  /\ \A c \in Calls : WF_vars(~Crashed /\ Microtask(c))

Spec     == Init /\ [][Next]_vars
FairSpec == Spec /\ Fairness

-----------------------------------------------------------------------------
TypeOK ==
  /\ engine \in 1 .. MaxEngines /\ up \in BOOLEAN
  /\ stack \in Seq(Calls)
  /\ phase \in [Calls -> Phases]
  /\ home \in [Calls -> 0 .. MaxEngines]
  /\ kept \in [Calls -> 0 .. MaxKept]
  /\ outcome \in [Calls -> Outcomes]
  /\ exported \subseteq Exports /\ owned \in BOOLEAN
  /\ held \in [Results -> [home : 0 .. MaxEngines, result : BOOLEAN, value : BOOLEAN]]
  /\ count \in [Refs -> Int]
  /\ alive \subseteq Refs
  /\ \A r \in alive : count[r] >= 0

AtHome(c) == up /\ home[c] = engine

\* While its engine lives, an argument is there for the handler, for the value or
\* the future that may answer with it, and for whoever keeps it; and no longer.
\* It is not there for an error that is made of it, unless it is kept.  An argument
\* of a call that failed before its handler stays as long as the engine.
ArgumentsLive ==
  \A c \in Calls :
    Arg(c) \in alive <=>
      /\ AtHome(c)
      /\ phase[c] \notin {"failing", "answered", "done"} \/ kept[c] > 0

\* A promise can be settled until it has been, and then its resolving functions
\* are gone: every future that completes is paid back.
SettlersLive ==
  \A c \in Calls, settler \in {"resolve", "holder"} :
    <<settler, c>> \in alive <=>
      AtHome(c) /\ phase[c] \in {"pending", "released", "answering", "answered"}

\* The Dart function that JavaScript was given lives as long as the application
\* or any of the objects that stand for it needs it, across close().
FunctionLives ==
  /\ Func \in alive <=> owned \/ exported # {}
  /\ \A e \in Exports : Export(e) \in alive <=> e \in exported

\* A value that evaluate returned can be called and passed while the application
\* has it and its engine lives, whatever happens to the result it came in.
ResultsLive ==
  \A v \in Results :
    LET here == up /\ held[v].home = engine
    IN  /\ Value(v) \in alive <=> here /\ held[v].value
        /\ Native(v) \in alive <=> here /\ held[v].result

\* So no reference dies before its time but an argument that is thrown, none stays
\* but an argument of a failed call, and no reference to an engine survives it.
ReferencesLive == ArgumentsLive /\ SettlersLive /\ FunctionLives /\ ResultsLive

\* An answer is lost only when the engine it was for has been closed, and none
\* reaches another engine.
AnswersFindTheirEngine ==
  [][\A c \in Calls :
       outcome'[c] # outcome[c] =>
         (outcome'[c] = "lost" <=> ~AtHome(c))]_vars

\* A call whose handler's future has completed gives everything back, though its
\* promise may be gone and its answer with it, unless the process crashes first.
CompletedCallsEnd ==
  \A c \in Calls :
    phase[c] = "released" ~>
      \/ Crashed
      \/ /\ {Res(c), Holder(c)} \cap alive = {}
         /\ kept[c] = 0 => Arg(c) \notin alive
=============================================================================
