----------------------------- MODULE QjsPromise -----------------------------
(***************************************************************************)
(* Promises and jobs in the engine (linux/quickjs/upstream/quickjs.c):     *)
(* what FutureWatch and JsRefs take for granted of the promises that Dart  *)
(* futures become, and of the reactions that complete Dart futures.        *)
(*                                                                         *)
(* Resolving functions come in pairs that share already_resolved.  A       *)
(* promise that is resolved with a thenable is settled later, by a second  *)
(* pair that a job gives to the thenable's then().  Settling a promise     *)
(* moves its reactions to the job queue; a job runs a handler and resolves *)
(* the promise that then() returned, resumes an async function, or passes  *)
(* the settlement on to a promise that follows.                            *)
(*                                                                         *)
(* Values are left out, as far as they are not promises or thenables; so   *)
(* are a failing allocation, and the interrupt of a job (ExecutionTimeout).*)
(***************************************************************************)
EXTENDS Naturals, Sequences

CONSTANTS
  Promises,
  MaxPairs,      \* bound: pairs of resolving functions, for each promise
  MaxReactions   \* bound: reactions that JavaScript attaches to a promise

ASSUME PairsAssumption == MaxPairs \in [Promises -> Nat \ {0}]

VARIABLES
  state,      \* promise_state; "unborn" before the promise is made
  pairs,      \* how many pairs of resolving functions a promise has been given
  resolved,   \* pairs with already_resolved
  held,       \* pairs that JavaScript or Dart can call
  reactions,  \* promise_reactions of each promise
  handled,    \* promises with is_handled
  jobs,       \* job_list
  running,    \* the JavaScript that runs: none, a script, or the handler of a job
  reported,   \* promises whose rejection was reported to the host
  attached,   \* history: the reactions of each promise, as they were attached
  started     \* history: and as their jobs were run

vars == <<state, pairs, resolved, held, reactions, handled, jobs, running,
          reported, attached, started>>

Pairs == {f \in Promises \X Nat : f[2] \in 1 .. MaxPairs[f[1]]}

\* What a reaction does with a value and with an error, and the pair it settles:
\* a handler of then() for both, for one of them, the two closures of an async
\* function, or the resolving functions of a promise that follows.
Kinds     == {"both", "value", "error", "async", "follow"}
Reactions == [kind : Kinds, to : Pairs]
Jobs      == [type : {"reaction"}, on : Promises, reaction : Reactions, reject : BOOLEAN]
               \cup [type : {"thenable"}, promise : Promises, of : Promises \cup {"foreign"}]
Frames    == [type : {"none", "script"}]
               \cup [type : {"handler"}, reaction : Reactions]
               \cup [type : {"then"}, to : Pairs]

None   == [type |-> "none"]
Script == [type |-> "script"]
InJs   == running # None

\* What a promise can be resolved with: something without then, a promise, another
\* thenable, an object whose then throws.
Resolutions == {"plain", "foreign", "hostile"} \cup Promises

Init ==
  /\ state = [p \in Promises |-> "unborn"]
  /\ pairs = [p \in Promises |-> 0]
  /\ resolved = {} /\ held = {} /\ handled = {} /\ reported = {}
  /\ reactions = [p \in Promises |-> <<>>]
  /\ jobs = <<>> /\ running = None
  /\ attached = [p \in Promises |-> <<>>]
  /\ started = [p \in Promises |-> <<>>]

-----------------------------------------------------------------------------
\* The Bug... definitions are mistakes the code could contain, which show that
\* a property can fail; no specification uses them.

BugEnqueued(queue, new) == new \o queue
Enqueued(queue, new)    == queue \o new

ReactionJobs(p, rs, reject) ==
  [i \in DOMAIN rs |-> [type |-> "reaction", on |-> p, reaction |-> rs[i], reject |-> reject]]

\* fulfill_or_reject_promise: the reactions become jobs, and a rejection that
\* nobody has asked for is reported.
BugUnheard(p) == FALSE
Unheard(p)    == p \notin handled

Settle(p, reject, queue) ==
  IF state[p] # "pending"
  THEN jobs' = queue /\ UNCHANGED <<state, reactions, reported>>
  ELSE /\ state' = [state EXCEPT ![p] = IF reject THEN "rejected" ELSE "fulfilled"]
       /\ jobs' = Enqueued(queue, ReactionJobs(p, reactions[p], reject))
       /\ reactions' = [reactions EXCEPT ![p] = <<>>]
       /\ reported' = IF reject /\ Unheard(p) THEN reported \cup {p} ELSE reported

\* js_promise_resolve_function_call for a pair, with a rest of the job queue.
BugSpent(f) == state[f[1]] \notin {"unborn", "pending"}
Spent(f)    == f \in resolved

Resolve(f, reject, with, queue) ==
  LET p == f[1]
  IN  IF Spent(f)
      THEN jobs' = queue /\ UNCHANGED <<state, reactions, reported, resolved>>
      ELSE /\ resolved' = resolved \cup {f}
           /\ IF reject \/ with = "plain" THEN Settle(p, reject, queue)
              ELSE IF with \in {p, "hostile"} THEN Settle(p, TRUE, queue)
              ELSE /\ jobs' = Enqueued(queue,
                                <<[type |-> "thenable", promise |-> p, of |-> with]>>)
                   /\ UNCHANGED <<state, reactions, reported>>

\* perform_promise_then
Attach(p, r, queue) ==
  /\ IF state[p] = "pending"
     THEN /\ reactions' = [reactions EXCEPT ![p] = Append(@, r)]
          /\ jobs' = queue
     ELSE /\ jobs' = Enqueued(queue, ReactionJobs(p, <<r>>, state[p] = "rejected"))
          /\ UNCHANGED reactions
  /\ handled' = handled \cup {p}
  /\ attached' = [attached EXCEPT ![p] = Append(@, r)]

\* A promise is made, with its first pair.
NewPair(p) == <<p, pairs[p] + 1>>
Make(p) ==
  /\ state[p] = "unborn"
  /\ state' = [state EXCEPT ![p] = "pending"]
  /\ pairs' = [pairs EXCEPT ![p] = 1]

Born(p) == state[p] # "unborn"

-----------------------------------------------------------------------------
(* JavaScript that runs. *)

StartScript ==
  /\ running = None
  /\ running' = Script
  /\ UNCHANGED <<state, pairs, resolved, held, reactions, handled, jobs, reported,
                 attached, started>>

\* new Promise(...), Promise.withResolvers(), or the promise of a Dart future.
NewPromise(p) ==
  /\ InJs /\ Make(p)
  /\ held' = held \cup {<<p, 1>>}
  /\ UNCHANGED <<resolved, reactions, handled, jobs, running, reported, attached, started>>

\* p.then(...), which makes q; or an async function, whose promise is q, that
\* comes to its first await.
Then(p, q, kind) ==
  /\ InJs /\ Born(p) /\ p # q
  /\ Len(attached[p]) < MaxReactions
  /\ Make(q)
  /\ Attach(p, [kind |-> kind, to |-> <<q, 1>>], jobs)
  /\ UNCHANGED <<resolved, held, running, reported, started>>

\* The bound keeps a pair for the thenable.
Fits(f, reject, with) ==
  f[2] < MaxPairs[f[1]] \/ reject \/ with \in {"plain", "hostile", f[1]}

\* A resolving function is called.
CallSettler(f, reject, with) ==
  /\ InJs /\ f \in held
  /\ with \in Promises => Born(with)
  /\ Fits(f, reject, with)
  /\ Resolve(f, reject, with, jobs)
  /\ UNCHANGED <<pairs, held, handled, running, attached, started>>

\* The script ends.
ScriptEnds ==
  /\ running = Script
  /\ running' = None
  /\ UNCHANGED <<state, pairs, resolved, held, reactions, handled, jobs, reported,
                 attached, started>>

\* The handler of a job ends: with a value, which may be a promise, or an error.
HandlerEnds(reject, with) ==
  /\ running.type = "handler"
  /\ with \in Promises => Born(with)
  /\ Fits(running.reaction.to, reject, with)
  /\ Resolve(running.reaction.to, reject, with, jobs)
  /\ running' = None
  /\ UNCHANGED <<pairs, held, handled, attached, started>>

\* An async function awaits the next promise.
Await(p) ==
  /\ running.type = "handler" /\ running.reaction.kind = "async"
  /\ Born(p) /\ Len(attached[p]) < MaxReactions
  /\ Attach(p, running.reaction, jobs)
  /\ running' = None
  /\ UNCHANGED <<state, pairs, resolved, held, reported, started>>

\* The then() of a foreign thenable returns, or throws.
ThenEnds(throws) ==
  /\ running.type = "then"
  /\ IF throws THEN Resolve(running.to, TRUE, "plain", jobs)
     ELSE UNCHANGED <<state, reactions, jobs, reported, resolved>>
  /\ running' = None
  /\ UNCHANGED <<pairs, held, handled, attached, started>>

-----------------------------------------------------------------------------
(* JS_ExecutePendingJob, called in the drains of the runtime. *)

Handles(kind, reject) == kind \in {"both", "async"} \cup (IF reject THEN {"error"} ELSE {"value"})

\* promise_reaction_job: a handler runs as JavaScript; without one the settlement
\* goes on to the pair.  It reads then of a value once more, which JavaScript may
\* have given to the object, or taken from a promise, in between.
RunReaction(with) ==
  LET job == Head(jobs)
      r   == job.reaction
  IN  /\ running = None /\ jobs # <<>> /\ job.type = "reaction"
      /\ with \in Promises => Born(with)
      /\ Fits(r.to, job.reject, with)
      /\ started' = [started EXCEPT ![job.on] = Append(@, r)]
      /\ IF Handles(r.kind, job.reject)
         THEN /\ running' = [type |-> "handler", reaction |-> r]
              /\ jobs' = Tail(jobs)
              /\ UNCHANGED <<state, reactions, reported, resolved>>
         ELSE /\ Resolve(r.to, job.reject, with, Tail(jobs))
              /\ UNCHANGED running
      /\ UNCHANGED <<pairs, held, handled, attached>>

\* js_promise_resolve_thenable_job: the promise gets a second pair, which a promise
\* calls by a reaction and a foreign thenable as it likes.
BugFollower(p) == <<p, 1>>
Follower(p)    == NewPair(p)

RunThenable ==
  LET job == Head(jobs)
      p   == job.promise
  IN  /\ running = None /\ jobs # <<>> /\ job.type = "thenable"
      /\ pairs' = [pairs EXCEPT ![p] = @ + 1]
      /\ IF job.of = "foreign"
         THEN /\ running' = [type |-> "then", to |-> NewPair(p)]
              /\ held' = held \cup {NewPair(p)}
              /\ jobs' = Tail(jobs)
              /\ UNCHANGED <<reactions, handled, attached>>
         ELSE /\ Attach(job.of, [kind |-> "follow", to |-> Follower(p)], Tail(jobs))
              /\ UNCHANGED <<running, held>>
      /\ UNCHANGED <<state, resolved, reported, started>>

Next ==
  \/ StartScript \/ ScriptEnds \/ RunThenable
  \/ \E p \in Promises : NewPromise(p) \/ Await(p)
  \/ \E p, q \in Promises, kind \in Kinds \ {"follow"} : Then(p, q, kind)
  \/ \E reject \in BOOLEAN, with \in Resolutions :
        \/ \E f \in held : CallSettler(f, reject, with)
        \/ HandlerEnds(reject, with)
        \/ RunReaction(with)
  \/ \E throws \in BOOLEAN : ThenEnds(throws)

\* JavaScript returns, and the application goes on draining the queue.
Fairness ==
  /\ WF_vars(ScriptEnds)
  /\ WF_vars(\E reject \in BOOLEAN : HandlerEnds(reject, "plain"))
  /\ WF_vars(ThenEnds(FALSE))
  /\ SF_vars(\E with \in Resolutions : RunReaction(with)) /\ SF_vars(RunThenable)

Spec     == Init /\ [][Next]_vars
FairSpec == Spec /\ Fairness

-----------------------------------------------------------------------------
TypeOK ==
  /\ state \in [Promises -> {"unborn", "pending", "fulfilled", "rejected"}]
  /\ pairs \in [Promises -> Nat] /\ \A p \in Promises : pairs[p] <= MaxPairs[p]
  /\ resolved \subseteq Pairs /\ held \subseteq Pairs
  /\ reactions \in [Promises -> Seq(Reactions)]
  /\ handled \subseteq Promises /\ reported \subseteq Promises
  /\ jobs \in Seq(Jobs) /\ running \in Frames
  /\ attached \in [Promises -> Seq(Reactions)]
  /\ started \in [Promises -> Seq(Reactions)]

\* Who may still decide about a promise: a pair that nobody has called, or a job
\* that will give one to a thenable.
Open(p) == {n \in 1 .. pairs[p] : <<p, n>> \notin resolved}
Due(p)  == {i \in DOMAIN jobs : jobs[i].type = "thenable" /\ jobs[i].promise = p}

\* Exactly one authority decides about a pending promise, and none about a settled
\* one, however often resolving functions are called and whatever follows what:
\* fulfill_or_reject_promise never finds a promise that is settled ("should never
\* happen", quickjs.c:53217), and no pending promise is given up.
OneAuthority ==
  \A p \in Promises :
    IF state[p] = "pending"
    THEN \/ Due(p) = {} /\ \E n \in Open(p) : Open(p) = {n}
         \/ Open(p) = {} /\ \E i \in Due(p) : Due(p) = {i}
    ELSE Open(p) = {} /\ Due(p) = {}

\* A queue holds the reactions numbered first to last of a promise, in this order
\* and for its settlement, and no others of this promise.
InLine(queue, p, rs, first, last, reject) ==
  \E place \in [first .. last -> DOMAIN queue] :
    /\ \A k, l \in first .. last : k < l => place[k] < place[l]
    /\ \A k \in first .. last :
         queue[place[k]] = [type |-> "reaction", on |-> p, reaction |-> rs[k], reject |-> reject]
    /\ \A i \in DOMAIN queue :
         queue[i].type = "reaction" /\ queue[i].on = p => \E k \in first .. last : place[k] = i

\* A reaction is run once, in the order in which the reactions were attached to
\* the promise, not before the promise is settled, and none is lost between the
\* promise, the job queue and its start.
ReactionsRunInOrder ==
  \A p \in Promises :
    LET done == Len(started[p])
        due  == Len(attached[p]) - Len(reactions[p])
    IN  /\ IF state[p] = "pending" THEN reactions[p] = attached[p] ELSE reactions[p] = <<>>
        /\ done <= due /\ \A k \in 1 .. done : started[p][k] = attached[p][k]
        /\ InLine(jobs, p, attached[p], done + 1, due, state[p] = "rejected")

\* No rejection is swallowed: the host hears of it, once, unless somebody attached
\* a reaction before; and what has no handler for it is rejected in turn.
RejectionsTravel ==
  \A p \in Promises :
    /\ p \in reported => state[p] = "rejected"
    /\ state[p] = "rejected" =>
         /\ attached[p] = <<>> => p \in reported
         /\ \A i \in DOMAIN started[p] :
              started[p][i].kind \in {"value", "follow"} =>
                state[started[p][i].to[1]] = "rejected"

\* What a pending promise waits for: JavaScript that can call its open pair, or
\* another pending promise that it follows, or whose handler will settle it.
HeldByJs(p)    == \E n \in Open(p) : <<p, n>> \in held
WaitsFor(p, q) == \E i \in DOMAIN reactions[q] :
                    \E n \in Open(p) : reactions[q][i].to = <<p, n>>

\* No promise is left behind: when a promise settles, those that follow it, or
\* were made by its then(), or await it in an async function, are settled, or go
\* on to wait for JavaScript or for what the value that was passed on has become.
NobodyIsLeftBehind ==
  []<>(\A p \in Promises :
         state[p] = "pending" => HeldByJs(p) \/ \E q \in Promises : WaitsFor(p, q))
=============================================================================
