--------------------------- MODULE IsolateSession ---------------------------
(***************************************************************************)
(* IsolateQjs (lib/quickjs/isolate.dart): an engine in a worker isolate.   *)
(* evaluate() and close() wait for the worker's port, send a request with  *)
(* a reply port and wait for the reply or the failure of the session.      *)
(* close() lets go of the session at once, so the next evaluate() starts a *)
(* new worker while the old one still answers, exits or crashes.           *)
(*                                                                         *)
(* A worker that imports a module blocks its thread until the module       *)
(* handler, which runs in the main isolate, has written the text; the      *)
(* handler may itself call evaluate() and wait.                            *)
(*                                                                         *)
(* Messages of one isolate to another arrive in order; what different      *)
(* workers send arrives in any order.                                      *)
(***************************************************************************)
EXTENDS Naturals, Sequences

CONSTANTS MaxRequests,  \* bound: calls of evaluate() and close()
          MaxSessions,  \* bound: workers
          MaxModules    \* bound: modules a worker asks for

ASSUME BoundsAssumption ==
  MaxRequests \in Nat /\ MaxSessions \in Nat /\ MaxModules \in Nat

VARIABLES
  current,    \* _session; 0: null
  started,    \* sessions so far
  ready,      \* session.ready
  failure,    \* session.failure, and why
  closing,    \* session.closing
  ports,      \* sessions whose port, errorPort and exitPort are open
  listeners,  \* requests that wait for session.ready, in the order of their calls
  micro,      \* microtasks of the main isolate: requests that go on
  calls,      \* requests so far
  kind,       \* evaluate or close
  session,    \* the session a request belongs to
  at,         \* where a request stands
  result,     \* how a request ended
  worker,     \* state of the worker isolate
  inbox,      \* requests on their way to the worker
  outbox,     \* messages of the worker on their way to the main isolate
  exported,   \* workers that opened a port for functions they passed out
  modules,    \* modules asked for so far
  handling,   \* sessions whose module handler is at work
  awaited     \* the evaluate() that this handler awaits; 0: none

sessionVars == <<current, started, ready, failure, closing, ports>>
requestVars == <<calls, kind, session, at, result>>
workerVars  == <<worker, inbox, exported>>
lookupVars  == <<modules, handling, awaited>>
vars == <<sessionVars, listeners, micro, requestVars, workerVars, outbox,
          lookupVars>>

Requests == 1 .. MaxRequests
Sessions == 1 .. MaxSessions
Listens  == {"listening", "importing"}
Own      == {"port", "module", "error", "exit"}  \* messages to the session's ports

Init ==
  /\ current = 0 /\ started = 0 /\ calls = 0
  /\ ready = [s \in Sessions |-> "waiting"]
  /\ failure = [s \in Sessions |-> "none"]
  /\ closing = {} /\ ports = {} /\ exported = {}
  /\ listeners = [s \in Sessions |-> <<>>]
  /\ micro = <<>>
  /\ kind = [r \in Requests |-> "none"]
  /\ session = [r \in Requests |-> 0]
  /\ at = [r \in Requests |-> "unused"]
  /\ result = [r \in Requests |-> "none"]
  /\ worker = [s \in Sessions |-> "none"]
  /\ inbox = [s \in Sessions |-> <<>>]
  /\ outbox = [s \in Sessions |-> <<>>]
  /\ modules = 0
  /\ handling = {} /\ awaited = [s \in Sessions |-> 0]

----------------------------------------------------------------------------
\* The main isolate.

\* The Bug... definitions are mistakes the code could contain, which show that
\* a property can fail; no specification uses them.

\* A request awaits session.ready: behind those that wait already, or, when the
\* future is completed, as the next microtask.
BugQueued(seq, r) == <<r>> \o seq
Queued(seq, r)    == Append(seq, r)

Await(r, s) ==
  IF ready[s] = "waiting"
  THEN /\ listeners' = [listeners EXCEPT ![s] = Queued(@, r)]
       /\ UNCHANGED micro
  ELSE /\ micro' = Append(micro, r)
       /\ UNCHANGED listeners

Issue(r, s, what) ==
  /\ calls' = calls + 1
  /\ kind' = [kind EXCEPT ![r] = what]
  /\ session' = [session EXCEPT ![r] = s]
  /\ at' = [at EXCEPT ![r] = "waiting"]
  /\ Await(r, s)

\* evaluate(): the session is the current one or a new one, whose spawn begins.
Evaluate ==
  LET r   == calls + 1
      new == started + 1
  IN  /\ calls < MaxRequests
      /\ IF current # 0
         THEN /\ Issue(r, current, "evaluate")
              /\ UNCHANGED <<current, started, ports, worker>>
         ELSE /\ started < MaxSessions
              /\ Issue(r, new, "evaluate")
              /\ current' = new /\ started' = new
              /\ ports' = ports \cup {new}
              /\ worker' = [worker EXCEPT ![new] = "spawning"]
      /\ UNCHANGED <<ready, failure, closing, result, inbox, outbox, exported,
                     modules>>

Close ==
  /\ current # 0 /\ calls < MaxRequests
  /\ Issue(calls + 1, current, "close")
  /\ closing' = closing \cup {current}
  /\ current' = 0
  /\ UNCHANGED <<started, ready, failure, ports, result, workerVars, outbox,
                 lookupVars>>

\* How a request ends when its session fails: a close() that finds the worker
\* gone as it should be has succeeded.
BugRaw(what, why)     == why
Outcome(what, why)    == IF what = "close" /\ why = "closed" THEN "value" ELSE "error"

\* A microtask: the request is sent, or ends if the session has failed.
Continue ==
  LET r == Head(micro)
      s == session[r]
  IN  /\ micro # <<>>
      /\ micro' = Tail(micro)
      /\ IF failure[s] = "none"
         THEN /\ at' = [at EXCEPT ![r] = "sent"]
              /\ inbox' = IF worker[s] \in Listens
                          THEN [inbox EXCEPT ![s] = Append(@, r)] ELSE inbox
              /\ UNCHANGED result
         ELSE /\ at' = [at EXCEPT ![r] = "done"]
              /\ result' = [result EXCEPT ![r] =
                   IF ready[s] = "failed" THEN "error"
                   ELSE Outcome(kind[r], failure[s])]
              /\ UNCHANGED inbox
      /\ UNCHANGED <<sessionVars, listeners, calls, kind, session, worker, outbox,
                     exported, lookupVars>>

\* fail(): who waits for the worker or for a reply is told; the session is
\* forgotten unless another has taken its place.
BugWoken(s)     == <<>>
Woken(s)        == listeners[s]
Ended(s) == {r \in Requests : at[r] = "sent" /\ session[r] = s}
BugForgotten(s) == 0
Forgotten(s)    == IF current = s THEN 0 ELSE current

FailSession(s, why) ==
  LET ended == Ended(s)
  IN  /\ failure' = [failure EXCEPT ![s] = why]
      /\ ready' = [ready EXCEPT ![s] = IF @ = "waiting" THEN "failed" ELSE @]
      /\ micro' = IF ready[s] = "waiting" THEN micro \o Woken(s) ELSE micro
      /\ listeners' = [listeners EXCEPT ![s] = <<>>]
      /\ at' = [r \in Requests |-> IF r \in ended THEN "done" ELSE at[r]]
      /\ result' = [r \in Requests |->
                      IF r \in ended THEN Outcome(kind[r], why) ELSE result[r]]
      /\ current' = Forgotten(s)
      /\ ports' = ports \ {s}

SpawnFails(s) ==
  /\ micro = <<>>
  /\ worker[s] = "spawning"
  /\ worker' = [worker EXCEPT ![s] = "crashed"]
  /\ FailSession(s, "failed")
  /\ UNCHANGED <<started, closing, calls, kind, session, inbox, outbox, exported,
                 lookupVars>>

\* An event of the main isolate: the next message of a worker.  A reply is taken
\* by its reply port, which is closed when the request has ended.
StillOpen(r) == at[r] = "sent"

Receive(s) ==
  LET m == Head(outbox[s])
  IN  /\ micro = <<>>
      /\ outbox[s] # <<>>
      /\ outbox' = [outbox EXCEPT ![s] = Tail(@)]
      /\ \/ /\ m.type = "port" /\ s \in ports
            /\ ready' = [ready EXCEPT ![s] = "ready"]
            /\ micro' = micro \o Woken(s)
            /\ listeners' = [listeners EXCEPT ![s] = <<>>]
            /\ UNCHANGED <<current, failure, ports, at, result, handling>>
         \/ /\ m.type = "module" /\ s \in ports
            /\ handling' = handling \cup {s}
            /\ UNCHANGED <<current, ready, failure, ports, listeners, micro, at,
                           result>>
         \/ /\ m.type = "error" /\ s \in ports
            /\ FailSession(s, "failed")
            /\ UNCHANGED handling
         \/ /\ m.type = "exit" /\ s \in ports
            /\ FailSession(s, IF s \in closing THEN "closed" ELSE "failed")
            /\ UNCHANGED handling
         \/ /\ m.type \in {"value", "fault"} /\ StillOpen(m.of)
            /\ at' = [at EXCEPT ![m.of] = "done"]
            /\ result' = [result EXCEPT ![m.of] =
                            IF m.type = "value" THEN "value" ELSE "error"]
            /\ UNCHANGED <<current, ready, failure, ports, listeners, micro, handling>>
         \/ /\ m.type \in Own => s \notin ports
            /\ m.type \notin Own => ~StillOpen(m.of)
            /\ UNCHANGED <<current, ready, failure, ports, listeners, micro, at,
                           result, handling>>
      /\ UNCHANGED <<started, closing, calls, kind, session, workerVars, modules,
                    awaited>>

\* The module handler calls evaluate() and awaits it.
HandlerEvaluates(s) ==
  /\ s \in handling /\ awaited[s] = 0
  /\ Evaluate
  /\ awaited' = [awaited EXCEPT ![s] = calls + 1]
  /\ UNCHANGED handling

\* The module handler writes the text, or -1, into the worker's memory.
HandlerEnds(s) ==
  /\ s \in handling
  /\ awaited[s] # 0 => at[awaited[s]] = "done"
  /\ handling' = handling \ {s} /\ awaited' = [awaited EXCEPT ![s] = 0]
  /\ worker' = [worker EXCEPT ![s] = IF @ = "importing" THEN "listening" ELSE @]
  /\ UNCHANGED <<sessionVars, listeners, micro, requestVars, inbox, outbox, exported,
                 modules>>

----------------------------------------------------------------------------
\* The workers.

Post(s, m) == outbox' = [outbox EXCEPT ![s] = Append(@, m)]

Start(s) ==
  /\ worker[s] = "spawning"
  /\ worker' = [worker EXCEPT ![s] = "listening"]
  /\ Post(s, [type |-> "port", of |-> 0])
  /\ UNCHANGED <<sessionVars, listeners, micro, requestVars, inbox, exported, lookupVars>>

\* The script of the next request imports a module, or a job that close() drains
\* calls import(): the thread waits.
Import(s) ==
  /\ worker[s] = "listening" /\ inbox[s] # <<>>
  /\ modules < MaxModules
  /\ modules' = modules + 1
  /\ worker' = [worker EXCEPT ![s] = "importing"]
  /\ Post(s, [type |-> "module", of |-> 0])
  /\ UNCHANGED <<sessionVars, listeners, micro, requestVars, inbox, exported, handling,
                 awaited>>

\* A rejection that nobody handled is passed out with a function in it: the
\* worker opens a port to be called on (IsolateFunction._handlePort).
Export(s) ==
  /\ worker[s] = "listening" /\ s \notin exported
  /\ exported' = exported \cup {s}
  /\ UNCHANGED <<sessionVars, listeners, micro, requestVars, worker, inbox, outbox,
                 lookupVars>>

\* The script of the next request ends, or its result cannot be sent.
Reply(s, how) ==
  /\ worker[s] = "listening" /\ inbox[s] # <<>>
  /\ kind[Head(inbox[s])] = "evaluate"
  /\ inbox' = [inbox EXCEPT ![s] = Tail(@)]
  /\ Post(s, [type |-> how, of |-> Head(inbox[s])])
  /\ UNCHANGED <<sessionVars, listeners, micro, requestVars, worker, exported, lookupVars>>

\* The worker frees its engine and closes its port; what is still on the way to
\* it is lost.
Shut(s) ==
  /\ worker[s] = "listening" /\ inbox[s] # <<>>
  /\ kind[Head(inbox[s])] = "close"
  /\ worker' = [worker EXCEPT ![s] = "closed"]
  /\ Post(s, [type |-> "value", of |-> Head(inbox[s])])
  /\ inbox' = [inbox EXCEPT ![s] = <<>>]
  /\ UNCHANGED <<sessionVars, listeners, micro, requestVars, exported, lookupVars>>

\* The engine reports what was left over when it is freed as an error, which is
\* the answer; the port stays open, so the isolate never exits.  As close() was
\* the last request of the session, nobody writes to that port.
ShutFails(s) ==
  /\ worker[s] = "listening" /\ inbox[s] # <<>>
  /\ kind[Head(inbox[s])] = "close"
  /\ worker' = [worker EXCEPT ![s] = "leaked"]
  /\ Post(s, [type |-> "fault", of |-> Head(inbox[s])])
  /\ inbox' = [inbox EXCEPT ![s] = Tail(@)]
  /\ UNCHANGED <<sessionVars, listeners, micro, requestVars, exported, lookupVars>>

\* An isolate exits when it has no open port.
Exit(s) ==
  /\ worker[s] = "closed" /\ s \notin exported
  /\ worker' = [worker EXCEPT ![s] = "exited"]
  /\ Post(s, [type |-> "exit", of |-> 0])
  /\ UNCHANGED <<sessionVars, listeners, micro, requestVars, inbox, exported, lookupVars>>

\* An uncaught error is fatal; it and the exit are reported.
Crash(s) ==
  /\ worker[s] = "listening"
  /\ worker' = [worker EXCEPT ![s] = "crashed"]
  /\ inbox' = [inbox EXCEPT ![s] = <<>>]
  /\ outbox' = [outbox EXCEPT ![s] =
                  @ \o <<[type |-> "error", of |-> 0], [type |-> "exit", of |-> 0]>>]
  /\ UNCHANGED <<sessionVars, listeners, micro, requestVars, exported, lookupVars>>

----------------------------------------------------------------------------
Next ==
  \/ Evaluate /\ UNCHANGED <<handling, awaited>>
  \/ Close \/ Continue
  \/ \E s \in Sessions :
       \/ SpawnFails(s) \/ Receive(s) \/ HandlerEvaluates(s) \/ HandlerEnds(s)
       \/ Start(s) \/ Import(s) \/ Export(s) \/ Exit(s) \/ Crash(s)
       \/ Shut(s) \/ ShutFails(s)
       \/ \E how \in {"value", "fault"} : Reply(s, how)

\* Isolates run, microtasks and messages are served, and a module handler ends if
\* what it awaits does.
Fairness ==
  /\ WF_vars(Continue)
  /\ \A s \in Sessions :
       /\ WF_vars(SpawnFails(s) \/ Start(s)) /\ SF_vars(Receive(s))
       /\ SF_vars(HandlerEnds(s))
       /\ WF_vars(Shut(s) \/ ShutFails(s) \/ \E how \in {"value", "fault"} : Reply(s, how))
       /\ WF_vars(Exit(s))

Spec == Init /\ [][Next]_vars
FairSpec == Spec /\ Fairness

----------------------------------------------------------------------------
Messages ==
  [type : Own \cup {"value", "fault"}, of : {0} \cup Requests]

TypeOK ==
  /\ current \in 0 .. started /\ started \in 0 .. MaxSessions
  /\ ready \in [Sessions -> {"waiting", "ready", "failed"}]
  /\ failure \in [Sessions -> {"none", "failed", "closed"}]
  /\ closing \subseteq Sessions /\ ports \subseteq Sessions
  /\ exported \subseteq Sessions
  /\ listeners \in [Sessions -> Seq(Requests)] /\ micro \in Seq(Requests)
  /\ calls \in 0 .. MaxRequests /\ modules \in 0 .. MaxModules
  /\ kind \in [Requests -> {"none", "evaluate", "close"}]
  /\ session \in [Requests -> {0} \cup Sessions]
  /\ at \in [Requests -> {"unused", "waiting", "sent", "done"}]
  /\ result \in [Requests -> {"none", "value", "error"}]
  /\ worker \in [Sessions -> {"none", "spawning", "closed", "leaked", "exited",
                                "crashed"} \cup Listens]
  /\ inbox \in [Sessions -> Seq(Requests)]
  /\ outbox \in [Sessions -> Seq(Messages)]
  /\ handling \subseteq Sessions /\ awaited \in [Sessions -> {0} \cup Requests]

\* A worker gets the requests of its session in the order of the calls, however
\* late it started, so no request is lost behind the close(); and close() succeeds
\* only when the worker has freed its engine.
CloseIsOrderly ==
  /\ \A s \in Sessions :
       /\ \A i, j \in DOMAIN inbox[s] : i < j => inbox[s][i] < inbox[s][j]
       /\ worker[s] \in {"closed", "exited"} =>
            \A r \in Requests :
              session[r] = s /\ at[r] \in {"waiting", "sent"} =>
                \E i \in DOMAIN outbox[s] : outbox[s][i].of = r
  /\ \A r \in Requests :
       kind[r] = "close" /\ result[r] = "value" =>
         worker[session[r]] \in {"closed", "exited"}

\* The session that evaluate() uses is exactly the one that has neither failed nor
\* been closed: a late exit or error of an old worker does not lose the new one.
CurrentIsTheLiveOne ==
  \A s \in 1 .. started :
    current = s <=> failure[s] = "none" /\ s \notin closing

\* Every request ends, whatever becomes of the worker, save when a module handler
\* waits for the very worker that waits for it.
Deadlocked(s) ==
  /\ worker[s] = "importing"
  /\ awaited[s] # 0
  /\ session[awaited[s]] = s

RequestsEnd ==
  \A r \in Requests :
    at[r] \in {"waiting", "sent"}
      ~> (at[r] = "done" \/ \E s \in Sessions : Deadlocked(s))
=============================================================================
