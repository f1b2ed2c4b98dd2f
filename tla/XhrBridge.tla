----------------------------- MODULE XhrBridge -----------------------------
(***************************************************************************)
(* XMLHttpRequest (lib/extensions/xhr.dart) and what fetch() builds on it. *)
(* send() numbers the request, keeps its callback in the JavaScript table  *)
(* xhrRequests and queues a call in Dart; a poll Timer hands the queued    *)
(* calls to the HTTP client; an answer looks the number up in whatever     *)
(* engine and table are there when it comes.                               *)
(*                                                                         *)
(* The object may be aborted, opened and sent again meanwhile, a send may  *)
(* fail on its way to the queue, enableXhr may be called once more, and    *)
(* close() may replace the engine.                                         *)
(***************************************************************************)
EXTENDS Naturals, Sequences, FiniteSets

CONSTANTS Objects,      \* XMLHttpRequest objects of JavaScript
          MaxSends,     \* bound: calls of send()
          MaxLost,      \* bound: those that fail on their way to the queue
          MaxInstalls,  \* bound: calls of enableXhr()
          MaxCloses     \* bound: calls of close()

ASSUME BoundsAssumption ==
  /\ MaxSends \in Nat /\ MaxLost \in Nat
  /\ MaxInstalls \in Nat /\ MaxCloses \in Nat

VARIABLES
  active,      \* isRuntimeActive
  session,     \* history: number of the engine, counted by close()
  installs,    \* calls of enableXhr so far
  disposed,    \* those whose cleanup() has run
  current,     \* the one whose JavaScript is in the engine; 0: none
  next,        \* idRequest + 1
  table,       \* xhrRequests: the send whose callback a number leads to; 0: none
  queue,       \* dartContext["xhrPendingCalls"]
  flight,      \* calls the HTTP client works on, and who started them
  object,      \* readyState
  latest,      \* the last send() of an object; 0: none
  sends,       \* history: of which object, under which enableXhr and engine
  answeredBy,  \* history: the send whose reply finished a send; 0: none
  abandoned,   \* history: what took the object from a send that was loading
  lost,        \* history: sends that failed before their call was queued
  crossed      \* history: sends whose entry a reply of another enableXhr took

dartVars    == <<active, session, installs, disposed, current>>
jsVars      == <<next, table, object, latest>>
historyVars == <<sends, answeredBy, abandoned, lost, crossed>>
vars == <<dartVars, jsVars, queue, flight, historyVars>>

Sends  == 1 .. MaxSends
Ids    == 0 .. MaxSends
NoneIn == [i \in Ids |-> 0]
Live   == (1 .. installs) \ disposed

Init ==
  /\ active = TRUE /\ session = 1
  /\ installs = 0 /\ disposed = {} /\ current = 0
  /\ next = 0 /\ table = NoneIn
  /\ queue = <<>> /\ flight = {}
  /\ object = [x \in Objects |-> "unsent"]
  /\ latest = [x \in Objects |-> 0]
  /\ sends = <<>>
  /\ answeredBy = [s \in Sends |-> 0]
  /\ abandoned = [s \in Sends |-> "no"]
  /\ lost = {} /\ crossed = {}

----------------------------------------------------------------------------
\* enableXhr, the first time or once more in the same engine: the queue, the
\* table and the numbers start afresh, what is in flight goes on.
Enable ==
  /\ active /\ installs < MaxInstalls
  /\ installs' = installs + 1
  /\ current' = installs + 1
  /\ next' = 0 /\ table' = NoneIn /\ queue' = <<>>
  /\ UNCHANGED <<active, session, disposed, object, latest, flight, historyVars>>

\* open(), abort() and another send() only set the state; the request that was
\* loading stays in the table.
Abandon(x, how) ==
  abandoned' = IF object[x] = "loading"
               THEN [abandoned EXCEPT ![latest[x]] = how] ELSE abandoned

Open(x) ==
  /\ active /\ current # 0
  /\ object' = [object EXCEPT ![x] = "opened"]
  /\ Abandon(x, "replaced")
  /\ UNCHANGED <<dartVars, next, table, latest, queue, flight, sends, answeredBy,
                 lost, crossed>>

Abort(x) ==
  /\ active /\ object[x] # "unsent"
  /\ object' = [object EXCEPT ![x] = "unsent"]
  /\ Abandon(x, "aborted")
  /\ UNCHANGED <<dartVars, next, table, latest, queue, flight, sends, answeredBy,
                 lost, crossed>>

\* The Bug... definitions are mistakes the code could contain, which show that
\* a property can fail; no specification uses them.
BugNextId(n) == IF \A i \in Ids : table[i] = 0 THEN 0 ELSE n
NextId(n)    == n

\* How far send() gets: one of the object's handlers throws, the request cannot
\* be turned into a message or is not what the Dart handler expects (an error the
\* channel swallows), or its call is queued.
Outcomes == {"thrown", "unheard", "queued"}

\* send(), whatever the state of the object, up to the channel handler of
\* SendNative.
Send(x, how) ==
  LET s == Len(sends) + 1
  IN  /\ active /\ current # 0 /\ s <= MaxSends
      /\ object' = [object EXCEPT ![x] = "loading"]
      /\ latest' = [latest EXCEPT ![x] = s]
      /\ Abandon(x, "replaced")
      /\ sends' = Append(sends, [object  |-> x,
                                 install |-> current,
                                 session |-> session])
      /\ IF how = "thrown"
         THEN UNCHANGED <<next, table>>
         ELSE /\ next' = NextId(next) + 1
              /\ table' = [table EXCEPT ![NextId(next)] = s]
      /\ IF how = "queued"
         THEN /\ queue' = Append(queue, [id |-> NextId(next), send |-> s])
              /\ UNCHANGED lost
         ELSE /\ Cardinality(lost) < MaxLost
              /\ lost' = lost \cup {s}
              /\ UNCHANGED queue
      /\ UNCHANGED <<dartVars, flight, answeredBy, crossed>>

----------------------------------------------------------------------------
\* The poll Timer of an enableXhr takes the queue, whoever's calls it holds.
BugLeft  == queue
Left     == <<>>
BugTaken == {1}
Taken    == DOMAIN queue

Poll(i) ==
  /\ active /\ i \in Live
  /\ queue # <<>>
  /\ flight' = flight \cup
       {[id |-> queue[n].id, send |-> queue[n].send, install |-> i] :
          n \in Taken}
  /\ queue' = Left
  /\ UNCHANGED <<dartVars, jsVars, historyVars>>

\* _send_native_callback: an object that is not loading ignores the reply.
BugDone == "headers"
Done    == "done"

Receive(x, from) ==
  IF object[x] = "loading"
  THEN /\ object' = [object EXCEPT ![x] = Done]
       /\ answeredBy' = [answeredBy EXCEPT ![latest[x]] = from]
  ELSE UNCHANGED <<object, answeredBy>>

\* The script that a reply evaluates: it takes the callback out of the table and
\* calls it.  Where there is no such number, or no table, nothing happens.
Evaluate(c) ==
  LET s == table[c.id]
  IN  IF s = 0
      THEN UNCHANGED <<table, object, answeredBy, crossed>>
      ELSE /\ table' = [table EXCEPT ![c.id] = 0]
           /\ crossed' = IF sends[c.send].install = sends[s].install
                         THEN crossed ELSE crossed \cup {s}
           /\ Receive(sends[s].object, c.send)

\* The client answers; cleanup() of its enableXhr, or the end of the runtime,
\* means that nobody wants to know.
Reply(c) ==
  /\ c \in flight
  /\ flight' = flight \ {c}
  /\ IF active /\ c.install \in Live
     THEN Evaluate(c)
     ELSE UNCHANGED <<table, object, answeredBy, crossed>>
  /\ UNCHANGED <<dartVars, next, latest, queue, sends, abandoned, lost>>

\* The client fails, as it does when cleanup() closes it, or the answer cannot be
\* read: only the runtime is asked whether it is still there.
Fail(c) ==
  /\ c \in flight
  /\ flight' = flight \ {c}
  /\ IF active
     THEN Evaluate(c)
     ELSE UNCHANGED <<table, object, answeredBy, crossed>>
  /\ UNCHANGED <<dartVars, next, latest, queue, sends, abandoned, lost>>

----------------------------------------------------------------------------
\* close() of QuickJS and dispose(): cleanup() of every enableXhr; the queue, the
\* table and the objects go with the engine.
BugCleanedUp == {current}
CleanedUp    == 1 .. installs

Shutdown ==
  /\ disposed' = disposed \cup CleanedUp
  /\ current' = 0
  /\ next' = 0 /\ table' = NoneIn /\ queue' = <<>>
  /\ object' = [x \in Objects |-> "unsent"]
  /\ latest' = [x \in Objects |-> 0]
  /\ UNCHANGED <<installs, flight, historyVars>>

Close ==
  /\ active /\ session <= MaxCloses
  /\ session' = session + 1
  /\ Shutdown
  /\ UNCHANGED active

Dispose ==
  /\ active
  /\ active' = FALSE
  /\ Shutdown
  /\ UNCHANGED session

Next ==
  \/ Enable \/ Close \/ Dispose
  \/ \E x \in Objects : Open(x) \/ Abort(x)
  \/ \E x \in Objects, how \in Outcomes : Send(x, how)
  \/ \E i \in 1 .. MaxInstalls : Poll(i)
  \/ \E c \in flight : Reply(c) \/ Fail(c)

Calls == [id : Ids, send : Sends, install : 1 .. MaxInstalls]

\* The event loop gives every live Timer its turns, and the HTTP client answers
\* or fails.
Fairness ==
  /\ \A i \in 1 .. MaxInstalls : WF_vars(Poll(i))
  /\ WF_vars(\E c \in flight : Reply(c) \/ Fail(c))

Spec == Init /\ [][Next]_vars
FairSpec == Spec /\ Fairness

----------------------------------------------------------------------------
TypeOK ==
  /\ active \in BOOLEAN /\ session \in 1 .. MaxCloses + 1
  /\ installs \in 0 .. MaxInstalls /\ current \in 0 .. installs
  /\ disposed \subseteq 1 .. installs
  /\ next \in Ids /\ table \in [Ids -> {0} \cup Sends]
  /\ queue \in Seq([id : Ids, send : Sends])
  /\ flight \subseteq Calls
  /\ object \in [Objects -> {"unsent", "opened", "loading", "done"}]
  /\ latest \in [Objects -> {0} \cup Sends]
  /\ sends \in Seq([object : Objects, install : 1 .. MaxInstalls,
                    session : 1 .. MaxCloses + 1])
  /\ answeredBy \in [Sends -> {0} \cup Sends]
  /\ abandoned \in [Sends -> {"no", "aborted", "replaced"}]
  /\ lost \subseteq Sends /\ crossed \subseteq Sends

\* Between one enableXhr and the next, the numbers keep the requests apart: a
\* send is finished by its own reply or by an old one of the same object, and the
\* latter only if the object was aborted, opened or sent again while the old send
\* was loading, or the old send had lost its place in this way.
RepliesReachTheirObject ==
  \A s \in 1 .. Len(sends) :
    LET by == answeredBy[s]
    IN  by # 0 /\ sends[by].install = sends[s].install =>
          \/ by = s
          \/ /\ sends[by].object = sends[s].object
             /\ abandoned[by] # "no" \/ answeredBy[by] \notin {0, by}

\* A request of the current enableXhr has a callback in the table as long as its
\* call is queued or in flight, in one place and under one number; only a reply
\* from before the enableXhr can take the callback away.  A callback without a
\* call is left behind only by a send that failed after it was numbered.
CallbacksMatchCalls ==
  \A s \in 1 .. Len(sends) :
    sends[s].install = current =>
      LET queued == {n \in DOMAIN queue : queue[n].send = s}
          flying == {c \in flight : c.send = s}
          keys   == {i \in Ids : table[i] = s}
      IN  /\ keys # {} => \/ \E n \in queued : keys = {queue[n].id} /\ flying = {}
                          \/ \E c \in flying : keys = {c.id} /\ queued = {}
                          \/ s \in lost /\ queued \cup flying = {}
          /\ queued \cup flying # {} /\ s \notin crossed => keys # {}
          /\ \A c, d \in flying : c = d

\* What a client still works on for a runtime that was closed is not queued again
\* and finds no live enableXhr: a reply that is not an error is dropped.
ClosedSessionsStayClosed ==
  \A c \in flight : sends[c.send].session < session \/ ~active => c.install \notin Live

\* A loading object is finished, unless it is aborted, opened or sent again, its
\* send failed before the call was queued, a reply from before the enableXhr took
\* its callback, or enableXhr, close() or dispose() dropped the request.
LoadingEnds ==
  \A s \in Sends :
    (\E x \in Objects : object[x] = "loading" /\ latest[x] = s)
      ~> (\/ \A x \in Objects : ~(object[x] = "loading" /\ latest[x] = s)
          \/ s \in lost \cup crossed
          \/ sends[s].install # current)

----------------------------------------------------------------------------
\* What the code says of itself and does not do.

\* A reply to an aborted request is ignored (_send_native_callback).
AbortedRepliesAreIgnored ==
  \A s \in Sends : answeredBy[s] # 0 => abandoned[answeredBy[s]] # "aborted"
=============================================================================
