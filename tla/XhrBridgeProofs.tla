-------------------------- MODULE XhrBridgeProofs ---------------------------
(***************************************************************************)
(* Proofs about XhrBridge for any objects and any numbers of sends, calls  *)
(* of enableXhr and of close(): replies reach their object, callbacks      *)
(* match calls, and closed sessions stay closed.                           *)
(***************************************************************************)
EXTENDS XhrBridge, SequenceTheorems, TLAPS

Known       == 1 .. Len(sends)
OfCurrent(s) == s \in Known /\ sends[s].install = current

\* Every send has been numbered, belongs to an enableXhr of the past or the
\* current one, and is finished by a send that has happened.
SendsOK ==
  /\ Len(sends) <= MaxSends /\ next <= Len(sends)
  /\ \A s \in Known : sends[s].install <= installs
  /\ \A s \in Sends : /\ answeredBy[s] <= Len(sends)
                      /\ s \notin Known => answeredBy[s] = 0

\* A loading object waits for its last send, which nobody has finished.
ObjectsOK ==
  \A x \in Objects :
    /\ latest[x] # 0 => latest[x] \in Known /\ sends[latest[x]].object = x
    /\ object[x] = "loading" => latest[x] # 0 /\ answeredBy[latest[x]] = 0

\* The object of a callback in the table waits for it, or has given it up, or got
\* its answer from elsewhere; its last send is under the same enableXhr.
Astray(u) == abandoned[u] # "no" \/ answeredBy[u] \notin {0, u}
Awaited(u) ==
  LET x == sends[u].object
  IN  /\ OfCurrent(latest[x])
      /\ (object[x] = "loading" /\ latest[x] = u) \/ Astray(u)

TableOK ==
  \A i \in Ids : table[i] # 0 =>
    /\ i < next
    /\ OfCurrent(table[i])
    /\ Awaited(table[i])
    /\ \A j \in Ids : table[j] = table[i] => j = i

\* A call is in one place, and numbers keep the calls of the current enableXhr
\* apart.  What a number leads to is its own callback, unless that was taken.
Apart ==
  /\ \A n \in DOMAIN queue :
       /\ OfCurrent(queue[n].send) /\ queue[n].id < next
       /\ \A m \in DOMAIN queue :
            queue[m].id = queue[n].id \/ queue[m].send = queue[n].send => m = n
       /\ \A c \in flight :
            /\ c.send # queue[n].send
            /\ OfCurrent(c.send) => c.id # queue[n].id
  /\ \A c \in flight :
       /\ c.send \in Known
       /\ OfCurrent(c.send) => c.id < next
       /\ \A d \in flight :
            /\ d.send = c.send => d = c
            /\ OfCurrent(c.send) /\ OfCurrent(d.send) /\ d.id = c.id => d = c
LeadsHome(id, s) == table[id] = s \/ (table[id] = 0 /\ s \in crossed)
CallsOK ==
  /\ \A n \in DOMAIN queue : LeadsHome(queue[n].id, queue[n].send)
  /\ \A c \in flight : OfCurrent(c.send) => LeadsHome(c.id, c.send)
  /\ \A i \in Ids : table[i] # 0 =>
       \/ \E n \in DOMAIN queue : queue[n].id = i /\ queue[n].send = table[i]
       \/ \E c \in flight : c.id = i /\ c.send = table[i]
       \/ table[i] \in lost

\* A send that failed on its way to the queue has no call.
LostOK ==
  /\ lost \subseteq Known
  /\ \A n \in DOMAIN queue : queue[n].send \notin lost
  /\ \A c \in flight : c.send \notin lost

\* What is queued, and what a live enableXhr has in flight, is of this engine; a
\* call of the current enableXhr is in the hands of a live one.
SessionsOK ==
  /\ \A n \in DOMAIN queue : sends[queue[n].send].session = session
  /\ \A c \in flight :
       /\ c.install <= installs
       /\ c.install \in Live => active /\ sends[c.send].session = session
       /\ OfCurrent(c.send) => c.install \in Live
  /\ ~active => Live = {}

IndInv ==
  /\ TypeOK /\ SendsOK /\ ObjectsOK /\ TableOK /\ Apart /\ CallsOK /\ LostOK
  /\ SessionsOK /\ RepliesReachTheirObject

----------------------------------------------------------------------------
(* Types. *)

SendRecords == [object : Objects, install : 1 .. MaxInstalls, session : 1 .. MaxCloses + 1]
Queue       == [id : Ids, send : Sends]

LEMMA SendTypes ==
  ASSUME TypeOK
  PROVE  /\ Len(sends) \in Nat /\ Known \subseteq Nat /\ DOMAIN sends = Known
         /\ \A s \in Known : /\ sends[s] \in SendRecords /\ sends[s].object \in Objects
                             /\ sends[s].install \in Nat /\ sends[s].install # 0
<1>. DEFINE R == [object : Objects, install : 1 .. MaxInstalls, session : 1 .. MaxCloses + 1]
<1>1. PICK q \in Seq(R) : q = sends
  BY DEF TypeOK
<1>2. Len(q) \in Nat /\ DOMAIN q = 1 .. Len(q) /\ \A i \in 1 .. Len(q) : q[i] \in R
  BY LenProperties, ElementOfSeq
<1>3. \A r \in R : r.object \in Objects /\ r.install \in Nat /\ r.install # 0
  BY BoundsAssumption
<1>. QED BY <1>1, <1>2, <1>3 DEF Known, SendRecords

LEMMA QueueTypes ==
  ASSUME TypeOK
  PROVE  /\ Len(queue) \in Nat /\ DOMAIN queue = 1 .. Len(queue)
         /\ \A n \in DOMAIN queue : /\ queue[n] \in Queue
                                    /\ queue[n].id \in Ids /\ queue[n].send \in Sends
<1>. DEFINE R == [id : Ids, send : Sends]
<1>1. PICK q \in Seq(R) : q = queue
  BY DEF TypeOK
<1>2. Len(q) \in Nat /\ DOMAIN q = 1 .. Len(q) /\ \A i \in 1 .. Len(q) : q[i] \in R
  BY LenProperties, ElementOfSeq
<1>3. \A r \in R : r.id \in Ids /\ r.send \in Sends
  OBVIOUS
<1>. QED BY <1>1, <1>2, <1>3 DEF Queue

LEMMA FlightTypes ==
  ASSUME TypeOK
  PROVE  \A c \in flight : /\ c \in Calls /\ c.id \in Ids /\ c.send \in Sends
                           /\ c.install \in 1 .. MaxInstalls /\ c.install \in Nat
                           /\ c = [id |-> c.id, send |-> c.send, install |-> c.install]
BY BoundsAssumption DEF TypeOK, Calls

LEMMA NumberTypes ==
  ASSUME TypeOK
  PROVE  /\ Ids \subseteq Nat /\ Sends \subseteq Nat /\ 0 \in Ids /\ Sends \subseteq Ids
         /\ next \in Nat /\ current \in Nat /\ installs \in Nat /\ session \in Nat
         /\ \A i \in Ids : table[i] \in Nat
         /\ \A x \in Objects : latest[x] \in Nat
         /\ \A s \in Sends : answeredBy[s] \in Nat
<1>1. Ids \subseteq Nat /\ Sends \subseteq Nat /\ 0 \in Ids /\ Sends \subseteq Ids
  BY BoundsAssumption DEF Ids, Sends
<1>2. {0} \cup Sends \subseteq Nat
  BY <1>1
<1>3. next \in Nat /\ installs \in Nat /\ session \in Nat
  BY <1>1, BoundsAssumption DEF TypeOK
<1>4. current \in Nat
  BY <1>3 DEF TypeOK
<1>. QED BY <1>1, <1>2, <1>3, <1>4 DEF TypeOK

\* What was sent has happened under a number that is known.
LEMMA KnownAreSends == ASSUME TypeOK, SendsOK PROVE Known \subseteq Sends
BY SendTypes, BoundsAssumption DEF SendsOK, Known, Sends

----------------------------------------------------------------------------
(* The initial state, and steps that change nothing. *)

LEMMA InitOK == Init => IndInv
<1>. SUFFICES ASSUME Init PROVE IndInv
  OBVIOUS
<1>1. Len(sends) = 0 /\ Known = {} /\ DOMAIN queue = {} /\ flight = {} /\ Live = {}
  BY DEF Init, Known, Live
<1>2. TypeOK
  <2>1. <<>> \in Seq(SendRecords) /\ <<>> \in Seq(Queue)
    OBVIOUS
  <2>. QED BY <2>1, BoundsAssumption DEF Init, TypeOK, NoneIn, Sends, Ids, SendRecords, Queue
<1>3. SendsOK
  BY <1>1, BoundsAssumption DEF Init, SendsOK
<1>4. ObjectsOK
  BY DEF Init, ObjectsOK
<1>5. TableOK /\ Apart /\ CallsOK /\ LostOK /\ SessionsOK
  BY <1>1 DEF Init, TableOK, Apart, CallsOK, LostOK, SessionsOK, NoneIn
<1>6. RepliesReachTheirObject
  BY <1>1 DEF RepliesReachTheirObject, Known
<1>. QED BY <1>2, <1>3, <1>4, <1>5, <1>6 DEF IndInv

LEMMA StutterOK == ASSUME IndInv, UNCHANGED vars PROVE IndInv'
<1>. USE DEF vars, dartVars, jsVars, historyVars, Known, OfCurrent
<1>1. TypeOK' /\ SendsOK' /\ ObjectsOK'
  BY DEF IndInv, TypeOK, SendsOK, ObjectsOK
<1>2. TableOK'
  BY DEF IndInv, TableOK, Awaited, Astray
<1>3. Apart' /\ CallsOK' /\ LostOK'
  BY DEF IndInv, Apart, CallsOK, LostOK, LeadsHome
<1>4. SessionsOK' /\ RepliesReachTheirObject'
  BY DEF IndInv, SessionsOK, Live, RepliesReachTheirObject
<1>. QED BY <1>1, <1>2, <1>3, <1>4 DEF IndInv

----------------------------------------------------------------------------
(* enableXhr, close() and dispose(): nothing belongs to the current enableXhr. *)

Cleared == /\ table' = NoneIn /\ queue' = <<>> /\ next' = 0
           /\ UNCHANGED <<sends, flight, answeredBy, abandoned, lost, crossed>>

LEMMA ClearedOK ==
  ASSUME IndInv, Cleared, \A s \in Known : sends[s].install # current'
  PROVE  TableOK' /\ Apart' /\ CallsOK' /\ LostOK' /\ RepliesReachTheirObject'
<1>1. \A s : ~OfCurrent(s)'
  BY DEF OfCurrent, Known, Cleared
<1>2. DOMAIN queue' = {} /\ \A i \in Ids : table'[i] = 0
  BY DEF Cleared, NoneIn
<1>3. TableOK'
  BY <1>2 DEF TableOK
<1>4. Apart'
  <2>1. \A c \in flight' : c.send \in Known' /\ \A d \in flight' : d.send = c.send => d = c
    BY DEF IndInv, Apart, Cleared, Known
  <2>. QED BY <1>1, <1>2, <2>1 DEF Apart
<1>5. CallsOK' /\ LostOK'
  BY <1>1, <1>2 DEF IndInv, CallsOK, LostOK, Cleared, Known
<1>6. RepliesReachTheirObject'
  BY DEF IndInv, RepliesReachTheirObject, Cleared
<1>. QED BY <1>3, <1>4, <1>5, <1>6

LEMMA EnableOK == ASSUME IndInv, Enable PROVE IndInv'
<1>. USE DEF Enable, dartVars, historyVars
<1>1. Cleared
  BY DEF Cleared
<1>2. \A s \in Known : sends[s].install # current'
  BY SendTypes, NumberTypes DEF IndInv, SendsOK
<1>3. TypeOK'
  <2>1. NoneIn \in [Ids -> {0} \cup Sends] /\ <<>> \in Seq(Queue) /\ 0 \in Ids
    BY NumberTypes DEF IndInv, NoneIn
  <2>2. installs' \in 0 .. MaxInstalls /\ current' \in 0 .. installs'
    BY BoundsAssumption, NumberTypes DEF IndInv, TypeOK
  <2>3. disposed' \subseteq 1 .. installs'
    BY NumberTypes DEF IndInv, TypeOK
  <2>. QED BY <2>1, <2>2, <2>3 DEF IndInv, TypeOK, Queue
<1>4. SendsOK'
  <2>1. Known' = Known /\ 0 <= Len(sends) /\ installs <= installs'
    BY NumberTypes, SendTypes DEF IndInv, Known
  <2>2. \A s \in Known : sends[s].install <= installs'
    BY NumberTypes, SendTypes DEF IndInv, SendsOK
  <2>. QED BY <2>1, <2>2 DEF IndInv, SendsOK
<1>5. ObjectsOK'
  BY DEF IndInv, ObjectsOK, Known
<1>6. SessionsOK'
  <2>1. \A c \in flight : c.install <= installs' /\ (c.install \in Live' => c.install \in Live)
    BY NumberTypes, FlightTypes DEF IndInv, SessionsOK, Live
  <2>2. \A s : ~OfCurrent(s)'
    BY <1>2 DEF OfCurrent, Known
  <2>. QED BY <2>1, <2>2 DEF IndInv, SessionsOK
<1>. QED BY <1>1, <1>2, <1>3, <1>4, <1>5, <1>6, ClearedOK DEF IndInv

LEMMA ShutdownOK ==
  ASSUME IndInv, Shutdown, active' \in BOOLEAN, session' \in 1 .. MaxCloses + 1
  PROVE  IndInv'
<1>. USE DEF Shutdown, historyVars, CleanedUp
<1>1. Cleared
  BY DEF Cleared
<1>2. \A s \in Known : sends[s].install # current'
  BY SendTypes DEF IndInv
<1>3. TypeOK'
  <2>1. NoneIn \in [Ids -> {0} \cup Sends] /\ <<>> \in Seq(Queue) /\ 0 \in Ids
    BY NumberTypes DEF IndInv, NoneIn
  <2>2. installs' \in 0 .. MaxInstalls /\ current' \in 0 .. installs'
    BY NumberTypes DEF IndInv, TypeOK
  <2>3. disposed' \subseteq 1 .. installs'
    BY NumberTypes DEF IndInv, TypeOK
  <2>. QED BY <2>1, <2>2, <2>3 DEF IndInv, TypeOK, Queue
<1>4. SendsOK'
  BY SendTypes DEF IndInv, SendsOK, Known
<1>5. ObjectsOK'
  BY DEF ObjectsOK
<1>6. SessionsOK'
  <2>1. Live' = {} /\ DOMAIN queue' = {}
    BY DEF Live
  <2>2. \A s : ~OfCurrent(s)'
    BY <1>2 DEF OfCurrent, Known
  <2>. QED BY <2>1, <2>2 DEF IndInv, SessionsOK
<1>. QED BY <1>1, <1>2, <1>3, <1>4, <1>5, <1>6, ClearedOK DEF IndInv

LEMMA CloseOK == ASSUME IndInv, Close PROVE IndInv'
<1>1. active' \in BOOLEAN /\ session' \in 1 .. MaxCloses + 1
  BY BoundsAssumption DEF IndInv, TypeOK, Close
<1>. QED BY <1>1, ShutdownOK DEF Close

LEMMA DisposeOK == ASSUME IndInv, Dispose PROVE IndInv'
<1>1. active' \in BOOLEAN /\ session' \in 1 .. MaxCloses + 1
  BY DEF IndInv, TypeOK, Dispose
<1>. QED BY <1>1, ShutdownOK DEF Dispose

----------------------------------------------------------------------------
(* open() and abort(). *)

Given(x, st, how) ==
  /\ object' = [object EXCEPT ![x] = st]
  /\ Abandon(x, how)
  /\ UNCHANGED <<dartVars, next, table, latest, queue, flight, sends, answeredBy,
                 lost, crossed>>

LEMMA GivenOK ==
  ASSUME IndInv, NEW x \in Objects, NEW st \in {"unsent", "opened"},
         NEW how \in {"aborted", "replaced"}, Given(x, st, how)
  PROVE  IndInv'
<1>. USE DEF Given, dartVars
<1>1. \A y \in Objects : object'[y] = IF y = x THEN st ELSE object[y]
  BY DEF IndInv, TypeOK
<1>2. \A s \in Sends : abandoned'[s] = IF object[x] = "loading" /\ s = latest[x]
                                       THEN how ELSE abandoned[s]
  BY DEF IndInv, TypeOK, Abandon
<1>3. \A s \in Sends : Astray(s) => Astray(s)'
  BY <1>2 DEF Astray
<1>4. Known' = Known /\ Known \subseteq Sends /\ \A s : OfCurrent(s)' <=> OfCurrent(s)
  BY KnownAreSends DEF IndInv, Known, OfCurrent
<1>5. TypeOK'
  BY DEF IndInv, TypeOK, Abandon
<1>6. SendsOK'
  BY <1>1, <1>4 DEF IndInv, SendsOK
<1>7. ObjectsOK'
  BY <1>1, <1>4 DEF IndInv, ObjectsOK
<1>8. TableOK'
  <2>. SUFFICES ASSUME NEW i \in Ids, table[i] # 0
                PROVE  /\ i < next /\ OfCurrent(table[i]) /\ Awaited(table[i])'
                       /\ \A j \in Ids : table[j] = table[i] => j = i
    BY <1>4 DEF TableOK
  <2>1. /\ i < next /\ OfCurrent(table[i]) /\ Awaited(table[i])
        /\ \A j \in Ids : table[j] = table[i] => j = i
    BY DEF IndInv, TableOK
  <2>2. PICK u \in Sends : u = table[i]
    BY <1>4, <2>1 DEF OfCurrent
  <2>3. PICK y \in Objects : y = sends[u].object
    BY <1>4, <2>1, <2>2, SendTypes DEF OfCurrent, IndInv
  <2>4. OfCurrent(latest[y])' /\ ((object[y] = "loading" /\ latest[y] = u) \/ Astray(u))
    BY <1>4, <2>1, <2>2, <2>3 DEF Awaited
  <2>5. (object'[y] = "loading" /\ latest[y] = u) \/ Astray(u)'
    <3>1. CASE Astray(u)
      BY <1>3, <3>1
    <3>2. CASE object[y] = "loading" /\ latest[y] = u /\ y = x
      BY <1>2, <3>2 DEF Astray
    <3>3. CASE object[y] = "loading" /\ latest[y] = u /\ y # x
      BY <1>1, <3>3
    <3>. QED BY <2>4, <3>1, <3>2, <3>3
  <2>. QED BY <2>1, <2>2, <2>3, <2>4, <2>5 DEF Awaited
<1>9. Apart' /\ CallsOK' /\ LostOK'
  BY <1>4 DEF IndInv, Apart, CallsOK, LostOK, LeadsHome
<1>10. SessionsOK'
  BY <1>4 DEF IndInv, SessionsOK, Live
<1>11. RepliesReachTheirObject'
  <2>. SUFFICES ASSUME NEW s \in Known, NEW by \in Sends, by = answeredBy[s],
                       sends[by].install = sends[s].install, by # s
                PROVE  sends[by].object = sends[s].object /\ Astray(by)'
    BY <1>4 DEF RepliesReachTheirObject, Known, Astray, IndInv, TypeOK
  <2>1. sends[by].object = sends[s].object /\ Astray(by)
    BY NumberTypes DEF IndInv, RepliesReachTheirObject, Known, Astray, Sends
  <2>. QED BY <1>3, <2>1
<1>. QED BY <1>5, <1>6, <1>7, <1>8, <1>9, <1>10, <1>11 DEF IndInv

LEMMA OpenOK == ASSUME IndInv, NEW x \in Objects, Open(x) PROVE IndInv'
BY GivenOK DEF Open, Given

LEMMA AbortOK == ASSUME IndInv, NEW x \in Objects, Abort(x) PROVE IndInv'
BY GivenOK DEF Abort, Given

----------------------------------------------------------------------------
(* send(). *)

LEMMA AppendToSends ==
  ASSUME TypeOK, NEW r \in SendRecords, sends' = Append(sends, r)
  PROVE  /\ sends' \in Seq(SendRecords) /\ Len(sends') = Len(sends) + 1
         /\ Known' = Known \cup {Len(sends) + 1} /\ Len(sends) + 1 \notin Known
         /\ sends'[Len(sends) + 1] = r /\ \A s \in Known : sends'[s] = sends[s]
<1>1. PICK q \in Seq(SendRecords) : q = sends
  BY DEF TypeOK, SendRecords
<1>2. PICK n \in Nat : n = Len(q)
  BY LenProperties
<1>3. /\ Append(q, r) \in Seq(SendRecords) /\ Len(Append(q, r)) = n + 1
      /\ \A i \in 1 .. n : Append(q, r)[i] = q[i]
      /\ Append(q, r)[n + 1] = r
  BY <1>2, AppendProperties
<1>4. 1 .. n + 1 = (1 .. n) \cup {n + 1} /\ n + 1 \notin 1 .. n
  BY <1>2
<1>. QED BY <1>1, <1>2, <1>3, <1>4 DEF Known

LEMMA AppendToQueue ==
  ASSUME TypeOK, NEW r \in Queue, queue' = Append(queue, r)
  PROVE  /\ queue' \in Seq(Queue)
         /\ DOMAIN queue' = DOMAIN queue \cup {Len(queue) + 1}
         /\ Len(queue) + 1 \notin DOMAIN queue
         /\ queue'[Len(queue) + 1] = r /\ \A n \in DOMAIN queue : queue'[n] = queue[n]
<1>1. PICK q \in Seq(Queue) : q = queue
  BY DEF TypeOK, Queue
<1>2. PICK n \in Nat : n = Len(q)
  BY LenProperties
<1>3. /\ Append(q, r) \in Seq(Queue) /\ Len(Append(q, r)) = n + 1
      /\ \A i \in 1 .. n : Append(q, r)[i] = q[i]
      /\ Append(q, r)[n + 1] = r
      /\ DOMAIN Append(q, r) = 1 .. n + 1 /\ DOMAIN q = 1 .. n
  BY <1>2, AppendProperties, LenProperties
<1>4. 1 .. n + 1 = (1 .. n) \cup {n + 1} /\ n + 1 \notin 1 .. n
  BY <1>2
<1>. QED BY <1>1, <1>2, <1>3, <1>4

\* OfCurrent in the next state.
After(t) == t \in Known' /\ sends'[t].install = current'

\* What was sent before stays as it was.
LEMMA SendsGrow ==
  ASSUME IndInv, NEW x \in Objects, NEW how, Send(x, how)
  PROVE  LET s == Len(sends) + 1
         IN  /\ s \in Sends /\ s \notin Known /\ s # 0 /\ Known' = Known \cup {s}
             /\ Known \subseteq Sends /\ current # 0 /\ Len(sends') = s
             /\ sends'[s] = [object |-> x, install |-> current, session |-> session]
             /\ sends' \in Seq(SendRecords)
             /\ \A t \in Known : sends'[t] = sends[t] /\ t # s
             /\ \A t : After(t) <=> OfCurrent(t) \/ t = s
<1>1. current # 0
  BY DEF Send
<1>2. current \in 1 .. MaxInstalls
  BY <1>1, NumberTypes, BoundsAssumption DEF IndInv, TypeOK
<1>3. [object |-> x, install |-> current, session |-> session] \in SendRecords
  BY <1>2 DEF IndInv, TypeOK, SendRecords
<1>4. PICK s : s = Len(sends) + 1
  OBVIOUS
<1>5. /\ sends' \in Seq(SendRecords) /\ Len(sends') = s
      /\ Known' = Known \cup {s} /\ s \notin Known
      /\ sends'[s] = [object |-> x, install |-> current, session |-> session]
      /\ \A t \in Known : sends'[t] = sends[t]
  BY <1>3, <1>4, AppendToSends DEF Send, IndInv
<1>6. s \in Sends /\ s # 0
  BY <1>4, SendTypes, BoundsAssumption DEF IndInv, Send, Sends
<1>7. \A t : After(t) <=> OfCurrent(t) \/ t = s
  <2>1. current' = current
    BY DEF Send, dartVars
  <2>. QED BY <1>5, <2>1 DEF OfCurrent, After
<1>. QED BY <1>1, <1>4, <1>5, <1>6, <1>7, KnownAreSends DEF IndInv

LEMMA SendOK ==
  ASSUME IndInv, NEW x \in Objects, NEW how \in Outcomes, Send(x, how)
  PROVE  IndInv'
<1>. USE DEF NextId, dartVars
<1>1. PICK s : s = Len(sends) + 1
  OBVIOUS
<1>2. /\ s \in Sends /\ s \notin Known /\ s # 0 /\ Known' = Known \cup {s}
      /\ Known \subseteq Sends /\ current # 0 /\ Len(sends') = s
      /\ sends'[s] = [object |-> x, install |-> current, session |-> session]
      /\ sends' \in Seq(SendRecords)
      /\ \A t \in Known : sends'[t] = sends[t] /\ t # s
      /\ \A t : After(t) <=> OfCurrent(t) \/ t = s
  BY <1>1, SendsGrow
<1>3. /\ object' = [object EXCEPT ![x] = "loading"]
      /\ latest' = [latest EXCEPT ![x] = s]
      /\ Abandon(x, "replaced")
      /\ UNCHANGED <<active, session, installs, disposed, current, flight, answeredBy,
                     crossed>>
  BY <1>1 DEF Send
<1>4. /\ next \in Ids /\ next \in Nat /\ next + 1 \in Ids /\ next <= Len(sends)
      /\ next + 1 <= s /\ s <= MaxSends /\ s \in Nat
  BY <1>1, <1>2, NumberTypes, SendTypes, BoundsAssumption
  DEF IndInv, SendsOK, Ids, Sends
\* Numbered or not, queued or not.
<1>5. \/ how = "thrown" /\ next' = next /\ table' = table
      \/ how # "thrown" /\ next' = next + 1 /\ table' = [table EXCEPT ![next] = s]
  BY <1>1 DEF Send
<1>6. PICK n : n = Len(queue) + 1
  OBVIOUS
<1>7. \/ /\ how = "queued" /\ lost' = lost
         /\ queue' \in Seq(Queue) /\ DOMAIN queue' = DOMAIN queue \cup {n}
         /\ n \notin DOMAIN queue /\ queue'[n].id = next /\ queue'[n].send = s
         /\ \A m \in DOMAIN queue : queue'[m] = queue[m]
      \/ how # "queued" /\ lost' = lost \cup {s} /\ queue' = queue
  <2>1. [id |-> next, send |-> s] \in Queue
    BY <1>2, <1>4 DEF Queue
  <2>2. CASE how = "queued"
    <3>1. queue' = Append(queue, [id |-> next, send |-> s]) /\ lost' = lost
      BY <1>1, <2>2 DEF Send
    <3>. QED BY <1>6, <2>1, <2>2, <3>1, AppendToQueue DEF IndInv
  <2>3. CASE how # "queued"
    BY <1>1, <2>3 DEF Send
  <2>. QED BY <2>2, <2>3
<1>8. /\ \A y \in Objects : y # x => object'[y] = object[y] /\ latest'[y] = latest[y]
      /\ object'[x] = "loading" /\ latest'[x] = s
      /\ \A i \in Ids : table'[i] = IF i = next /\ how # "thrown" THEN s ELSE table[i]
      /\ next' \in Ids /\ next' \in Nat /\ next <= next' /\ next' <= s
  <2>1. \A i \in Ids : table'[i] = IF i = next /\ how # "thrown" THEN s ELSE table[i]
    BY <1>5 DEF IndInv, TypeOK
  <2>2. next' \in Ids /\ next' \in Nat /\ next <= next' /\ next' <= s
    BY <1>4, <1>5
  <2>. QED BY <1>3, <2>1, <2>2 DEF IndInv, TypeOK
\* The send that was loading is replaced; one that is astray stays so.
<1>9. \A t \in Sends : abandoned'[t] = IF object[x] = "loading" /\ t = latest[x]
                                        THEN "replaced" ELSE abandoned[t]
  BY <1>3 DEF IndInv, TypeOK, Abandon
<1>10. \A t \in Sends : Astray(t) => Astray(t)'
  BY <1>3, <1>9 DEF Astray
<1>11. TypeOK'
  <2>1. table' \in [Ids -> {0} \cup Sends] /\ queue' \in Seq(Queue) /\ lost' \subseteq Sends
    BY <1>2, <1>5, <1>7 DEF IndInv, TypeOK, Queue
  <2>2. abandoned' \in [Sends -> {"no", "aborted", "replaced"}]
    BY <1>3 DEF IndInv, TypeOK, Abandon
  <2>3. /\ object' \in [Objects -> {"unsent", "opened", "loading", "done"}]
        /\ latest' \in [Objects -> {0} \cup Sends]
    BY <1>2, <1>3 DEF IndInv, TypeOK
  <2>. QED BY <1>2, <1>3, <1>8, <2>1, <2>2, <2>3 DEF IndInv, TypeOK, SendRecords, Queue
<1>12. SendsOK'
  <2>1. answeredBy[s] = 0 /\ \A t \in Sends : answeredBy[t] <= s
    <3>1. \A t \in Sends : answeredBy[t] \in Nat /\ answeredBy[t] <= Len(sends)
      BY NumberTypes DEF IndInv, SendsOK
    <3>. QED BY <1>1, <1>2, <3>1, SendTypes DEF IndInv, SendsOK
  <2>2. sends'[s].install <= installs
    BY <1>2, NumberTypes DEF IndInv, TypeOK
  <2>. QED BY <1>2, <1>3, <1>4, <1>8, <2>1, <2>2 DEF IndInv, SendsOK
<1>13. ObjectsOK'
  <2>1. answeredBy[s] = 0
    BY <1>2 DEF IndInv, SendsOK
  <2>. QED BY <1>2, <1>3, <1>8, <2>1 DEF IndInv, ObjectsOK
<1>14. TableOK'
  <2>1. ASSUME NEW i \in Ids, table[i] # 0
        PROVE  /\ i < next /\ OfCurrent(table[i]) /\ table[i] \in Known /\ Awaited(table[i])
               /\ \A j \in Ids : table[j] = table[i] => j = i
    BY <2>1 DEF IndInv, TableOK, OfCurrent
  <2>2. ASSUME NEW i \in Ids, table[i] # 0 PROVE Awaited(table[i])'
    <3>1. PICK u \in Known : u = table[i] /\ u \in Sends
      BY <1>2, <2>1, <2>2
    <3>2. PICK y \in Objects : y = sends[u].object
      BY SendTypes DEF IndInv
    <3>3. OfCurrent(latest[y]) /\ ((object[y] = "loading" /\ latest[y] = u) \/ Astray(u))
      BY <2>1, <2>2, <3>1, <3>2 DEF Awaited
    <3>4. After(latest'[y])
      BY <1>2, <1>8, <3>3
    <3>5. (object'[y] = "loading" /\ latest'[y] = u) \/ Astray(u)'
      <4>1. CASE Astray(u)
        BY <1>10, <3>1, <4>1
      <4>2. CASE object[y] = "loading" /\ latest[y] = u /\ y = x
        BY <1>9, <3>1, <4>2 DEF Astray
      <4>3. CASE object[y] = "loading" /\ latest[y] = u /\ y # x
        BY <1>8, <4>3
      <4>. QED BY <3>3, <4>1, <4>2, <4>3
    <3>6. sends'[u].object = y
      BY <1>2, <3>1, <3>2
    <3>7. i # next /\ table'[i] = u
      BY <1>4, <1>8, <2>1, <2>2, <3>1, NumberTypes DEF IndInv
    <3>. QED BY <3>4, <3>5, <3>6, <3>7 DEF Awaited, OfCurrent, After
  <2>3. ASSUME NEW i \in Ids, i = next, how # "thrown" PROVE Awaited(table[i])'
    <3>1. table'[i] = s
      BY <1>8, <2>3
    <3>2. sends'[s].object = x
      BY <1>2
    <3>3. After(s)
      BY <1>2
    <3>. QED BY <1>8, <3>1, <3>2, <3>3 DEF Awaited, OfCurrent, After
  <2>4. ASSUME NEW i \in Ids, table'[i] # 0
        PROVE  /\ i < next' /\ After(table'[i]) /\ Awaited(table[i])'
               /\ \A j \in Ids : table'[j] = table'[i] => j = i
    <3>1. CASE i = next /\ how # "thrown"
      <4>1. i < next'
        BY <1>4, <1>5, <3>1
      <4>2. \A j \in Ids : table[j] # s
        BY <1>2, <2>1
      <4>. QED BY <1>2, <1>8, <2>3, <3>1, <4>1, <4>2
    <3>2. CASE ~(i = next /\ how # "thrown")
      <4>1. table'[i] = table[i] /\ table[i] # s
        BY <1>2, <1>8, <2>1, <2>4, <3>2
      <4>2. i < next'
        BY <1>4, <1>8, <2>1, <2>4, <4>1, NumberTypes DEF IndInv
      <4>3. table[i] # 0 /\ OfCurrent(table[i]) /\ Awaited(table[i])'
        BY <2>1, <2>2, <2>4, <4>1
      <4>. QED BY <1>2, <1>8, <2>1, <4>1, <4>2, <4>3
    <3>. QED BY <3>1, <3>2
  <2>. QED BY <2>4 DEF TableOK, OfCurrent, After
<1>15. Apart'
  <2>1. \A m \in DOMAIN queue : /\ queue[m].id < next' /\ queue[m].id # next
                                /\ queue[m].send \in Known /\ OfCurrent(queue[m].send)
    <3>1. \A m \in DOMAIN queue : /\ queue[m].id < next /\ queue[m].id \in Nat
                                  /\ OfCurrent(queue[m].send)
      BY QueueTypes, NumberTypes DEF IndInv, Apart
    <3>. QED BY <1>4, <1>8, <3>1 DEF OfCurrent
  <2>2. \A c \in flight : c.send \in Known /\ c.send # s
    BY <1>2 DEF IndInv, Apart
  <2>3. \A c \in flight : OfCurrent(c.send) => c.id < next' /\ c.id # next
    <3>1. \A c \in flight : c.id \in Nat /\ (OfCurrent(c.send) => c.id < next)
      BY FlightTypes, NumberTypes DEF IndInv, Apart
    <3>. QED BY <1>4, <1>8, <3>1
  <2>4. \A m \in DOMAIN queue' :
          /\ After(queue'[m].send) /\ queue'[m].id < next'
          /\ \A k \in DOMAIN queue' :
               queue'[k].id = queue'[m].id \/ queue'[k].send = queue'[m].send => k = m
    <3>1. \A m, k \in DOMAIN queue :
            queue[k].id = queue[m].id \/ queue[k].send = queue[m].send => k = m
      BY DEF IndInv, Apart
    <3>2. how = "queued" => next < next'
      BY <1>4, <1>5
    <3>3. CASE how = "queued"
      BY <1>2, <1>7, <2>1, <3>1, <3>2, <3>3
    <3>4. CASE how # "queued"
      BY <1>2, <1>7, <2>1, <3>1, <3>4
    <3>. QED BY <3>3, <3>4
  <2>5. \A m \in DOMAIN queue' : \A c \in flight :
          c.send # queue'[m].send /\ (After(c.send) => c.id # queue'[m].id)
    <3>1. \A m \in DOMAIN queue : \A c \in flight :
            c.send # queue[m].send /\ (OfCurrent(c.send) => c.id # queue[m].id)
      BY DEF IndInv, Apart
    <3>. QED BY <1>2, <1>7, <2>2, <2>3, <3>1
  <2>6. \A c \in flight :
          /\ c.send \in Known' /\ (After(c.send) => c.id < next')
          /\ \A d \in flight :
               /\ d.send = c.send => d = c
               /\ After(c.send) /\ After(d.send) /\ d.id = c.id => d = c
    BY <1>2, <1>3, <2>2, <2>3 DEF IndInv, Apart
  <2>. QED BY <1>3, <2>4, <2>5, <2>6 DEF Apart, OfCurrent, After
<1>16. CallsOK'
  <2>1. \A m \in DOMAIN queue : queue[m].id \in Ids /\ queue[m].id # next
    <3>1. \A m \in DOMAIN queue : queue[m].id < next /\ queue[m].id \in Nat
      BY QueueTypes, NumberTypes DEF IndInv, Apart
    <3>. QED BY <1>4, <3>1, QueueTypes DEF IndInv
  <2>2. \A c \in flight : c.send # s /\ c.id \in Ids /\ (OfCurrent(c.send) => c.id # next)
    <3>1. \A c \in flight : /\ c.send \in Known /\ c.id \in Nat
                            /\ (OfCurrent(c.send) => c.id < next)
      BY FlightTypes, NumberTypes DEF IndInv, Apart
    <3>. QED BY <1>2, <1>4, <3>1, FlightTypes DEF IndInv
  <2>3. \A m \in DOMAIN queue' : LeadsHome(queue[m].id, queue[m].send)'
    <3>. SUFFICES ASSUME NEW m \in DOMAIN queue'
                  PROVE  \/ table'[queue'[m].id] = queue'[m].send
                         \/ table'[queue'[m].id] = 0 /\ queue'[m].send \in crossed'
      BY DEF LeadsHome
    <3>1. CASE how = "queued" /\ m = n
      BY <1>4, <1>7, <1>8, <3>1
    <3>2. CASE m \in DOMAIN queue
      <4>1. LeadsHome(queue[m].id, queue[m].send)
        BY <3>2 DEF IndInv, CallsOK
      <4>2. queue'[m] = queue[m] /\ table'[queue[m].id] = table[queue[m].id]
        BY <1>7, <1>8, <2>1, <3>2
      <4>. QED BY <1>3, <4>1, <4>2 DEF LeadsHome
    <3>. QED BY <1>7, <3>1, <3>2
  <2>4. \A c \in flight : After(c.send) => LeadsHome(c.id, c.send)'
    BY <1>2, <1>3, <1>8, <2>2 DEF IndInv, CallsOK, LeadsHome
  <2>5. ASSUME NEW i \in Ids, table'[i] # 0
        PROVE  \/ \E m \in DOMAIN queue' : queue'[m].id = i /\ queue'[m].send = table'[i]
               \/ \E c \in flight : c.id = i /\ c.send = table'[i]
               \/ table'[i] \in lost'
    <3>1. CASE i = next /\ how # "thrown"
      BY <1>7, <1>8, <3>1
    <3>2. CASE ~(i = next /\ how # "thrown")
      BY <1>7, <1>8, <2>5, <3>2 DEF IndInv, CallsOK
    <3>. QED BY <3>1, <3>2
  <2>. QED BY <1>3, <2>3, <2>4, <2>5 DEF CallsOK, OfCurrent, After
<1>17. LostOK'
  <2>1. /\ \A m \in DOMAIN queue : queue[m].send \in Known /\ queue[m].send \notin lost
        /\ \A c \in flight : c.send \in Known /\ c.send \notin lost
        /\ lost \subseteq Known
    BY DEF IndInv, LostOK, Apart, OfCurrent
  <2>. QED BY <1>2, <1>3, <1>7, <2>1 DEF LostOK
<1>18. SessionsOK'
  <2>1. \A m \in DOMAIN queue : queue[m].send \in Known
    BY DEF IndInv, Apart, OfCurrent
  <2>2. \A c \in flight : c.send \in Known
    BY DEF IndInv, Apart
  <2>3. \A m \in DOMAIN queue' : sends'[queue'[m].send].session = session
    <3>1. sends'[s].session = session
      BY <1>2
    <3>2. \A m \in DOMAIN queue : sends'[queue[m].send].session = session
      BY <1>2, <2>1 DEF IndInv, SessionsOK
    <3>. QED BY <1>7, <3>1, <3>2
  <2>4. Live' = Live
    BY <1>3 DEF Live
  <2>5. \A c \in flight :
          /\ c.install <= installs
          /\ c.install \in Live => active /\ sends'[c.send].session = session
          /\ After(c.send) => c.install \in Live
    BY <1>2, <2>2 DEF IndInv, SessionsOK
  <2>. QED BY <1>3, <2>3, <2>4, <2>5 DEF IndInv, SessionsOK, OfCurrent, After
<1>19. RepliesReachTheirObject'
  <2>1. answeredBy[s] = 0
    BY <1>2 DEF IndInv, SendsOK
  <2>2. \A t \in Known : answeredBy[t] # 0 => answeredBy[t] \in Known
    <3>. SUFFICES ASSUME NEW t \in Known, answeredBy[t] # 0
                  PROVE  answeredBy[t] \in Known
      OBVIOUS
    <3>1. t \in Sends /\ answeredBy[t] <= Len(sends) /\ answeredBy[t] \in Nat
      BY <1>2, NumberTypes DEF IndInv, SendsOK
    <3>. QED BY <3>1, SendTypes DEF Known, IndInv
  <2>3. ASSUME NEW t \in Known', NEW by, by = answeredBy[t], by # 0, by # t,
               sends'[by].install = sends'[t].install
        PROVE  /\ sends'[by].object = sends'[t].object
               /\ Astray(by)'
    <3>1. t \in Known /\ by \in Known
      BY <1>2, <2>1, <2>2, <2>3
    <3>2. sends[by].install = sends[t].install /\ sends'[by] = sends[by] /\ sends'[t] = sends[t]
      BY <1>2, <2>3, <3>1
    <3>3. sends[by].object = sends[t].object /\ Astray(by)
      BY <2>3, <3>1, <3>2 DEF IndInv, RepliesReachTheirObject, Known, Astray
    <3>. QED BY <1>2, <1>10, <3>1, <3>2, <3>3
  <2>. QED BY <1>3, <2>3 DEF RepliesReachTheirObject, Known, Astray
<1>. QED
  BY <1>11, <1>12, <1>13, <1>14, <1>15, <1>16, <1>18, <1>19, <1>17
  DEF IndInv

----------------------------------------------------------------------------
(* The poll Timer, and answers that nobody wants. *)

LEMMA PollOK == ASSUME IndInv, NEW i \in 1 .. MaxInstalls, Poll(i) PROVE IndInv'
<1>. DEFINE Call(n) == [id |-> queue[n].id, send |-> queue[n].send, install |-> i]
<1>1. /\ active /\ i \in Live
      /\ flight' = flight \cup {Call(n) : n \in DOMAIN queue}
      /\ queue' = <<>>
      /\ UNCHANGED <<dartVars, jsVars, historyVars>>
  BY DEF Poll, Taken, Left
<1>. USE DEF dartVars, jsVars, historyVars
<1>2. Known' = Known /\ \A s : OfCurrent(s)' <=> OfCurrent(s)
  BY <1>1 DEF Known, OfCurrent
<1>3. \A n \in DOMAIN queue : Call(n).id = queue[n].id /\ Call(n).send = queue[n].send
                              /\ Call(n).install = i /\ Call(n) \in Calls
  BY QueueTypes DEF IndInv, Calls
<1>. HIDE DEF Call
<1>4. DOMAIN queue' = {}
  BY <1>1
<1>5. TypeOK'
  <2>1. <<>> \in Seq(Queue)
    OBVIOUS
  <2>2. flight' \subseteq Calls
    BY <1>1, <1>3 DEF IndInv, TypeOK
  <2>. QED BY <1>1, <2>1, <2>2 DEF IndInv, TypeOK, Queue
<1>6. SendsOK' /\ ObjectsOK'
  BY <1>1, <1>2 DEF IndInv, SendsOK, ObjectsOK
<1>7. TableOK'
  BY <1>1, <1>2 DEF IndInv, TableOK, Awaited, Astray
<1>8. Apart'
  <2>1. ASSUME NEW c \in flight' PROVE c.send \in Known /\ (OfCurrent(c.send) => c.id < next)
    <3>1. CASE c \in flight
      BY <3>1 DEF IndInv, Apart
    <3>2. CASE \E n \in DOMAIN queue : c = Call(n)
      BY <1>3, <3>2 DEF IndInv, Apart, OfCurrent
    <3>. QED BY <1>1, <2>1, <3>1, <3>2
  <2>2. ASSUME NEW c \in flight', NEW d \in flight',
               d.send = c.send \/ (OfCurrent(c.send) /\ OfCurrent(d.send) /\ d.id = c.id)
        PROVE  d = c
    <3>1. CASE c \in flight /\ d \in flight
      BY <2>2, <3>1 DEF IndInv, Apart
    <3>2. ASSUME NEW n \in DOMAIN queue, NEW e \in flight
          PROVE  /\ e.send # Call(n).send
                 /\ OfCurrent(e.send) => e.id # Call(n).id
      BY <1>3 DEF IndInv, Apart
    <3>3. ASSUME NEW n \in DOMAIN queue, NEW m \in DOMAIN queue,
                 Call(n).send = Call(m).send \/ Call(n).id = Call(m).id
          PROVE  Call(n) = Call(m)
      BY <1>3, <3>3 DEF IndInv, Apart
    <3>. QED BY <1>1, <2>2, <3>1, <3>2, <3>3
  <2>. QED BY <1>1, <1>2, <1>4, <2>1, <2>2 DEF Apart
<1>9. CallsOK'
  <2>1. ASSUME NEW c \in flight', OfCurrent(c.send) PROVE LeadsHome(c.id, c.send)'
    <3>1. CASE c \in flight
      BY <1>1, <2>1, <3>1 DEF IndInv, CallsOK, LeadsHome
    <3>2. CASE \E n \in DOMAIN queue : c = Call(n)
      BY <1>1, <1>3, <3>2 DEF IndInv, CallsOK, LeadsHome
    <3>. QED BY <1>1, <2>1, <3>1, <3>2
  <2>2. ASSUME NEW k \in Ids, table[k] # 0
        PROVE  (\E c \in flight' : c.id = k /\ c.send = table[k]) \/ table[k] \in lost
    <3>1. CASE \E c \in flight : c.id = k /\ c.send = table[k]
      BY <1>1, <3>1
    <3>2. CASE \E n \in DOMAIN queue : queue[n].id = k /\ queue[n].send = table[k]
      BY <1>1, <1>3, <3>2
    <3>. QED BY <2>2, <3>1, <3>2 DEF IndInv, CallsOK
  <2>. QED BY <1>1, <1>2, <1>4, <2>1, <2>2 DEF CallsOK
<1>10. SessionsOK'
  <2>1. i <= installs
    BY <1>1, NumberTypes DEF IndInv, Live
  <2>2. ASSUME NEW c \in flight'
        PROVE  /\ c.install <= installs
               /\ c.install \in Live => active /\ sends[c.send].session = session
               /\ OfCurrent(c.send) => c.install \in Live
    <3>1. CASE c \in flight
      BY <3>1 DEF IndInv, SessionsOK
    <3>2. CASE \E n \in DOMAIN queue : c = Call(n)
      BY <1>1, <1>3, <2>1, <3>2 DEF IndInv, SessionsOK
    <3>. QED BY <1>1, <3>1, <3>2
  <2>3. Live' = Live
    BY <1>1 DEF Live
  <2>. QED BY <1>1, <1>2, <1>4, <2>2, <2>3 DEF IndInv, SessionsOK
<1>11. RepliesReachTheirObject'
  BY <1>1 DEF IndInv, RepliesReachTheirObject
<1>12. LostOK'
  BY <1>1, <1>2, <1>3, <1>4 DEF IndInv, LostOK
<1>. QED BY <1>5, <1>6, <1>7, <1>8, <1>9, <1>10, <1>11, <1>12 DEF IndInv

\* What a call leaves when the table has nothing for it.
Dropped(c) ==
  /\ flight' = flight \ {c}
  /\ UNCHANGED <<dartVars, jsVars, queue, historyVars>>

LEMMA DroppedOK ==
  ASSUME IndInv, NEW c \in flight, Dropped(c),
         OfCurrent(c.send) => table[c.id] # c.send
  PROVE  IndInv'
<1>. USE DEF Dropped, dartVars, jsVars, historyVars
<1>1. Known' = Known /\ \A s : OfCurrent(s)' <=> OfCurrent(s)
  BY DEF Known, OfCurrent
<1>2. TypeOK' /\ SendsOK' /\ ObjectsOK'
  BY <1>1 DEF IndInv, TypeOK, SendsOK, ObjectsOK
<1>3. TableOK'
  BY <1>1 DEF IndInv, TableOK, Awaited, Astray
<1>4. Apart'
  BY <1>1 DEF IndInv, Apart
<1>5. CallsOK'
  <2>1. ASSUME NEW i \in Ids, table[i] # 0
        PROVE  \/ \E n \in DOMAIN queue : queue[n].id = i /\ queue[n].send = table[i]
               \/ \E d \in flight' : d.id = i /\ d.send = table[i]
               \/ table[i] \in lost
    <3>1. OfCurrent(table[i])
      BY <2>1 DEF IndInv, TableOK
    <3>2. ASSUME NEW d \in flight, d.id = i, d.send = table[i] PROVE d \in flight'
      BY <3>1, <3>2
    <3>. QED BY <2>1, <3>2 DEF IndInv, CallsOK
  <2>. QED BY <1>1, <2>1 DEF IndInv, CallsOK, LeadsHome
<1>6. LostOK' /\ SessionsOK' /\ RepliesReachTheirObject'
  BY <1>1 DEF IndInv, LostOK, SessionsOK, Live, RepliesReachTheirObject
<1>. QED BY <1>2, <1>3, <1>4, <1>5, <1>6 DEF IndInv

----------------------------------------------------------------------------
(* An answer that finds a callback. *)

Found(c) ==
  /\ flight' = flight \ {c}
  /\ table[c.id] # 0
  /\ table' = [table EXCEPT ![c.id] = 0]
  /\ crossed' = IF sends[c.send].install = sends[table[c.id]].install
                THEN crossed ELSE crossed \cup {table[c.id]}
  /\ Receive(sends[table[c.id]].object, c.send)
  /\ UNCHANGED <<dartVars, next, latest, queue, sends, abandoned, lost>>

\* The callback is of the current enableXhr, and so is the call, or it is crossed.
LEMMA FoundFacts ==
  ASSUME IndInv, NEW c \in flight, Found(c)
  PROVE  LET u == table[c.id]
         IN  /\ u \in Sends /\ u \in Known /\ OfCurrent(u) /\ sends[u].object \in Objects
             /\ c.id \in Ids /\ c.send \in Sends /\ c.send \in Known
             /\ \A i \in Ids : table'[i] = IF i = c.id THEN 0 ELSE table[i]
             /\ \A i \in Ids : i # c.id => table[i] # u
             /\ OfCurrent(c.send) => c.send = u /\ crossed' = crossed
             /\ ~OfCurrent(c.send) => crossed' = crossed \cup {u}
<1>1. c.id \in Ids /\ c.send \in Sends /\ c.send \in Known
  BY FlightTypes DEF IndInv, Apart
<1>2. PICK u : u = table[c.id]
  OBVIOUS
<1>3. u \in Known /\ OfCurrent(u) /\ u \in Sends /\ u # 0
  BY <1>1, <1>2, KnownAreSends DEF IndInv, TableOK, OfCurrent, Found
<1>4. sends[u].object \in Objects
  BY <1>3, SendTypes DEF IndInv
<1>5. \A i \in Ids : table'[i] = IF i = c.id THEN 0 ELSE table[i]
  BY <1>1 DEF IndInv, TypeOK, Found
<1>6. \A i \in Ids : i # c.id => table[i] # u
  BY <1>1, <1>2, <1>3 DEF IndInv, TableOK
<1>7. OfCurrent(c.send) => c.send = u
  BY <1>2, <1>3 DEF IndInv, CallsOK, LeadsHome
<1>8. OfCurrent(c.send) <=> sends[c.send].install = sends[u].install
  BY <1>1, <1>3 DEF OfCurrent
<1>. QED BY <1>1, <1>2, <1>3, <1>4, <1>5, <1>6, <1>7, <1>8 DEF Found

\* Without the object: what the table, the calls and the sessions are afterwards.
LEMMA FoundCalls ==
  ASSUME IndInv, NEW c \in flight, Found(c)
  PROVE  Apart' /\ CallsOK' /\ LostOK' /\ SessionsOK'
<1>. USE DEF Found, dartVars
<1>1. PICK u : u = table[c.id]
  OBVIOUS
<1>2. /\ u \in Known /\ OfCurrent(u) /\ c.id \in Ids /\ u # 0
      /\ \A i \in Ids : table'[i] = IF i = c.id THEN 0 ELSE table[i]
      /\ \A i \in Ids : i # c.id => table[i] # u
      /\ OfCurrent(c.send) => c.send = u /\ crossed' = crossed
      /\ ~OfCurrent(c.send) => crossed' = crossed \cup {u}
  BY <1>1, FoundFacts
<1>3. Known' = Known /\ \A s : OfCurrent(s)' <=> OfCurrent(s)
  BY DEF Known, OfCurrent
<1>4. Apart'
  BY <1>3 DEF IndInv, Apart
<1>5. LostOK' /\ SessionsOK'
  BY <1>3 DEF IndInv, LostOK, SessionsOK, Live
<1>6. CallsOK'
  \* Who has the number of the callback that is gone was its call.
  <2>1. ASSUME NEW i \in Ids, NEW s, LeadsHome(i, s), s # 0,
               OfCurrent(c.send) => i # c.id
        PROVE  LeadsHome(i, s)'
    <3>1. CASE i # c.id
      <4>1. table'[i] = table[i] /\ crossed \subseteq crossed'
        BY <1>2, <3>1
      <4>. QED BY <2>1, <4>1 DEF LeadsHome
    <3>2. CASE i = c.id
      <4>1. s = u /\ s \in crossed' /\ table'[i] = 0
        BY <1>1, <1>2, <2>1, <3>2 DEF LeadsHome
      <4>. QED BY <4>1 DEF LeadsHome
    <3>. QED BY <3>1, <3>2
  <2>2. ASSUME NEW n \in DOMAIN queue PROVE LeadsHome(queue[n].id, queue[n].send)'
    <3>1. /\ queue[n].id \in Ids /\ queue[n].send # 0
          /\ OfCurrent(c.send) => queue[n].id # c.id
      BY QueueTypes, NumberTypes DEF IndInv, Apart, Sends
    <3>2. PICK i \in Ids, s \in Sends : i = queue[n].id /\ s = queue[n].send
      BY <3>1, QueueTypes DEF IndInv
    <3>3. LeadsHome(i, s)
      BY <3>2 DEF IndInv, CallsOK
    <3>4. LeadsHome(i, s)'
      BY <2>1, <3>1, <3>2, <3>3
    <3>5. queue' = queue
      OBVIOUS
    <3>. QED BY <3>2, <3>4, <3>5
  <2>3. ASSUME NEW d \in flight', OfCurrent(d.send) PROVE LeadsHome(d.id, d.send)'
    <3>1. d \in flight /\ d # c
      OBVIOUS
    <3>2. /\ d.id \in Ids /\ d.send # 0
          /\ OfCurrent(c.send) => d.id # c.id
      BY <2>3, <3>1, FlightTypes DEF IndInv, Apart, Sends
    <3>3. LeadsHome(d.id, d.send)
      BY <2>3, <3>1 DEF IndInv, CallsOK
    <3>. QED BY <2>1, <3>2, <3>3
  <2>4. ASSUME NEW i \in Ids, table'[i] # 0
        PROVE  \/ \E n \in DOMAIN queue : queue[n].id = i /\ queue[n].send = table'[i]
               \/ \E d \in flight' : d.id = i /\ d.send = table'[i]
               \/ table'[i] \in lost
    <3>1. i # c.id /\ table'[i] = table[i] /\ table[i] # 0 /\ OfCurrent(table[i])
      BY <1>2, <2>4 DEF IndInv, TableOK
    <3>2. ASSUME NEW d \in flight, d.id = i PROVE d \in flight'
      BY <3>1, <3>2
    <3>. QED BY <3>1, <3>2 DEF IndInv, CallsOK
  <2>. QED BY <1>3, <2>2, <2>3, <2>4 DEF CallsOK
<1>. QED BY <1>4, <1>5, <1>6

LEMMA FoundOK == ASSUME IndInv, NEW c \in flight, Found(c) PROVE IndInv'
<1>. USE DEF Found, dartVars
<1>1. PICK u : u = table[c.id]
  OBVIOUS
<1>2. /\ u \in Sends /\ u \in Known /\ OfCurrent(u) /\ sends[u].object \in Objects
      /\ c.id \in Ids /\ c.send \in Sends /\ c.send \in Known
      /\ \A i \in Ids : table'[i] = IF i = c.id THEN 0 ELSE table[i]
      /\ \A i \in Ids : i # c.id => table[i] # u
      /\ OfCurrent(c.send) => c.send = u /\ crossed' = crossed
      /\ ~OfCurrent(c.send) => crossed' = crossed \cup {u}
  BY <1>1, FoundFacts
<1>3. Known' = Known /\ \A s : OfCurrent(s)' <=> OfCurrent(s)
  BY DEF Known, OfCurrent
<1>4. PICK x \in Objects : x = sends[u].object
  BY <1>2
<1>5. OfCurrent(latest[x]) /\ ((object[x] = "loading" /\ latest[x] = u) \/ Astray(u))
  BY <1>1, <1>2, <1>4 DEF IndInv, TableOK, Awaited
<1>6. PICK l : l = latest[x]
  OBVIOUS
<1>7. l \in Known /\ l \in Sends /\ OfCurrent(l) /\ sends[l].object = x /\ l # 0
  BY <1>4, <1>5, <1>6, KnownAreSends DEF IndInv, ObjectsOK, OfCurrent, Sends
<1>8. \/ /\ object[x] = "loading" /\ answeredBy[l] = 0
         /\ object' = [object EXCEPT ![x] = "done"]
         /\ answeredBy' = [answeredBy EXCEPT ![l] = c.send]
      \/ object[x] # "loading" /\ UNCHANGED <<object, answeredBy>>
  BY <1>1, <1>4, <1>6 DEF Receive, Done, IndInv, ObjectsOK
<1>9. /\ \A y \in Objects : object'[y] = IF y = x /\ object[x] = "loading"
                                         THEN "done" ELSE object[y]
      /\ \A s \in Sends : answeredBy'[s] = IF s = l /\ object[x] = "loading"
                                           THEN c.send ELSE answeredBy[s]
  BY <1>7, <1>8 DEF IndInv, TypeOK
<1>10. TypeOK'
  <2>1. table' \in [Ids -> {0} \cup Sends] /\ crossed' \subseteq Sends
    BY <1>2 DEF IndInv, TypeOK
  <2>2. object' \in [Objects -> {"unsent", "opened", "loading", "done"}]
    BY <1>8 DEF IndInv, TypeOK
  <2>3. answeredBy' \in [Sends -> {0} \cup Sends]
    BY <1>2, <1>8 DEF IndInv, TypeOK
  <2>. QED BY <2>1, <2>2, <2>3 DEF IndInv, TypeOK
<1>11. SendsOK'
  <2>1. c.send <= Len(sends)
    BY <1>2, SendTypes DEF Known, IndInv
  <2>. QED BY <1>3, <1>7, <1>9, <2>1 DEF IndInv, SendsOK
<1>12. ObjectsOK'
  <2>. SUFFICES ASSUME NEW y \in Objects
                PROVE  /\ latest[y] # 0 => latest[y] \in Known /\ sends[latest[y]].object = y
                       /\ object'[y] = "loading" =>
                            latest[y] # 0 /\ answeredBy'[latest[y]] = 0
    BY <1>3 DEF ObjectsOK
  <2>1. /\ latest[y] # 0 => latest[y] \in Known /\ sends[latest[y]].object = y
        /\ object[y] = "loading" => latest[y] # 0 /\ answeredBy[latest[y]] = 0
    BY DEF IndInv, ObjectsOK
  <2>2. ASSUME object'[y] = "loading" PROVE latest[y] # 0 /\ answeredBy'[latest[y]] = 0
    <3>1. y # x /\ object[y] = "loading"
      BY <1>9, <2>2
    <3>2. latest[y] # l /\ latest[y] \in Sends
      BY <1>7, <2>1, <3>1, KnownAreSends DEF IndInv
    <3>. QED BY <1>9, <2>1, <3>1, <3>2
  <2>. QED BY <2>1, <2>2
\* A send that is astray stays so: the answer, if it is for it, is another's.
<1>13. ASSUME NEW s \in Sends, Astray(s) PROVE Astray(s)'
  <2>1. CASE abandoned[s] # "no"
    BY <2>1 DEF Astray
  <2>2. CASE answeredBy[s] \notin {0, s}
    <3>1. answeredBy'[s] = answeredBy[s]
      BY <1>8, <1>9, <2>2
    <3>. QED BY <2>2, <3>1 DEF Astray
  <2>. QED BY <1>13, <2>1, <2>2 DEF Astray
<1>14. TableOK'
  <2>. SUFFICES ASSUME NEW i \in Ids, table'[i] # 0
                PROVE  /\ i < next /\ OfCurrent(table'[i]) /\ Awaited(table[i])'
                       /\ \A j \in Ids : table'[j] = table'[i] => j = i
    BY <1>3 DEF TableOK, OfCurrent, Known
  <2>1. i # c.id /\ table'[i] = table[i] /\ table[i] # 0
    BY <1>2
  <2>2. PICK t \in Sends : t = table[i]
    BY <2>1 DEF IndInv, TypeOK
  <2>3. /\ i < next /\ OfCurrent(t) /\ Awaited(t)
        /\ \A j \in Ids : table[j] = t => j = i
    BY <2>1, <2>2 DEF IndInv, TableOK
  <2>4. t # u /\ t # c.send /\ t # 0
    BY <1>2, <2>1, <2>2, <2>3
  <2>5. PICK y \in Objects : y = sends[t].object
    BY <2>3, SendTypes DEF OfCurrent, IndInv
  <2>6. OfCurrent(latest[y]) /\ ((object[y] = "loading" /\ latest[y] = t) \/ Astray(t))
    BY <2>3, <2>5 DEF Awaited
  <2>7. (object'[y] = "loading" /\ latest[y] = t) \/ Astray(t)'
    <3>1. CASE Astray(t)
      BY <1>13, <3>1
    <3>2. CASE object[y] = "loading" /\ latest[y] = t /\ y # x
      BY <1>9, <3>2
    <3>3. CASE object[y] = "loading" /\ latest[y] = t /\ y = x
      <4>1. answeredBy'[t] = c.send /\ c.send # 0
        BY <1>2, <1>6, <1>9, <3>3 DEF Sends
      <4>. QED BY <2>4, <4>1 DEF Astray
    <3>. QED BY <2>6, <3>1, <3>2, <3>3
  <2>8. Awaited(table[i])'
    <3>1. sends'[t].object = y /\ OfCurrent(latest[y])'
      BY <1>3, <2>5, <2>6 DEF OfCurrent, Known
    <3>. QED BY <2>1, <2>2, <2>7, <3>1 DEF Awaited
  <2>9. \A j \in Ids : table'[j] = table'[i] => j = i
    BY <1>2, <2>1, <2>2, <2>3, <2>4
  <2>. QED BY <2>1, <2>2, <2>3, <2>8, <2>9
<1>15. RepliesReachTheirObject'
  <2>. SUFFICES ASSUME NEW s \in Known, NEW by \in Sends, by = answeredBy'[s],
                       sends[by].install = sends[s].install, by # s
                PROVE  sends[by].object = sends[s].object /\ Astray(by)'
    <3>1. \A s \in Known : answeredBy'[s] # 0 => answeredBy'[s] \in Sends
      BY <1>10, KnownAreSends DEF IndInv, TypeOK
    <3>. QED BY <3>1 DEF RepliesReachTheirObject, Known, Astray
  <2>0. s \in Sends
    BY KnownAreSends DEF IndInv
  <2>1. CASE s = l /\ object[x] = "loading"
    <3>1. by = c.send /\ OfCurrent(by)
      BY <1>2, <1>7, <1>9, <2>0, <2>1 DEF OfCurrent
    <3>2. by = u /\ sends[by].object = x /\ sends[s].object = x
      BY <1>2, <1>4, <1>7, <2>1, <3>1
    <3>3. Astray(by)
      BY <1>5, <1>6, <2>1, <3>2
    <3>. QED BY <1>13, <3>2, <3>3
  <2>2. CASE ~(s = l /\ object[x] = "loading")
    <3>1. by = answeredBy[s] /\ by # 0
      BY <1>9, <2>0, <2>2 DEF Sends
    <3>2. sends[by].object = sends[s].object /\ Astray(by)
      BY <3>1 DEF IndInv, RepliesReachTheirObject, Known, Astray
    <3>. QED BY <1>13, <3>2
  <2>. QED BY <2>1, <2>2
<1>. QED BY <1>10, <1>11, <1>12, <1>14, <1>15, FoundCalls DEF IndInv

----------------------------------------------------------------------------
(* The answers of the client. *)

LEMMA EvaluateOK ==
  ASSUME IndInv, NEW c \in flight, flight' = flight \ {c}, Evaluate(c),
         UNCHANGED <<dartVars, next, latest, queue, sends, abandoned, lost>>
  PROVE  IndInv'
<1>1. CASE table[c.id] = 0
  <2>1. c.send # table[c.id]
    BY <1>1, FlightTypes DEF IndInv, Sends
  <2>2. Dropped(c)
    BY <1>1 DEF Evaluate, Dropped, jsVars, historyVars
  <2>. QED BY <2>1, <2>2, DroppedOK
<1>2. CASE table[c.id] # 0
  <2>1. Found(c)
    BY <1>2 DEF Evaluate, Found
  <2>. QED BY <2>1, FoundOK
<1>. QED BY <1>1, <1>2

\* A call of the current enableXhr finds it live, and the runtime active.
LEMMA CurrentIsLive ==
  ASSUME IndInv, NEW c \in flight, OfCurrent(c.send)
  PROVE  active /\ c.install \in Live
BY DEF IndInv, SessionsOK

LEMMA ReplyOK == ASSUME IndInv, NEW c \in flight, Reply(c) PROVE IndInv'
<1>1. CASE active /\ c.install \in Live
  BY <1>1, EvaluateOK DEF Reply
<1>2. CASE ~(active /\ c.install \in Live)
  <2>1. Dropped(c)
    BY <1>2 DEF Reply, Dropped, jsVars, historyVars
  <2>. QED BY <1>2, <2>1, CurrentIsLive, DroppedOK
<1>. QED BY <1>1, <1>2

LEMMA FailOK == ASSUME IndInv, NEW c \in flight, Fail(c) PROVE IndInv'
<1>1. CASE active
  BY <1>1, EvaluateOK DEF Fail
<1>2. CASE ~active
  <2>1. Dropped(c)
    BY <1>2 DEF Fail, Dropped, jsVars, historyVars
  <2>. QED BY <1>2, <2>1, CurrentIsLive, DroppedOK
<1>. QED BY <1>1, <1>2

LEMMA StepOK == IndInv /\ [Next]_vars => IndInv'
<1>. SUFFICES ASSUME IndInv, [Next]_vars PROVE IndInv'
  OBVIOUS
<1>1. CASE Enable \/ Close \/ Dispose
  BY <1>1, EnableOK, CloseOK, DisposeOK
<1>2. CASE \E x \in Objects : Open(x) \/ Abort(x)
  BY <1>2, OpenOK, AbortOK
<1>3. CASE \E x \in Objects, how \in Outcomes : Send(x, how)
  BY <1>3, SendOK
<1>4. CASE \E i \in 1 .. MaxInstalls : Poll(i)
  BY <1>4, PollOK
<1>5. CASE \E c \in flight : Reply(c) \/ Fail(c)
  BY <1>5, ReplyOK, FailOK
<1>6. CASE UNCHANGED vars
  BY <1>6, StutterOK
<1>. QED BY <1>1, <1>2, <1>4, <1>5, <1>6, <1>3 DEF Next

LEMMA Invariance == Spec => []IndInv
BY InitOK, StepOK, PTL DEF Spec

LEMMA CallbacksMatch == IndInv => CallbacksMatchCalls
<1>. SUFFICES ASSUME IndInv, NEW s \in Known, sends[s].install = current
              PROVE  LET queued == {n \in DOMAIN queue : queue[n].send = s}
                         flying == {c \in flight : c.send = s}
                         keys   == {i \in Ids : table[i] = s}
                     IN  /\ keys # {} =>
                              \/ \E n \in queued : keys = {queue[n].id} /\ flying = {}
                              \/ \E c \in flying : keys = {c.id} /\ queued = {}
                              \/ s \in lost /\ queued \cup flying = {}
                         /\ queued \cup flying # {} /\ s \notin crossed => keys # {}
                         /\ \A c, d \in flying : c = d
  BY DEF CallbacksMatchCalls, Known
<1>. DEFINE queued == {n \in DOMAIN queue : queue[n].send = s}
            flying == {c \in flight : c.send = s}
            keys   == {i \in Ids : table[i] = s}
<1>1. OfCurrent(s) /\ s # 0
  BY KnownAreSends DEF OfCurrent, IndInv, Sends
<1>2. \A c, d \in flying : c = d
  BY DEF IndInv, Apart
<1>3. queued # {} => flying = {}
  BY DEF IndInv, Apart
<1>4. ASSUME keys # {}
      PROVE  \/ \E n \in queued : keys = {queue[n].id} /\ flying = {}
             \/ \E c \in flying : keys = {c.id} /\ queued = {}
             \/ s \in lost /\ queued \cup flying = {}
  <2>1. PICK i \in Ids : table[i] = s
    BY <1>4
  <2>2. keys = {i}
    BY <1>1, <2>1 DEF IndInv, TableOK
  <2>3. \/ \E n \in queued : queue[n].id = i
        \/ \E c \in flying : c.id = i
        \/ s \in lost /\ queued \cup flying = {}
    BY <1>1, <2>1 DEF IndInv, CallsOK, LostOK
  <2>. QED BY <1>3, <2>2, <2>3
<1>5. ASSUME queued \cup flying # {}, s \notin crossed PROVE keys # {}
  <2>1. CASE queued # {}
    <3>1. PICK n \in DOMAIN queue : queue[n].send = s
      BY <2>1
    <3>2. queue[n].id \in Ids /\ table[queue[n].id] = s
      BY <1>5, <3>1, QueueTypes DEF IndInv, CallsOK, LeadsHome
    <3>. QED BY <3>2
  <2>2. CASE flying # {}
    <3>1. PICK c \in flight : c.send = s
      BY <2>2
    <3>2. c.id \in Ids /\ table[c.id] = s
      BY <1>1, <1>5, <3>1, FlightTypes DEF IndInv, CallsOK, LeadsHome
    <3>. QED BY <3>2
  <2>. QED BY <1>5, <2>1, <2>2
<1>. QED BY <1>2, <1>4, <1>5

----------------------------------------------------------------------------
(* The theorems. *)

\* Requests, numbers, callbacks, calls and histories keep their types, and a number
\* never leaves the table, for any number of sends, enableXhr and close().
THEOREM TypeCorrect == Spec => []TypeOK
<1>1. IndInv => TypeOK
  BY DEF IndInv
<1>. QED BY <1>1, Invariance, PTL

\* However often an object is opened, aborted and sent, and whatever send() loses on
\* its way, a reply of the same enableXhr finishes the request it belongs to, or
\* another of the same object, and the latter only when its own was loading as the
\* object was aborted, opened or sent again, or had lost its place in this way.
THEOREM RepliesAreTheirs == Spec => []RepliesReachTheirObject
<1>1. IndInv => RepliesReachTheirObject
  BY DEF IndInv
<1>. QED BY <1>1, Invariance, PTL

\* The calls that are queued or in flight have their callbacks in the table, one to
\* one; a callback without a call is that of a send which failed after it was
\* numbered, and a call without a callback one whose number a reply from before
\* the enableXhr has used.
THEOREM CallbacksCorrect == Spec => []CallbacksMatchCalls
BY Invariance, CallbacksMatch, PTL

\* What a client still works on for a closed runtime finds no live enableXhr.
THEOREM ClosedStaysClosed == Spec => []ClosedSessionsStayClosed
<1>1. IndInv => ClosedSessionsStayClosed
  <2>. SUFFICES ASSUME IndInv, NEW c \in flight, c.install \in Live,
                       sends[c.send].session < session \/ ~active
                PROVE  FALSE
    BY DEF ClosedSessionsStayClosed
  <2>1. active /\ sends[c.send].session = session /\ session \in Nat
    BY NumberTypes DEF IndInv, SessionsOK
  <2>. QED BY <2>1
<1>. QED BY <1>1, Invariance, PTL
=============================================================================
