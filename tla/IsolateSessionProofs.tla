----------------------- MODULE IsolateSessionProofs -----------------------
(***************************************************************************)
(* Proofs about IsolateSession for any number of calls, workers and module *)
(* lookups: types, that evaluate() uses the one live session, and that     *)
(* close() is orderly.                                                     *)
(***************************************************************************)
EXTENDS IsolateSession, SequenceTheorems, TLAPS

Down       == {"closed", "exited"}
States     == {"none", "spawning", "closed", "leaked", "exited", "crashed"} \cup Listens
Answers(m) == m.type \in {"value", "fault"}

\* What a queue holds; requests of one session in the order of their calls (f
\* gives the session); an exit that no error precedes.
Has(q, x)     == \E i \in DOMAIN q : q[i] = x
Ordered(q, f) ==
  \A i, j \in DOMAIN q : i < j /\ f[q[i]] = f[q[j]] => q[i] < q[j]
Unannounced(q) ==
  \E i \in DOMAIN q :
    /\ q[i].type = "exit"
    /\ \A j \in DOMAIN q : j < i => q[j].type # "error"

\* Sessions that have not begun.
Unborn ==
  \A s \in Sessions :
    /\ s > started => /\ worker[s] = "none" /\ ready[s] = "waiting"
                      /\ failure[s] = "none" /\ s \notin closing \cup ports
    /\ worker[s] \in {"none", "spawning"} => outbox[s] = <<>>

\* What a session knows of its worker is true.
SessionsOK ==
  \A s \in Sessions :
    /\ ready[s] = "failed" => failure[s] # "none"
    /\ ready[s] = "ready" => worker[s] \notin {"none", "spawning"}
    /\ failure[s] # "none" => /\ worker[s] \in {"crashed", "exited"}
                              /\ s \notin ports /\ ready[s] # "waiting"
    /\ failure[s] = "closed" => worker[s] = "exited"
    /\ worker[s] \in Down => s \in closing

\* Requests are made one after another, to sessions that exist; close() is the
\* last request of its session, and requests leave the queue of the waiting in
\* the order of their calls.
RequestsOK ==
  \A r \in Requests :
    /\ r <= calls => session[r] \in 1 .. started /\ at[r] # "unused"
    /\ r > calls => /\ session[r] = 0 /\ at[r] = "unused"
                    /\ kind[r] = "none" /\ result[r] = "none"
    /\ kind[r] = "close" =>
         /\ session[r] \in closing
         /\ \A q \in Requests : session[q] = session[r] => q <= r
    /\ at[r] = "waiting" =>
         \A q \in Requests : r < q /\ session[q] = session[r] => at[q] = "waiting"

\* Where the waiting requests are.
WaitersOK ==
  /\ Ordered(micro, session)
  /\ \A r \in Requests :
       Has(micro, r) => at[r] = "waiting" /\ ready[session[r]] # "waiting"
  /\ \A s \in Sessions :
       /\ Ordered(listeners[s], session)
       /\ \A r \in Requests :
            Has(listeners[s], r) =>
              at[r] = "waiting" /\ session[r] = s /\ ready[s] = "waiting"
  /\ \A r \in Requests :
       at[r] = "waiting" => Has(micro, r) \/ Has(listeners[session[r]], r)

InboxOK ==
  \A s \in Sessions :
    /\ Ordered(inbox[s], session)
    /\ \A r \in Requests :
         Has(inbox[s], r) =>
           worker[s] \in Listens /\ session[r] = s /\ at[r] = "sent"

\* Messages of a worker say what has become of it.
OutboxOK ==
  \A s \in Sessions :
    /\ \A m \in Messages : Has(outbox[s], m) =>
         /\ Answers(m) =>
              /\ m.of \in Requests /\ session[m.of] = s
              /\ at[m.of] \in {"sent", "done"} /\ ~Has(inbox[s], m.of)
              /\ m.type = "value" /\ kind[m.of] = "close" => worker[s] \in Down
         /\ m.type = "error" => worker[s] = "crashed"
    /\ Unannounced(outbox[s]) => worker[s] = "exited" \/ s \notin ports

\* A worker that is there, or has closed as it should, loses no request.
Replied(r) ==
  \E m \in Messages : Has(outbox[session[r]], m) /\ Answers(m) /\ m.of = r

NothingLost ==
  \A r \in Requests :
    /\ at[r] = "sent" =>
         /\ ready[session[r]] = "ready"
         /\ worker[session[r]] \in Listens => Has(inbox[session[r]], r) \/ Replied(r)
         /\ worker[session[r]] \in Down => Replied(r)
    /\ at[r] = "waiting" => worker[session[r]] \notin Down
    /\ kind[r] = "close" /\ result[r] = "value" => worker[session[r]] \in Down

IndInv ==
  /\ TypeOK
  /\ CurrentIsTheLiveOne
  /\ Unborn
  /\ SessionsOK
  /\ RequestsOK
  /\ WaitersOK
  /\ InboxOK
  /\ OutboxOK
  /\ NothingLost

----------------------------------------------------------------------------
(* Queues. *)

LEMMA IsQueue ==
  ASSUME NEW S, NEW q \in Seq(S)
  PROVE  /\ DOMAIN q = 1 .. Len(q) /\ Len(q) \in Nat
         /\ \A i \in DOMAIN q : q[i] \in S
         /\ \A x : Has(q, x) => x \in S
<1>1. DOMAIN q = 1 .. Len(q) /\ Len(q) \in Nat
  BY LenProperties
<1>2. \A i \in DOMAIN q : q[i] \in S
  BY <1>1, ElementOfSeq
<1>. QED BY <1>1, <1>2 DEF Has

LEMMA EmptyQueue ==
  ASSUME NEW S
  PROVE  /\ << >> \in Seq(S) /\ DOMAIN << >> = {}
         /\ \A x : ~Has(<< >>, x)
         /\ \A f : Ordered(<< >>, f)
         /\ ~Unannounced(<< >>)
<1>1. << >> \in Seq(S) /\ Len(<< >>) = 0
  BY EmptySeq
<1>2. DOMAIN << >> = {}
  BY <1>1, IsQueue
<1>. QED BY <1>1, <1>2 DEF Has, Ordered, Unannounced

LEMMA AppendedQueue ==
  ASSUME NEW S, NEW q \in Seq(S), NEW e \in S
  PROVE  /\ Append(q, e) \in Seq(S)
         /\ DOMAIN Append(q, e) = DOMAIN q \cup {Len(q) + 1}
         /\ \A i \in DOMAIN q : Append(q, e)[i] = q[i]
         /\ Append(q, e)[Len(q) + 1] = e
         /\ \A x : Has(Append(q, e), x) <=> Has(q, x) \/ x = e
<1>1. PICK n \in Nat : n = Len(q)
  BY LenProperties
<1>2. PICK r \in Seq(S) : r = Append(q, e)
  BY AppendProperties
<1>3. /\ Len(r) = n + 1
      /\ \A i \in 1 .. n + 1 : r[i] = IF i <= n THEN q[i] ELSE e
  BY <1>1, <1>2, AppendProperties
<1>4. DOMAIN r = 1 .. n + 1 /\ DOMAIN q = 1 .. n
  BY <1>1, <1>3, IsQueue
<1>5. /\ DOMAIN r = DOMAIN q \cup {n + 1}
      /\ \A i \in DOMAIN q : r[i] = q[i]
      /\ r[n + 1] = e
  BY <1>3, <1>4
<1>6. \A x : Has(r, x) <=> Has(q, x) \/ x = e
  BY <1>5 DEF Has
<1>. QED BY <1>1, <1>2, <1>5, <1>6

LEMMA TailQueue ==
  ASSUME NEW S, NEW q \in Seq(S), q # << >>
  PROVE  /\ Head(q) \in S /\ Tail(q) \in Seq(S)
         /\ 1 \in DOMAIN q /\ Head(q) = q[1]
         /\ \A i \in DOMAIN Tail(q) : i + 1 \in DOMAIN q /\ Tail(q)[i] = q[i + 1]
         /\ \A i \in DOMAIN q : i # 1 => i - 1 \in DOMAIN Tail(q) /\ Tail(q)[i - 1] = q[i]
         /\ Has(q, Head(q))
         /\ \A x : Has(Tail(q), x) => Has(q, x)
         /\ \A x : Has(q, x) => x = Head(q) \/ Has(Tail(q), x)
<1>1. PICK n \in Nat \ {0} : n = Len(q)
  BY EmptySeq
<1>2. PICK t \in Seq(S) : t = Tail(q)
  BY HeadTailProperties
<1>3. /\ Head(q) \in S /\ Head(q) = q[1] /\ Len(t) = n - 1
      /\ \A i \in 1 .. n - 1 : t[i] = q[i + 1]
  BY <1>1, <1>2, HeadTailProperties, SMT
<1>4. DOMAIN t = 1 .. n - 1 /\ DOMAIN q = 1 .. n
  BY <1>1, <1>3, IsQueue
<1>5. /\ 1 \in DOMAIN q
      /\ \A i \in DOMAIN t : i + 1 \in DOMAIN q /\ t[i] = q[i + 1]
      /\ \A i \in DOMAIN q : i # 1 => i - 1 \in DOMAIN t /\ t[i - 1] = q[i]
  BY <1>3, <1>4
<1>6. Has(q, q[1])
  BY <1>5 DEF Has
<1>7. \A x : Has(t, x) => Has(q, x)
  BY <1>5 DEF Has
<1>8. \A x : Has(q, x) => x = q[1] \/ Has(t, x)
  BY <1>5 DEF Has
<1>. QED BY <1>2, <1>3, <1>5, <1>6, <1>7, <1>8

LEMMA OrderedAppend ==
  ASSUME NEW q \in Seq(Requests), NEW e \in Requests, NEW f, Ordered(q, f),
         \A x \in Requests : Has(q, x) /\ f[x] = f[e] => x < e
  PROVE  Ordered(Append(q, e), f)
<1>1. PICK n \in Nat : n = Len(q)
  BY LenProperties
<1>2. PICK r : r = Append(q, e)
  OBVIOUS
<1>3. /\ DOMAIN q = 1 .. n
      /\ DOMAIN r = DOMAIN q \cup {n + 1}
      /\ \A i \in DOMAIN q : r[i] = q[i]
      /\ r[n + 1] = e
  BY <1>1, <1>2, AppendedQueue, IsQueue
<1>4. \A i \in DOMAIN q : q[i] \in Requests /\ Has(q, q[i])
  BY IsQueue DEF Has
<1>5. ASSUME NEW i \in DOMAIN r, NEW j \in DOMAIN r, i < j, f[r[i]] = f[r[j]]
      PROVE  r[i] < r[j]
  <2>1. i \in DOMAIN q
    BY <1>3, <1>5
  <2>2. CASE j \in DOMAIN q
    BY <1>3, <1>5, <2>1, <2>2 DEF Ordered
  <2>3. CASE j \notin DOMAIN q
    <3>1. j = n + 1 /\ r[j] = e
      BY <1>3, <2>3
    <3>. QED BY <1>3, <1>4, <1>5, <2>1, <3>1
  <2>. QED BY <2>2, <2>3
<1>. QED BY <1>2, <1>5 DEF Ordered

LEMMA OrderedTail ==
  ASSUME NEW q \in Seq(Requests), q # << >>, NEW f, Ordered(q, f)
  PROVE  /\ Ordered(Tail(q), f)
         /\ ~Has(Tail(q), Head(q))
         /\ \A x \in Requests : Has(q, x) /\ f[x] = f[Head(q)] => Head(q) <= x
<1>1. PICK n \in Nat : n = Len(q)
  BY LenProperties
<1>2. DOMAIN q = 1 .. n /\ \A i \in DOMAIN q : q[i] \in Nat
  <2>1. DOMAIN q = 1 .. n /\ \A i \in DOMAIN q : q[i] \in Requests
    BY <1>1, IsQueue
  <2>. QED BY <2>1 DEF Requests
<1>3. PICK t : t = Tail(q)
  OBVIOUS
<1>4. PICK m \in Nat : DOMAIN t = 1 .. m
  BY <1>3, TailQueue, IsQueue
<1>5. /\ 1 \in DOMAIN q /\ Head(q) = q[1]
      /\ \A i \in DOMAIN t : i + 1 \in DOMAIN q /\ t[i] = q[i + 1]
  BY <1>3, TailQueue
<1>6. Ordered(t, f)
  <2>1. ASSUME NEW i \in DOMAIN t, NEW j \in DOMAIN t, i < j, f[t[i]] = f[t[j]]
        PROVE  t[i] < t[j]
    <3>1. i + 1 \in DOMAIN q /\ j + 1 \in DOMAIN q /\ i + 1 < j + 1
      BY <1>4, <1>5, <2>1
    <3>. QED BY <1>5, <2>1, <3>1 DEF Ordered
  <2>. QED BY <2>1 DEF Ordered
<1>7. \A i \in DOMAIN q : i # 1 /\ f[q[i]] = f[q[1]] => q[1] < q[i]
  <2>1. \A i \in DOMAIN q : i # 1 => 1 < i
    BY <1>2
  <2>. QED BY <1>5, <2>1 DEF Ordered
<1>8. ~Has(t, q[1])
  <2>1. ASSUME NEW i \in DOMAIN t, t[i] = q[1] PROVE FALSE
    <3>1. i + 1 \in DOMAIN q /\ i + 1 # 1 /\ q[i + 1] = q[1]
      BY <1>4, <1>5, <2>1
    <3>. QED BY <1>2, <1>5, <1>7, <3>1
  <2>. QED BY <2>1 DEF Has
<1>9. ASSUME NEW x \in Requests, Has(q, x), f[x] = f[q[1]] PROVE q[1] <= x
  <2>1. PICK i \in DOMAIN q : q[i] = x
    BY <1>9 DEF Has
  <2>2. q[1] \in Nat /\ x \in Nat
    BY <1>2, <1>5 DEF Requests
  <2>3. i # 1 => q[1] < x
    BY <1>7, <1>9, <2>1
  <2>. QED BY <2>1, <2>2, <2>3
<1>. QED BY <1>3, <1>5, <1>6, <1>8, <1>9

\* The order depends only on the sessions of what is queued.
LEMMA OrderedSame ==
  ASSUME NEW q \in Seq(Requests), NEW f, NEW g, Ordered(q, f),
         \A x \in Requests : Has(q, x) => g[x] = f[x]
  PROVE  Ordered(q, g)
<1>1. \A i \in DOMAIN q : q[i] \in Requests /\ Has(q, q[i])
  BY IsQueue DEF Has
<1>. QED BY <1>1 DEF Ordered

\* Exits in a queue of messages.
LEMMA ExitAppended ==
  ASSUME NEW q \in Seq(Messages), NEW m \in Messages, Unannounced(Append(q, m))
  PROVE  Unannounced(q) \/ m.type = "exit"
<1>1. PICK n \in Nat : n = Len(q)
  BY LenProperties
<1>2. PICK r : r = Append(q, m)
  OBVIOUS
<1>3. /\ DOMAIN r = DOMAIN q \cup {n + 1}
      /\ \A i \in DOMAIN q : r[i] = q[i]
      /\ r[n + 1] = m
  BY <1>1, <1>2, AppendedQueue
<1>. QED BY <1>2, <1>3 DEF Unannounced

LEMMA ExitsOfTail ==
  ASSUME NEW q \in Seq(Messages), q # << >>
  PROVE  /\ Unannounced(Tail(q)) /\ Head(q).type # "error" => Unannounced(q)
         /\ Head(q).type = "exit" => Unannounced(q)
<1>1. PICK n \in Nat : DOMAIN q = 1 .. n
  BY IsQueue
<1>2. PICK t : t = Tail(q)
  OBVIOUS
<1>3. PICK k \in Nat : DOMAIN t = 1 .. k
  BY <1>2, TailQueue, IsQueue
<1>4. /\ 1 \in DOMAIN q /\ Head(q) = q[1]
      /\ \A i \in DOMAIN t : i + 1 \in DOMAIN q /\ t[i] = q[i + 1]
      /\ \A i \in DOMAIN q : i # 1 => i - 1 \in DOMAIN t /\ t[i - 1] = q[i]
  BY <1>2, TailQueue
<1>5. ASSUME Unannounced(t), q[1].type # "error" PROVE Unannounced(q)
  <2>1. PICK i \in DOMAIN t : /\ t[i].type = "exit"
                              /\ \A j \in DOMAIN t : j < i => t[j].type # "error"
    BY <1>5 DEF Unannounced
  <2>2. i + 1 \in DOMAIN q /\ q[i + 1].type = "exit"
    BY <1>4, <2>1
  <2>3. ASSUME NEW j \in DOMAIN q, j < i + 1 PROVE q[j].type # "error"
    <3>1. CASE j = 1
      BY <1>5, <3>1
    <3>2. CASE j # 1
      <4>1. j - 1 \in DOMAIN t /\ t[j - 1] = q[j]
        BY <1>4, <3>2
      <4>2. j - 1 < i
        BY <1>1, <1>3, <2>3
      <4>. QED BY <2>1, <4>1, <4>2
    <3>. QED BY <3>1, <3>2
  <2>. QED BY <2>2, <2>3 DEF Unannounced
<1>6. ASSUME q[1].type = "exit" PROVE Unannounced(q)
  <2>1. \A j \in DOMAIN q : ~(j < 1)
    BY <1>1
  <2>. QED BY <1>4, <1>6, <2>1 DEF Unannounced
<1>. QED BY <1>2, <1>4, <1>5, <1>6

\* The two messages of a crash.
LEMMA CrashQueue ==
  ASSUME NEW q \in Seq(Messages), NEW e \in Messages, NEW x \in Messages,
         e.type = "error"
  PROVE  /\ q \o <<e, x>> \in Seq(Messages)
         /\ \A m : Has(q \o <<e, x>>, m) <=> Has(q, m) \/ m = e \/ m = x
         /\ Unannounced(q \o <<e, x>>) => Unannounced(q)
<1>. DEFINE t == <<e, x>>
<1>1. t \in Seq(Messages) /\ Len(t) = 2 /\ t[1] = e /\ t[2] = x
  OBVIOUS
<1>. HIDE DEF t
<1>2. PICK n \in Nat : n = Len(q)
  BY LenProperties
<1>3. /\ q \o t \in Seq(Messages) /\ Len(q \o t) = Len(q) + Len(t)
      /\ \A i \in 1 .. Len(q) + Len(t) :
           (q \o t)[i] = IF i <= Len(q) THEN q[i] ELSE t[i - Len(q)]
  BY <1>1, ConcatProperties
<1>4. PICK r : r = q \o t
  OBVIOUS
<1>5. /\ Len(r) = n + 2 /\ r \in Seq(Messages)
      /\ \A i \in 1 .. n + 2 : r[i] = IF i <= n THEN q[i] ELSE t[i - n]
  BY <1>1, <1>2, <1>3, <1>4
<1>6. DOMAIN r = 1 .. n + 2 /\ DOMAIN q = 1 .. n
  BY <1>2, <1>5, IsQueue
<1>7. /\ \A i \in DOMAIN q : i \in DOMAIN r /\ r[i] = q[i]
      /\ \A i \in DOMAIN r : i \in DOMAIN q \/ i = n + 1 \/ i = n + 2
      /\ n + 1 \in DOMAIN r /\ n + 2 \in DOMAIN r
      /\ r[n + 1] = e /\ r[n + 2] = x
  <2>1. \A i \in DOMAIN q : i \in DOMAIN r /\ r[i] = q[i]
    BY <1>5, <1>6
  <2>2. /\ \A i \in DOMAIN r : i \in DOMAIN q \/ i = n + 1 \/ i = n + 2
        /\ n + 1 \in DOMAIN r /\ n + 2 \in DOMAIN r
    BY <1>6
  <2>3. r[n + 1] = e
    <3>1. n + 1 \in 1 .. n + 2 /\ ~(n + 1 <= n) /\ n + 1 - n = 1
      OBVIOUS
    <3>. QED BY <1>1, <1>5, <3>1
  <2>4. r[n + 2] = x
    <3>1. n + 2 \in 1 .. n + 2 /\ ~(n + 2 <= n) /\ n + 2 - n = 2
      OBVIOUS
    <3>. QED BY <1>1, <1>5, <3>1
  <2>. QED BY <2>1, <2>2, <2>3, <2>4
<1>8. \A m : Has(r, m) <=> Has(q, m) \/ m = e \/ m = x
  BY <1>7 DEF Has
<1>9. ASSUME Unannounced(r) PROVE Unannounced(q)
  <2>1. PICK i \in DOMAIN r : /\ r[i].type = "exit"
                              /\ \A j \in DOMAIN r : j < i => r[j].type # "error"
    BY <1>9 DEF Unannounced
  <2>2. i # n + 1 /\ i # n + 2
    BY <1>7, <2>1
  <2>. QED BY <1>7, <2>1, <2>2 DEF Unannounced
<1>. QED BY <1>4, <1>5, <1>8, <1>9 DEF t

----------------------------------------------------------------------------
(* The steps keep the invariant. *)

LEMMA InitOK == Init => IndInv
<1>. SUFFICES ASSUME Init PROVE IndInv
  OBVIOUS
<1>1. /\ << >> \in Seq(Requests) /\ << >> \in Seq(Messages)
      /\ DOMAIN << >> = {} /\ \A x : ~Has(<< >>, x)
      /\ \A f : Ordered(<< >>, f) /\ ~Unannounced(<< >>)
  BY EmptyQueue
<1>2. TypeOK
  BY <1>1, BoundsAssumption DEF Init, TypeOK
<1>3. CurrentIsTheLiveOne /\ Unborn /\ SessionsOK
  BY BoundsAssumption DEF Init, CurrentIsTheLiveOne, Unborn, SessionsOK, Down
<1>4. RequestsOK
  BY BoundsAssumption DEF Init, RequestsOK, Requests
<1>5. WaitersOK
  BY <1>1 DEF Init, WaitersOK
<1>6. InboxOK
  BY <1>1 DEF Init, InboxOK
<1>7. OutboxOK
  BY <1>1 DEF Init, OutboxOK
<1>8. NothingLost
  BY DEF Init, NothingLost
<1>. QED BY <1>2, <1>3, <1>4, <1>5, <1>6, <1>7, <1>8 DEF IndInv

\* A new request of a session that is not closing joins those that wait.
LEMMA IssueRequests ==
  ASSUME IndInv, calls < MaxRequests, NEW s \in Sessions, s \notin closing,
         NEW what \in {"evaluate", "close"}, Issue(calls + 1, s, what),
         s \in 1 .. started', started <= started', started' \in Nat,
         closing \subseteq closing', what = "close" => s \in closing',
         UNCHANGED result
  PROVE  /\ calls + 1 \in Requests /\ calls' = calls + 1 /\ calls' \in 0 .. MaxRequests
         /\ kind' \in [Requests -> {"none", "evaluate", "close"}]
         /\ session' \in [Requests -> {0} \cup Sessions]
         /\ at' \in [Requests -> {"unused", "waiting", "sent", "done"}]
         /\ kind' = [kind EXCEPT ![calls + 1] = what]
         /\ session' = [session EXCEPT ![calls + 1] = s]
         /\ at' = [at EXCEPT ![calls + 1] = "waiting"]
         /\ RequestsOK'
<1>1. PICK n \in Requests : n = calls + 1 /\ calls \in Nat
  BY BoundsAssumption DEF IndInv, TypeOK, Requests
<1>2. /\ calls' = n
      /\ kind' = [kind EXCEPT ![n] = what]
      /\ session' = [session EXCEPT ![n] = s]
      /\ at' = [at EXCEPT ![n] = "waiting"]
  BY <1>1 DEF Issue
<1>3. /\ kind \in [Requests -> {"none", "evaluate", "close"}]
      /\ session \in [Requests -> {0} \cup Sessions]
      /\ at \in [Requests -> {"unused", "waiting", "sent", "done"}]
  BY DEF IndInv, TypeOK
<1>4. /\ kind' \in [Requests -> {"none", "evaluate", "close"}]
      /\ session' \in [Requests -> {0} \cup Sessions]
      /\ at' \in [Requests -> {"unused", "waiting", "sent", "done"}]
      /\ calls' \in 0 .. MaxRequests
  BY <1>1, <1>2, <1>3, BoundsAssumption DEF Requests
<1>5. \A r \in Requests : r \in Nat
  BY DEF Requests
<1>6. started \in Nat
  BY BoundsAssumption DEF IndInv, TypeOK
<1>7. RequestsOK
  BY DEF IndInv
<1>8. ASSUME NEW r \in Requests
      PROVE  RequestsOK!(r)'
  <2>1. CASE r = n
    <3>1. session'[r] = s /\ at'[r] = "waiting" /\ kind'[r] = what
      BY <1>2, <1>3, <2>1
    <3>2. \A q \in Requests : n < q => session'[q] = 0
      BY <1>1, <1>2, <1>3, <1>5, <1>7 DEF RequestsOK
    <3>3. s # 0
      BY DEF Sessions
    <3>. QED BY <1>2, <1>5, <2>1, <3>1, <3>2, <3>3
  <2>2. CASE r # n
    <3>1. session'[r] = session[r] /\ at'[r] = at[r] /\ kind'[r] = kind[r]
      BY <1>2, <1>3, <2>2
    <3>2. r <= n => r <= calls
      BY <1>1, <1>5, <2>2
    <3>3. r <= calls => session'[r] \in 1 .. started' /\ at'[r] # "unused"
      BY <1>6, <1>7, <3>1 DEF RequestsOK
    <3>4. r > n => session'[r] = 0 /\ at'[r] = "unused" /\ kind'[r] = "none" /\ result'[r] = "none"
      BY <1>1, <1>5, <1>7, <3>1 DEF RequestsOK
    <3>5. kind'[r] = "close" =>
            /\ session'[r] \in closing'
            /\ \A q \in Requests : session'[q] = session'[r] => q <= r
      BY <1>2, <1>3, <1>7, <3>1 DEF RequestsOK
    <3>6. at'[r] = "waiting" =>
            \A q \in Requests : r < q /\ session'[q] = session'[r] => at'[q] = "waiting"
      BY <1>2, <1>3, <1>7, <3>1 DEF RequestsOK
    <3>. QED BY <1>2, <3>2, <3>3, <3>4, <3>5, <3>6
  <2>. QED BY <2>1, <2>2
<1>9. RequestsOK'
  BY <1>8 DEF RequestsOK
<1>. QED BY <1>1, <1>2, <1>4, <1>9

LEMMA IssueWaiters ==
  ASSUME IndInv, NEW n \in Requests, n = calls + 1, calls \in Nat,
         NEW s \in Sessions, Await(n, s), UNCHANGED ready,
         session' = [session EXCEPT ![n] = s], at' = [at EXCEPT ![n] = "waiting"]
  PROVE  /\ listeners' \in [Sessions -> Seq(Requests)] /\ micro' \in Seq(Requests)
         /\ WaitersOK'
<1>1. /\ listeners \in [Sessions -> Seq(Requests)] /\ micro \in Seq(Requests)
      /\ session \in [Requests -> {0} \cup Sessions]
      /\ at \in [Requests -> {"unused", "waiting", "sent", "done"}]
      /\ WaitersOK /\ \A r \in Requests : r \in Nat
  BY DEF IndInv, TypeOK, Requests
<1>2. /\ session'[n] = s /\ at'[n] = "waiting"
      /\ \A r \in Requests : r # n => session'[r] = session[r] /\ at'[r] = at[r]
  BY <1>1
<1>3. at[n] = "unused"
  BY <1>1 DEF IndInv, RequestsOK
<1>4. \A r \in Requests : at[r] # "unused" => r < n
  BY <1>1 DEF IndInv, RequestsOK
<1>5. ~Has(micro, n) /\ \A t \in Sessions : ~Has(listeners[t], n)
  BY <1>1, <1>3 DEF WaitersOK
<1>6. \A r \in Requests :
        /\ Has(micro, r) => session'[r] = session[r] /\ at'[r] = at[r] /\ r < n
        /\ \A t \in Sessions :
             Has(listeners[t], r) => session'[r] = session[r] /\ at'[r] = at[r] /\ r < n
  BY <1>1, <1>2, <1>4, <1>5 DEF WaitersOK
<1>7. Ordered(micro, session') /\ \A t \in Sessions : Ordered(listeners[t], session')
  <2>1. PICK g : g = session'
    OBVIOUS
  <2>2. Ordered(micro, g)
    <3>1. Ordered(micro, session) /\ \A x \in Requests : Has(micro, x) => g[x] = session[x]
      BY <1>1, <1>6, <2>1 DEF WaitersOK
    <3>. QED BY <1>1, <3>1, OrderedSame
  <2>3. ASSUME NEW t \in Sessions PROVE Ordered(listeners[t], g)
    <3>1. PICK q \in Seq(Requests) : q = listeners[t]
      BY <1>1
    <3>2. Ordered(q, session) /\ \A x \in Requests : Has(q, x) => g[x] = session[x]
      BY <1>1, <1>6, <2>1, <3>1 DEF WaitersOK
    <3>3. Ordered(q, g)
      BY <3>2, OrderedSame
    <3>. QED BY <3>1, <3>3
  <2>. QED BY <2>1, <2>2, <2>3
<1>8. CASE ready[s] = "waiting"
  <2>1. PICK q \in Seq(Requests) : q = listeners[s]
    BY <1>1
  <2>2. micro' = micro /\ listeners' = [listeners EXCEPT ![s] = Append(q, n)]
    BY <1>8, <2>1 DEF Await, Queued
  <2>3. /\ Append(q, n) \in Seq(Requests)
        /\ \A x : Has(Append(q, n), x) <=> Has(q, x) \/ x = n
    BY AppendedQueue
  <2>4. Ordered(Append(q, n), session')
    <3>1. PICK g : g = session'
      OBVIOUS
    <3>2. Ordered(q, g) /\ \A x \in Requests : Has(q, x) /\ g[x] = g[n] => x < n
      BY <1>6, <1>7, <2>1, <3>1
    <3>3. Ordered(Append(q, n), g)
      BY <3>2, OrderedAppend
    <3>. QED BY <3>1, <3>3
  <2>5. PICK a \in Seq(Requests) : a = Append(q, n)
    BY <2>3
  <2>6. /\ listeners'[s] = a
        /\ \A t \in Sessions : t # s => listeners'[t] = listeners[t]
        /\ listeners' \in [Sessions -> Seq(Requests)]
    BY <1>1, <2>2, <2>5
  <2>7. \A r \in Requests : Has(micro', r) => at'[r] = "waiting" /\ ready'[session'[r]] # "waiting"
    BY <1>1, <1>6, <2>2 DEF WaitersOK
  <2>8. ASSUME NEW t \in Sessions
        PROVE  /\ Ordered(listeners'[t], session')
               /\ \A r \in Requests : Has(listeners'[t], r) =>
                    at'[r] = "waiting" /\ session'[r] = t /\ ready'[t] = "waiting"
    <3>1. CASE t = s
      <4>1. Ordered(listeners'[t], session')
        BY <2>4, <2>5, <2>6, <3>1
      <4>2. ASSUME NEW r \in Requests, Has(a, r)
            PROVE  at'[r] = "waiting" /\ session'[r] = s /\ ready'[s] = "waiting"
        <5>1. CASE r = n
          BY <1>2, <1>8, <5>1
        <5>2. CASE r # n
          BY <1>1, <1>6, <1>8, <2>1, <2>3, <2>5, <4>2, <5>2 DEF WaitersOK
        <5>. QED BY <5>1, <5>2
      <4>. QED BY <2>6, <3>1, <4>1, <4>2
    <3>2. CASE t # s
      BY <1>1, <1>6, <1>7, <2>6, <3>2 DEF WaitersOK
    <3>. QED BY <3>1, <3>2
  <2>9. ASSUME NEW r \in Requests, at'[r] = "waiting"
        PROVE  Has(micro', r) \/ Has(listeners'[session'[r]], r)
    <3>1. CASE r = n
      BY <1>2, <2>3, <2>5, <2>6, <3>1
    <3>2. CASE r # n
      <4>1. Has(micro, r) \/ Has(listeners[session[r]], r)
        BY <1>1, <1>2, <2>9, <3>2 DEF WaitersOK
      <4>2. session[r] \in Sessions
        BY <1>1, <1>2, <2>9, <3>2 DEF IndInv, RequestsOK, TypeOK, Sessions
      <4>. QED BY <1>2, <2>1, <2>2, <2>3, <2>5, <2>6, <3>2, <4>1, <4>2
    <3>. QED BY <3>1, <3>2
  <2>. QED BY <1>1, <1>7, <2>2, <2>6, <2>7, <2>8, <2>9 DEF WaitersOK
<1>9. CASE ready[s] # "waiting"
  <2>1. micro' = Append(micro, n) /\ listeners' = listeners
    BY <1>9 DEF Await
  <2>2. /\ micro' \in Seq(Requests)
        /\ \A x : Has(micro', x) <=> Has(micro, x) \/ x = n
    BY <1>1, <2>1, AppendedQueue
  <2>3. Ordered(micro', session')
    <3>1. PICK g : g = session'
      OBVIOUS
    <3>2. Ordered(micro, g) /\ \A x \in Requests : Has(micro, x) /\ g[x] = g[n] => x < n
      BY <1>6, <1>7, <3>1
    <3>3. Ordered(Append(micro, n), g)
      BY <1>1, <3>2, OrderedAppend
    <3>. QED BY <2>1, <3>1, <3>3
  <2>4. \A r \in Requests : Has(micro', r) => at'[r] = "waiting" /\ ready'[session'[r]] # "waiting"
    BY <1>1, <1>2, <1>6, <1>9, <2>2 DEF WaitersOK
  <2>5. \A t \in Sessions :
          \A r \in Requests : Has(listeners'[t], r) =>
             at'[r] = "waiting" /\ session'[r] = t /\ ready'[t] = "waiting"
    BY <1>1, <1>6, <2>1 DEF WaitersOK
  <2>6. \A r \in Requests : at'[r] = "waiting" =>
          Has(micro', r) \/ Has(listeners'[session'[r]], r)
    BY <1>1, <1>2, <2>1, <2>2 DEF WaitersOK
  <2>. QED BY <1>1, <1>7, <2>1, <2>2, <2>3, <2>4, <2>5, <2>6 DEF WaitersOK
<1>. QED BY <1>8, <1>9

LEMMA IssueMessages ==
  ASSUME IndInv, NEW n \in Requests, n = calls + 1, calls \in Nat,
         NEW s \in Sessions, s \notin closing, NEW what \in {"evaluate", "close"},
         kind' = [kind EXCEPT ![n] = what],
         session' = [session EXCEPT ![n] = s], at' = [at EXCEPT ![n] = "waiting"],
         UNCHANGED <<ready, result, inbox, outbox>>,
         \A t \in Sessions :
           worker'[t] # worker[t] => worker[t] = "none" /\ worker'[t] = "spawning",
         \A t \in Sessions : t \in ports' => t \in ports \/ outbox[t] = << >>
  PROVE  InboxOK' /\ OutboxOK' /\ NothingLost'
<1>1. /\ inbox \in [Sessions -> Seq(Requests)] /\ outbox \in [Sessions -> Seq(Messages)]
      /\ session \in [Requests -> {0} \cup Sessions]
      /\ at \in [Requests -> {"unused", "waiting", "sent", "done"}]
      /\ kind \in [Requests -> {"none", "evaluate", "close"}]
      /\ RequestsOK /\ InboxOK /\ OutboxOK /\ NothingLost
      /\ inbox' = inbox /\ outbox' = outbox /\ result' = result
  BY DEF IndInv, TypeOK
<1>2. /\ session'[n] = s /\ at'[n] = "waiting" /\ kind'[n] = what
      /\ \A r \in Requests : r # n => /\ session'[r] = session[r] /\ at'[r] = at[r]
                                      /\ kind'[r] = kind[r]
  BY <1>1
<1>3. \A r \in Requests : r \in Nat
  BY DEF Requests
<1>4. at[n] = "unused" /\ kind[n] = "none"
  BY <1>1, <1>3 DEF RequestsOK
<1>5. \A t \in Sessions : worker[t] \in Listens \cup Down \cup {"crashed"} => worker'[t] = worker[t]
  BY DEF Listens, Down
<1>6. \A t \in Sessions : worker'[t] \in Listens \cup Down => worker[t] = worker'[t]
  BY DEF Listens, Down
<1>7. \A t \in Sessions, r \in Requests : Has(inbox[t], r) => r # n
  BY <1>1, <1>4 DEF InboxOK
<1>8. InboxOK'
  <2>1. ASSUME NEW t \in Sessions PROVE Ordered(inbox[t], session')
    <3>1. PICK g : g = session'
      OBVIOUS
    <3>2. PICK q \in Seq(Requests) : q = inbox[t]
      BY <1>1
    <3>3. PICK f : f = session
      OBVIOUS
    <3>4. Ordered(q, f) /\ \A x \in Requests : Has(q, x) => g[x] = f[x]
      BY <1>1, <1>2, <1>7, <3>1, <3>2, <3>3 DEF InboxOK
    <3>5. Ordered(q, g)
      BY <3>4, OrderedSame
    <3>. QED BY <3>1, <3>2, <3>5
  <2>2. ASSUME NEW t \in Sessions, NEW r \in Requests, Has(inbox[t], r)
        PROVE  worker'[t] \in Listens /\ session'[r] = t /\ at'[r] = "sent"
    BY <1>1, <1>2, <1>5, <1>7, <2>2 DEF InboxOK
  <2>. QED BY <1>1, <2>1, <2>2 DEF InboxOK
<1>9. OutboxOK'
  <2>1. ASSUME NEW t \in Sessions, NEW m \in Messages, Has(outbox[t], m), Answers(m)
        PROVE  /\ m.of \in Requests /\ session'[m.of] = t
               /\ at'[m.of] \in {"sent", "done"} /\ ~Has(inbox[t], m.of)
               /\ m.type = "value" /\ kind'[m.of] = "close" => worker'[t] \in Down
    <3>1. /\ m.of \in Requests /\ session[m.of] = t
          /\ at[m.of] \in {"sent", "done"} /\ ~Has(inbox[t], m.of)
          /\ m.type = "value" /\ kind[m.of] = "close" => worker[t] \in Down
      BY <1>1, <2>1 DEF OutboxOK
    <3>2. m.of # n
      BY <1>4, <3>1
    <3>. QED BY <1>2, <1>5, <3>1, <3>2
  <2>2. \A t \in Sessions, m \in Messages :
          Has(outbox[t], m) /\ m.type = "error" => worker'[t] = "crashed"
    BY <1>1, <1>5 DEF OutboxOK
  <2>3. ASSUME NEW t \in Sessions, Unannounced(outbox[t])
        PROVE  worker'[t] = "exited" \/ t \notin ports'
    <3>1. outbox[t] # << >>
      BY <2>3, EmptyQueue
    <3>. QED BY <1>1, <1>5, <2>3, <3>1 DEF OutboxOK, Down
  <2>. QED BY <1>1, <2>1, <2>2, <2>3 DEF OutboxOK
<1>10. NothingLost'
  <2>1. ASSUME NEW r \in Requests, at'[r] = "sent"
        PROVE  /\ ready'[session'[r]] = "ready"
               /\ worker'[session'[r]] \in Listens => Has(inbox'[session'[r]], r) \/ Replied(r)'
               /\ worker'[session'[r]] \in Down => Replied(r)'
    <3>1. r # n /\ at[r] = "sent" /\ session'[r] = session[r]
      BY <1>2, <2>1
    <3>2. session[r] \in Sessions
      BY <1>1, <3>1 DEF RequestsOK, IndInv, TypeOK, Sessions
    <3>3. Replied(r) => Replied(r)'
      BY <1>1, <3>1 DEF Replied
    <3>. QED BY <1>1, <1>6, <3>1, <3>2, <3>3 DEF NothingLost
  <2>2. ASSUME NEW r \in Requests, at'[r] = "waiting"
        PROVE  worker'[session'[r]] \notin Down
    <3>1. CASE r = n
      <4>1. worker[s] \notin Down
        BY DEF IndInv, SessionsOK
      <4>. QED BY <1>2, <1>6, <3>1, <4>1
    <3>2. CASE r # n
      <4>1. session[r] \in Sessions
        BY <1>1, <1>2, <2>2, <3>2 DEF RequestsOK, IndInv, TypeOK, Sessions
      <4>. QED BY <1>1, <1>2, <1>6, <2>2, <3>2, <4>1 DEF NothingLost
    <3>. QED BY <3>1, <3>2
  <2>3. ASSUME NEW r \in Requests, kind'[r] = "close", result'[r] = "value"
        PROVE  worker'[session'[r]] \in Down
    <3>1. CASE r = n
      <4>1. result[n] = "none"
        BY <1>1, <1>3 DEF RequestsOK
      <4>. QED BY <1>1, <2>3, <3>1, <4>1
    <3>2. CASE r # n
      <4>1. worker[session[r]] \in Down
        BY <1>1, <1>2, <2>3, <3>2 DEF NothingLost
      <4>2. session[r] \in Sessions
        BY <1>1, <1>2, <2>3, <3>2 DEF RequestsOK, IndInv, TypeOK, Sessions
      <4>. QED BY <1>2, <1>5, <3>2, <4>1, <4>2
    <3>. QED BY <3>1, <3>2
  <2>. QED BY <2>1, <2>2, <2>3 DEF NothingLost
<1>. QED BY <1>8, <1>9, <1>10

LEMMA EvaluateOK ==
  ASSUME IndInv, Evaluate, handling' \subseteq Sessions,
         awaited' \in [Sessions -> {0} \cup Requests]
  PROVE  IndInv' /\ calls + 1 \in Requests
<1>. DEFINE s == IF current # 0 THEN current ELSE started + 1
<1>1. /\ TypeOK /\ CurrentIsTheLiveOne /\ Unborn /\ SessionsOK
      /\ calls < MaxRequests /\ calls \in Nat /\ started \in Nat /\ started <= MaxSessions
      /\ MaxSessions \in Nat /\ current \in Nat /\ current <= started
  BY BoundsAssumption DEF IndInv, TypeOK, Evaluate
<1>2. /\ Issue(calls + 1, s, "evaluate")
      /\ UNCHANGED <<ready, failure, closing, result, inbox, outbox, exported, modules>>
      /\ current # 0 => UNCHANGED <<current, started, ports, worker>>
      /\ current = 0 => /\ started < MaxSessions
                        /\ current' = started + 1 /\ started' = started + 1
                        /\ ports' = ports \cup {started + 1}
                        /\ worker' = [worker EXCEPT ![started + 1] = "spawning"]
  BY DEF Evaluate
<1>3. s \in Sessions /\ s \in 1 .. started' /\ started <= started' /\ started' \in 0 .. MaxSessions
  BY <1>1, <1>2 DEF Sessions
<1>4. s \notin closing
  <2>1. CASE current # 0
    BY <1>1, <2>1 DEF CurrentIsTheLiveOne
  <2>2. CASE current = 0
    BY <1>1, <1>2, <1>3, <2>2 DEF Unborn
  <2>. QED BY <2>1, <2>2
<1>5. PICK t \in Sessions : t = s
  BY <1>3
<1>. HIDE DEF s
<1>6. /\ t \notin closing /\ Issue(calls + 1, t, "evaluate") /\ t \in 1 .. started'
      /\ started' \in Nat /\ closing \subseteq closing' /\ UNCHANGED result
  BY <1>2, <1>3, <1>4, <1>5
<1>7. /\ calls + 1 \in Requests /\ calls' = calls + 1 /\ calls' \in 0 .. MaxRequests
      /\ kind' \in [Requests -> {"none", "evaluate", "close"}]
      /\ session' \in [Requests -> {0} \cup Sessions]
      /\ at' \in [Requests -> {"unused", "waiting", "sent", "done"}]
      /\ kind' = [kind EXCEPT ![calls + 1] = "evaluate"]
      /\ session' = [session EXCEPT ![calls + 1] = t]
      /\ at' = [at EXCEPT ![calls + 1] = "waiting"]
      /\ RequestsOK'
  BY <1>1, <1>3, <1>6, IssueRequests
<1>8. PICK n \in Requests : n = calls + 1
  BY <1>7
<1>9. Await(n, t)
  BY <1>6, <1>8 DEF Issue
<1>10. /\ listeners' \in [Sessions -> Seq(Requests)] /\ micro' \in Seq(Requests)
       /\ WaitersOK'
  BY <1>1, <1>2, <1>7, <1>8, <1>9, IssueWaiters
<1>11. \A u \in Sessions :
         worker'[u] # worker[u] => worker[u] = "none" /\ worker'[u] = "spawning"
  <2>1. started < MaxSessions => worker[started + 1] = "none"
    BY <1>1 DEF Unborn, Sessions
  <2>. QED BY <1>1, <1>2, <2>1 DEF TypeOK
<1>12. \A u \in Sessions : u \in ports' => u \in ports \/ outbox[u] = << >>
  <2>1. started < MaxSessions => outbox[started + 1] = << >>
    BY <1>1 DEF Unborn, Sessions
  <2>. QED BY <1>2, <2>1
<1>13. InboxOK' /\ OutboxOK' /\ NothingLost'
  BY <1>1, <1>2, <1>6, <1>7, <1>8, <1>11, <1>12, IssueMessages
<1>14. worker' \in [Sessions -> States]
  BY <1>1, <1>2 DEF TypeOK, States
<1>15. current' \in 0 .. started' /\ ports' \subseteq Sessions
  <2>1. CASE current # 0
    BY <1>1, <1>2, <2>1 DEF TypeOK
  <2>2. CASE current = 0
    <3>1. started + 1 \in Sessions
      BY <1>1, <1>2, <2>2 DEF Sessions
    <3>. QED BY <1>1, <1>2, <2>2, <3>1 DEF TypeOK
  <2>. QED BY <2>1, <2>2
<1>16. TypeOK'
  BY <1>1, <1>2, <1>3, <1>7, <1>10, <1>14, <1>15 DEF TypeOK
<1>17. CurrentIsTheLiveOne'
  <2>1. CASE current # 0
    BY <1>1, <1>2, <2>1 DEF CurrentIsTheLiveOne
  <2>2. CASE current = 0
    <3>1. failure[started + 1] = "none" /\ started + 1 \notin closing
      BY <1>1, <1>2, <2>2 DEF Unborn, Sessions
    <3>2. \A u \in 1 .. started : ~(failure[u] = "none" /\ u \notin closing)
      BY <1>1, <2>2 DEF CurrentIsTheLiveOne
    <3>3. \A u \in 1 .. started' : u = started + 1 \/ u \in 1 .. started
      BY <1>1, <1>2, <2>2
    <3>. QED BY <1>1, <1>2, <2>2, <3>1, <3>2, <3>3 DEF CurrentIsTheLiveOne
  <2>. QED BY <2>1, <2>2
<1>18. Unborn'
  <2>1. CASE current # 0
    BY <1>1, <1>2, <2>1 DEF Unborn
  <2>2. CASE current = 0
    <3>1. \A u \in Sessions : u # started + 1 => worker'[u] = worker[u]
      BY <1>1, <1>2, <2>2 DEF TypeOK
    <3>2. \A u \in Sessions : u > started' => u # started + 1 /\ u > started
      BY <1>1, <1>2, <2>2 DEF Sessions
    <3>3. outbox[started + 1] = << >>
      BY <1>1, <1>2, <2>2 DEF Unborn, Sessions
    <3>. QED BY <1>1, <1>2, <2>2, <3>1, <3>2, <3>3 DEF Unborn
  <2>. QED BY <2>1, <2>2
<1>19. SessionsOK'
  BY <1>1, <1>2, <1>11, <1>12, <1>18 DEF SessionsOK, Down, Unborn
<1>. QED BY <1>7, <1>10, <1>13, <1>16, <1>17, <1>18, <1>19 DEF IndInv

LEMMA CloseOK == ASSUME IndInv, Close PROVE IndInv'
<1>1. /\ TypeOK /\ CurrentIsTheLiveOne /\ Unborn /\ SessionsOK
      /\ calls < MaxRequests /\ calls \in Nat /\ started \in Nat /\ started <= MaxSessions
      /\ MaxSessions \in Nat /\ current \in 1 .. started
  BY BoundsAssumption DEF IndInv, TypeOK, Close
<1>2. PICK s \in Sessions : s = current
  BY <1>1 DEF Sessions
<1>3. /\ Issue(calls + 1, s, "close")
      /\ closing' = closing \cup {s} /\ current' = 0
      /\ UNCHANGED <<started, ready, failure, ports, result, workerVars, outbox, lookupVars>>
  BY <1>2 DEF Close
<1>4. s \notin closing /\ s \in 1 .. started' /\ started <= started'
  BY <1>1, <1>2, <1>3 DEF CurrentIsTheLiveOne
<1>5. /\ calls + 1 \in Requests /\ calls' = calls + 1 /\ calls' \in 0 .. MaxRequests
      /\ kind' \in [Requests -> {"none", "evaluate", "close"}]
      /\ session' \in [Requests -> {0} \cup Sessions]
      /\ at' \in [Requests -> {"unused", "waiting", "sent", "done"}]
      /\ kind' = [kind EXCEPT ![calls + 1] = "close"]
      /\ session' = [session EXCEPT ![calls + 1] = s]
      /\ at' = [at EXCEPT ![calls + 1] = "waiting"]
      /\ RequestsOK'
  <2>1. started' \in Nat /\ closing \subseteq closing' /\ s \in closing' /\ UNCHANGED result
    BY <1>1, <1>3
  <2>. QED BY <1>1, <1>3, <1>4, <2>1, IssueRequests
<1>6. PICK n \in Requests : n = calls + 1
  BY <1>5
<1>7. Await(n, s)
  BY <1>3, <1>6 DEF Issue
<1>8. /\ listeners' \in [Sessions -> Seq(Requests)] /\ micro' \in Seq(Requests)
      /\ WaitersOK'
  BY <1>1, <1>3, <1>5, <1>6, <1>7, IssueWaiters
<1>9. /\ \A u \in Sessions :
           worker'[u] # worker[u] => worker[u] = "none" /\ worker'[u] = "spawning"
      /\ \A u \in Sessions : u \in ports' => u \in ports \/ outbox[u] = << >>
      /\ UNCHANGED <<ready, result, inbox, outbox>>
  BY <1>3 DEF workerVars
<1>10. InboxOK' /\ OutboxOK' /\ NothingLost'
  BY <1>1, <1>4, <1>5, <1>6, <1>9, IssueMessages
<1>11. TypeOK'
  BY <1>1, <1>3, <1>5, <1>8 DEF TypeOK, workerVars, lookupVars
<1>12. CurrentIsTheLiveOne' /\ Unborn' /\ SessionsOK'
  BY <1>1, <1>2, <1>3, <1>4 DEF CurrentIsTheLiveOne, Unborn, SessionsOK, workerVars
<1>. QED BY <1>5, <1>8, <1>10, <1>11, <1>12 DEF IndInv

LEMMA SessionOf ==
  ASSUME IndInv, NEW r \in Requests, at[r] # "unused" \/ kind[r] # "none"
  PROVE  session[r] \in Sessions /\ session[r] \in 1 .. started
<1>1. r \in Nat /\ calls \in Nat /\ started \in Nat /\ MaxSessions \in Nat /\ started <= MaxSessions
  BY BoundsAssumption DEF IndInv, TypeOK, Requests
<1>2. r <= calls
  BY <1>1 DEF IndInv, RequestsOK
<1>3. session[r] \in 1 .. started
  BY <1>2 DEF IndInv, RequestsOK
<1>4. 1 .. started \subseteq Sessions
  BY <1>1 DEF Sessions
<1>. QED BY <1>3, <1>4

\* A session fails whose worker is gone; what the others know stays.
LEMMA FailOK ==
  ASSUME IndInv, micro = << >>, NEW s \in Sessions, NEW why \in {"failed", "closed"},
         FailSession(s, why), worker[s] \in {"spawning", "crashed", "exited"},
         worker' = [worker EXCEPT ![s] = IF @ = "spawning" THEN "crashed" ELSE @],
         why = "closed" => worker[s] = "exited",
         UNCHANGED <<started, closing, calls, kind, session, inbox, exported,
                     modules, handling, awaited>>,
         outbox' \in [Sessions -> Seq(Messages)],
         \A t \in Sessions : t # s => outbox'[t] = outbox[t],
         OutboxOK'
  PROVE  IndInv'
<1>1. /\ TypeOK /\ CurrentIsTheLiveOne /\ Unborn /\ SessionsOK /\ RequestsOK
      /\ WaitersOK /\ InboxOK /\ NothingLost
      /\ started \in Nat /\ started <= MaxSessions /\ calls \in Nat /\ calls <= MaxRequests
      /\ MaxRequests \in Nat /\ MaxSessions \in Nat
      /\ \A r \in Requests : r \in Nat
  BY BoundsAssumption DEF IndInv, TypeOK, Requests
<1>2. /\ listeners \in [Sessions -> Seq(Requests)]
      /\ at \in [Requests -> {"unused", "waiting", "sent", "done"}]
      /\ session \in [Requests -> {0} \cup Sessions]
      /\ result \in [Requests -> {"none", "value", "error"}]
      /\ UNCHANGED <<started, closing, calls, kind, session, inbox, exported,
                     modules, handling, awaited>>
      /\ ~(s > started)
  BY <1>1 DEF TypeOK, Unborn
<1>3. PICK q \in Seq(Requests) : q = listeners[s]
  BY <1>2
<1>4. /\ << >> \in Seq(Requests) /\ \A x : ~Has(<< >>, x)
      /\ \A f : Ordered(<< >>, f)
  BY EmptyQueue
<1>5. /\ failure' = [failure EXCEPT ![s] = why]
      /\ ready' = [ready EXCEPT ![s] = IF @ = "waiting" THEN "failed" ELSE @]
      /\ micro' = IF ready[s] = "waiting" THEN q ELSE << >>
      /\ listeners' = [listeners EXCEPT ![s] = << >>]
      /\ ports' = ports \ {s}
      /\ current' = IF current = s THEN 0 ELSE current
  <2>1. << >> \o q = q
    BY ConcatEmptySeq
  <2>. QED BY <1>3, <2>1 DEF FailSession, Woken, Forgotten
<1>6. /\ at' \in [Requests -> {"unused", "waiting", "sent", "done"}]
      /\ result' \in [Requests -> {"none", "value", "error"}]
      /\ \A r \in Requests :
           IF at[r] = "sent" /\ session[r] = s
           THEN at'[r] = "done" /\ result'[r] = Outcome(kind[r], why)
           ELSE at'[r] = at[r] /\ result'[r] = result[r]
  <2>1. \A r \in Requests : Outcome(kind[r], why) \in {"value", "error"}
    BY DEF Outcome
  <2>2. /\ at' = [r \in Requests |-> IF r \in Ended(s) THEN "done" ELSE at[r]]
        /\ result' = [r \in Requests |->
                        IF r \in Ended(s) THEN Outcome(kind[r], why) ELSE result[r]]
    BY DEF FailSession
  <2>3. \A r \in Requests : r \in Ended(s) <=> at[r] = "sent" /\ session[r] = s
    BY DEF Ended
  <2>. QED BY <1>2, <2>1, <2>2, <2>3
<1>7. \A r \in Requests : at'[r] = "waiting" <=> at[r] = "waiting"
  BY <1>6
<1>8. \A r \in Requests : at'[r] = "unused" <=> at[r] = "unused"
  BY <1>6
<1>9. \A t \in Sessions : t # s => /\ worker'[t] = worker[t] /\ ready'[t] = ready[t]
                                   /\ failure'[t] = failure[t]
                                   /\ listeners'[t] = listeners[t]
  BY <1>1, <1>5 DEF TypeOK
<1>10. /\ worker'[s] \in {"crashed", "exited"} /\ failure'[s] = why
       /\ ready'[s] = (IF ready[s] = "waiting" THEN "failed" ELSE ready[s])
       /\ listeners'[s] = << >>
       /\ worker'[s] = "exited" => worker[s] = "exited"
       /\ worker[s] = "exited" => worker'[s] = "exited"
  BY <1>1, <1>5 DEF TypeOK
<1>11. TypeOK'
  <2>1. /\ ready' \in [Sessions -> {"waiting", "ready", "failed"}]
        /\ failure' \in [Sessions -> {"none", "failed", "closed"}]
        /\ worker' \in [Sessions -> States]
    BY <1>1, <1>5 DEF TypeOK, States
  <2>2. listeners' \in [Sessions -> Seq(Requests)] /\ micro' \in Seq(Requests)
    BY <1>2, <1>4, <1>5
  <2>3. current' \in 0 .. started' /\ ports' \subseteq Sessions
    BY <1>1, <1>2, <1>5 DEF TypeOK
  <2>. QED BY <1>1, <1>2, <1>6, <2>1, <2>2, <2>3 DEF TypeOK
<1>12. CurrentIsTheLiveOne'
  <2>1. ASSUME NEW t \in 1 .. started
        PROVE  current' = t <=> failure'[t] = "none" /\ t \notin closing
    <3>1. CASE t = s
      BY <1>5, <1>10, <3>1
    <3>2. CASE t # s
      <4>1. t \in Sessions
        BY <1>1 DEF Sessions
      <4>2. current' = t <=> current = t
        BY <1>5, <3>2
      <4>3. failure'[t] = failure[t]
        BY <1>9, <3>2, <4>1
      <4>. QED BY <1>1, <4>2, <4>3 DEF CurrentIsTheLiveOne
    <3>. QED BY <3>1, <3>2
  <2>. QED BY <1>2, <2>1 DEF CurrentIsTheLiveOne
<1>13. Unborn'
  <2>1. ASSUME NEW t \in Sessions, t > started
        PROVE  /\ worker'[t] = "none" /\ ready'[t] = "waiting"
               /\ failure'[t] = "none" /\ t \notin closing \cup ports'
    <3>1. t # s
      BY <1>2, <2>1
    <3>. QED BY <1>1, <1>5, <1>9, <2>1, <3>1 DEF Unborn
  <2>2. ASSUME NEW t \in Sessions, worker'[t] \in {"none", "spawning"}
        PROVE  outbox'[t] = << >>
    <3>1. t # s
      BY <1>10, <2>2
    <3>. QED BY <1>1, <1>9, <2>2, <3>1 DEF Unborn
  <2>. QED BY <1>2, <2>1, <2>2 DEF Unborn
<1>14. SessionsOK'
  <2>1. ready[s] = "failed" => failure[s] # "none"
    BY <1>1 DEF SessionsOK
  <2>2. worker'[s] \in Down => s \in closing
    BY <1>1, <1>10 DEF SessionsOK, Down
  <2>3. s \notin ports' /\ ready'[s] # "waiting"
    BY <1>5, <1>10
  <2>. QED BY <1>1, <1>2, <1>5, <1>9, <1>10, <2>1, <2>2, <2>3 DEF SessionsOK
<1>15. RequestsOK'
  BY <1>1, <1>2, <1>6, <1>7, <1>8 DEF RequestsOK
<1>16. WaitersOK'
  <2>1. Ordered(q, session) /\ \A r \in Requests : Has(q, r) => at[r] = "waiting" /\ session[r] = s
    BY <1>1, <1>3 DEF WaitersOK
  <2>2. Ordered(micro', session') /\ \A r \in Requests : Has(micro', r) => Has(q, r)
    BY <1>2, <1>4, <1>5, <2>1
  <2>3. \A r \in Requests : Has(micro', r) => at'[r] = "waiting" /\ ready'[session'[r]] # "waiting"
    BY <1>2, <1>7, <1>10, <2>1, <2>2
  <2>4. \A t \in Sessions :
          /\ Ordered(listeners'[t], session')
          /\ \A r \in Requests : Has(listeners'[t], r) =>
               at'[r] = "waiting" /\ session'[r] = t /\ ready'[t] = "waiting"
    <3>1. ASSUME NEW t \in Sessions, t # s
          PROVE  /\ Ordered(listeners[t], session)
                 /\ \A r \in Requests : Has(listeners[t], r) =>
                      at'[r] = "waiting" /\ session[r] = t /\ ready'[t] = "waiting"
      <4>1. /\ Ordered(listeners[t], session)
            /\ \A r \in Requests : Has(listeners[t], r) =>
                 at[r] = "waiting" /\ session[r] = t /\ ready[t] = "waiting"
        BY <1>1 DEF WaitersOK
      <4>2. ready'[t] = ready[t]
        BY <1>9, <3>1
      <4>. QED BY <1>7, <4>1, <4>2
    <3>2. session' = session
      BY <1>2
    <3>3. ASSUME NEW t \in Sessions
          PROVE  /\ Ordered(listeners'[t], session)
                 /\ \A r \in Requests : Has(listeners'[t], r) =>
                      at'[r] = "waiting" /\ session[r] = t /\ ready'[t] = "waiting"
      <4>1. CASE t = s
        BY <1>4, <1>10, <4>1
      <4>2. CASE t # s
        <5>1. listeners'[t] = listeners[t]
          BY <1>9, <4>2
        <5>. QED BY <3>1, <4>2, <5>1
      <4>. QED BY <4>1, <4>2
    <3>. QED BY <3>2, <3>3
  <2>5. ASSUME NEW r \in Requests, at'[r] = "waiting"
        PROVE  Has(micro', r) \/ Has(listeners'[session'[r]], r)
    <3>1. Has(listeners[session[r]], r)
      BY <1>1, <1>4, <1>7, <2>5 DEF WaitersOK
    <3>2. session[r] \in Sessions
      BY <1>7, <2>5, SessionOf
    <3>3. CASE session[r] = s
      <4>1. Has(q, r)
        BY <1>3, <3>1, <3>3
      <4>2. ready[s] = "waiting"
        BY <1>1, <1>3, <4>1 DEF WaitersOK
      <4>. QED BY <1>5, <4>1, <4>2
    <3>4. CASE session[r] # s
      BY <1>2, <1>9, <3>1, <3>2, <3>4
    <3>. QED BY <3>3, <3>4
  <2>. QED BY <2>2, <2>3, <2>4, <2>5 DEF WaitersOK
<1>17. InboxOK'
  <2>1. \A r \in Requests : ~Has(inbox[s], r)
    <3>1. worker[s] \notin Listens
      BY DEF Listens
    <3>. QED BY <1>1, <3>1 DEF InboxOK
  <2>. QED BY <1>1, <1>2, <1>6, <1>9, <2>1 DEF InboxOK
<1>18. NothingLost'
  <2>1. \A r \in Requests : at[r] # "unused" \/ kind[r] # "none" => session[r] \in Sessions
    BY SessionOf
  <2>2. ASSUME NEW r \in Requests, at'[r] = "sent"
        PROVE  /\ ready'[session'[r]] = "ready"
               /\ worker'[session'[r]] \in Listens => Has(inbox'[session'[r]], r) \/ Replied(r)'
               /\ worker'[session'[r]] \in Down => Replied(r)'
    <3>1. at[r] = "sent" /\ session[r] # s /\ session[r] \in Sessions /\ session'[r] = session[r]
      BY <1>2, <1>6, <2>1, <2>2
    <3>2. outbox'[session[r]] = outbox[session[r]]
      BY <3>1
    <3>3. Replied(r) => Replied(r)'
      BY <3>1, <3>2 DEF Replied
    <3>4. /\ worker'[session[r]] = worker[session[r]] /\ inbox' = inbox
          /\ ready'[session[r]] = ready[session[r]]
      BY <1>2, <1>9, <3>1
    <3>. QED BY <1>1, <3>1, <3>3, <3>4 DEF NothingLost
  <2>3. ASSUME NEW r \in Requests, at'[r] = "waiting"
        PROVE  worker'[session'[r]] \notin Down
    <3>1. at[r] = "waiting" /\ session[r] \in Sessions /\ session'[r] = session[r]
      BY <1>2, <1>7, <2>1, <2>3
    <3>2. worker[session[r]] \notin Down
      BY <1>1, <3>1 DEF NothingLost
    <3>. QED BY <1>9, <1>10, <3>1, <3>2 DEF Down
  <2>4. ASSUME NEW r \in Requests, kind'[r] = "close", result'[r] = "value"
        PROVE  worker'[session'[r]] \in Down
    <3>1. kind[r] = "close" /\ session'[r] = session[r]
      BY <1>2, <2>4
    <3>2. CASE at[r] = "sent" /\ session[r] = s
      <4>1. Outcome(kind[r], why) = "value"
        BY <1>6, <2>4, <3>2
      <4>2. why = "closed"
        BY <4>1 DEF Outcome
      <4>. QED BY <1>10, <3>1, <3>2, <4>2 DEF Down
    <3>3. CASE ~(at[r] = "sent" /\ session[r] = s)
      <4>1. worker[session[r]] \in Down
        BY <1>1, <1>6, <2>4, <3>1, <3>3 DEF NothingLost
      <4>2. session[r] \in Sessions
        BY <2>1, <3>1
      <4>. QED BY <1>9, <1>10, <3>1, <4>1, <4>2 DEF Down
    <3>. QED BY <3>2, <3>3
  <2>. QED BY <2>2, <2>3, <2>4 DEF NothingLost
<1>. QED BY <1>11, <1>12, <1>13, <1>14, <1>15, <1>16, <1>17, <1>18 DEF IndInv

LEMMA SpawnFailsOK == ASSUME IndInv, NEW s \in Sessions, SpawnFails(s) PROVE IndInv'
<1>1. /\ micro = << >> /\ worker[s] = "spawning" /\ FailSession(s, "failed")
      /\ worker' = [worker EXCEPT ![s] = "crashed"]
      /\ UNCHANGED <<started, closing, calls, kind, session, inbox, outbox, exported,
                     modules, handling, awaited>>
  BY DEF SpawnFails, lookupVars
<1>2. /\ TypeOK /\ Unborn /\ OutboxOK /\ outbox[s] = << >>
      /\ at \in [Requests -> {"unused", "waiting", "sent", "done"}]
  BY <1>1 DEF IndInv, TypeOK, Unborn
<1>3. \A r \in Requests : at[r] \in {"sent", "done"} => at'[r] \in {"sent", "done"}
  BY <1>1, <1>2 DEF FailSession
<1>4. ports' = ports \ {s}
  BY <1>1 DEF FailSession
<1>5. \A t \in Sessions : outbox[t] # << >> => worker'[t] = worker[t]
  BY <1>1, <1>2 DEF TypeOK
<1>6. OutboxOK'
  <2>1. \A t \in Sessions : \A m : Has(outbox[t], m) => outbox[t] # << >>
    BY EmptyQueue
  <2>2. \A t \in Sessions : Unannounced(outbox[t]) => outbox[t] # << >>
    BY EmptyQueue
  <2>3. ASSUME NEW t \in Sessions, NEW m \in Messages, Has(outbox[t], m)
        PROVE  /\ Answers(m) =>
                    /\ m.of \in Requests /\ session[m.of] = t
                    /\ at'[m.of] \in {"sent", "done"} /\ ~Has(inbox[t], m.of)
                    /\ m.type = "value" /\ kind[m.of] = "close" => worker'[t] \in Down
               /\ m.type = "error" => worker'[t] = "crashed"
    <3>1. /\ Answers(m) =>
               /\ m.of \in Requests /\ session[m.of] = t
               /\ at[m.of] \in {"sent", "done"} /\ ~Has(inbox[t], m.of)
               /\ m.type = "value" /\ kind[m.of] = "close" => worker[t] \in Down
          /\ m.type = "error" => worker[t] = "crashed"
      BY <1>2, <2>3 DEF OutboxOK
    <3>2. worker'[t] = worker[t]
      BY <1>5, <2>1, <2>3
    <3>. QED BY <1>3, <3>1, <3>2
  <2>4. ASSUME NEW t \in Sessions, Unannounced(outbox[t])
        PROVE  worker'[t] = "exited" \/ t \notin ports'
    BY <1>2, <1>4, <1>5, <2>2, <2>4 DEF OutboxOK
  <2>. QED BY <1>1, <2>3, <2>4 DEF OutboxOK
<1>7. worker' = [worker EXCEPT ![s] = IF @ = "spawning" THEN "crashed" ELSE @]
  BY <1>1
<1>8. /\ outbox' \in [Sessions -> Seq(Messages)]
      /\ \A t \in Sessions : t # s => outbox'[t] = outbox[t]
  BY <1>1, <1>2 DEF TypeOK
<1>. QED BY <1>1, <1>6, <1>7, <1>8, FailOK

\* The next message of a worker is taken.
LEMMA Taken ==
  ASSUME IndInv, NEW s \in Sessions, outbox[s] # << >>,
         outbox' = [outbox EXCEPT ![s] = Tail(@)],
         UNCHANGED <<kind, session, inbox, worker>>, ports' \subseteq ports,
         \A r \in Requests : at[r] \in {"sent", "done"} => at'[r] \in {"sent", "done"},
         Head(outbox[s]).type = "error" => s \notin ports'
  PROVE  /\ outbox' \in [Sessions -> Seq(Messages)]
         /\ Head(outbox[s]) \in Messages /\ Has(outbox[s], Head(outbox[s]))
         /\ \A t \in Sessions : t # s => outbox'[t] = outbox[t]
         /\ \A r \in Requests : at[r] = "sent" /\ Replied(r) =>
              Replied(r)' \/ (Answers(Head(outbox[s])) /\ Head(outbox[s]).of = r)
         /\ OutboxOK'
<1>1. PICK q \in Seq(Messages) : q = outbox[s]
  BY DEF IndInv, TypeOK
<1>2. PICK h, t : h = Head(q) /\ t = Tail(q)
  OBVIOUS
<1>3. /\ h \in Messages /\ t \in Seq(Messages) /\ Has(q, h)
      /\ \A x : Has(t, x) => Has(q, x)
      /\ \A x : Has(q, x) => x = h \/ Has(t, x)
  BY <1>1, <1>2, TailQueue
<1>4. /\ Unannounced(t) /\ h.type # "error" => Unannounced(q)
      /\ h.type = "exit" => Unannounced(q)
  BY <1>1, <1>2, ExitsOfTail
<1>5. /\ outbox' \in [Sessions -> Seq(Messages)] /\ outbox'[s] = t
      /\ \A u \in Sessions : u # s => outbox'[u] = outbox[u]
  BY <1>1, <1>2, <1>3 DEF IndInv, TypeOK
<1>6. \A u \in Sessions : \A x : Has(outbox'[u], x) => Has(outbox[u], x)
  <2>. TAKE u \in Sessions
  <2>. TAKE x
  <2>1. CASE u = s
    BY <1>1, <1>3, <1>5, <2>1
  <2>2. CASE u # s
    BY <1>5, <2>2
  <2>. QED BY <2>1, <2>2
<1>7. \A r \in Requests : at[r] = "sent" /\ Replied(r) =>
        Replied(r)' \/ (Answers(h) /\ h.of = r)
  <2>. TAKE r \in Requests
  <2>. SUFFICES ASSUME at[r] = "sent", Replied(r), ~(Answers(h) /\ h.of = r) PROVE Replied(r)'
    OBVIOUS
  <2>1. PICK m \in Messages : Has(outbox[session[r]], m) /\ Answers(m) /\ m.of = r
    BY DEF Replied
  <2>2. session'[r] = session[r] /\ m # h
    BY <2>1
  <2>3. Has(outbox'[session[r]], m)
    <3>1. CASE session[r] = s
      BY <1>1, <1>3, <1>5, <2>1, <2>2, <3>1
    <3>2. CASE session[r] # s
      <4>1. session[r] \in Sessions
        BY SessionOf
      <4>. QED BY <1>5, <2>1, <3>2, <4>1
    <3>. QED BY <3>1, <3>2
  <2>. QED BY <2>1, <2>2, <2>3 DEF Replied
<1>8. OutboxOK'
  <2>1. OutboxOK
    BY DEF IndInv
  <2>2. \A u \in Sessions, m \in Messages : Has(outbox'[u], m) =>
         /\ Answers(m) =>
              /\ m.of \in Requests /\ session'[m.of] = u
              /\ at'[m.of] \in {"sent", "done"} /\ ~Has(inbox'[u], m.of)
              /\ m.type = "value" /\ kind'[m.of] = "close" => worker'[u] \in Down
         /\ m.type = "error" => worker'[u] = "crashed"
    BY <1>6, <2>1 DEF OutboxOK
  <2>3. ASSUME NEW u \in Sessions, Unannounced(outbox'[u])
        PROVE  worker'[u] = "exited" \/ u \notin ports'
    <3>1. CASE u # s
      BY <1>5, <2>1, <2>3, <3>1 DEF OutboxOK
    <3>2. CASE u = s /\ h.type # "error"
      BY <1>1, <1>4, <1>5, <2>1, <2>3, <3>2 DEF OutboxOK
    <3>3. CASE u = s /\ h.type = "error"
      BY <1>1, <1>2, <3>3
    <3>. QED BY <3>1, <3>2, <3>3
  <2>. QED BY <2>2, <2>3 DEF OutboxOK
<1>. QED BY <1>1, <1>2, <1>3, <1>5, <1>7, <1>8

\* A message: of the session (its port, a module, an error, an exit), a reply, or
\* one that comes too late.
LEMMA ReceiveOK == ASSUME IndInv, NEW s \in Sessions, Receive(s) PROVE IndInv'
<1>1. PICK q \in Seq(Messages) : q = outbox[s]
  BY DEF IndInv, TypeOK
<1>2. PICK m \in Messages : m = Head(q)
  <2>1. q # << >>
    BY <1>1 DEF Receive
  <2>. QED BY <2>1, TailQueue
<1>3. /\ micro = << >> /\ outbox[s] # << >>
      /\ outbox' = [outbox EXCEPT ![s] = Tail(@)]
      /\ UNCHANGED <<started, closing, calls, kind, session, worker, inbox, exported,
                     modules, awaited>>
  BY DEF Receive, workerVars
<1>4. /\ TypeOK /\ CurrentIsTheLiveOne /\ Unborn /\ SessionsOK /\ RequestsOK
      /\ WaitersOK /\ InboxOK /\ OutboxOK /\ NothingLost
  BY DEF IndInv
<1>5. Has(outbox[s], m)
  BY <1>1, <1>2, <1>3, TailQueue
<1>6. worker[s] \notin {"none", "spawning"}
  BY <1>3, <1>4 DEF Unborn
<1>7. ~(s > started)
  BY <1>3, <1>4, <1>6 DEF Unborn
<1>8. ASSUME ports' \subseteq ports,
              \A r \in Requests : at[r] \in {"sent", "done"} => at'[r] \in {"sent", "done"},
              m.type = "error" => s \notin ports'
       PROVE  /\ outbox' \in [Sessions -> Seq(Messages)] /\ OutboxOK'
              /\ \A r \in Requests : at[r] = "sent" /\ Replied(r) =>
                   Replied(r)' \/ (Answers(m) /\ m.of = r)
  <2>1. m = Head(outbox[s])
    BY <1>1, <1>2
  <2>. QED BY <1>3, <1>8, <2>1, Taken
<1>9. ASSUME UNCHANGED <<at, result>>, ports' \subseteq ports,
              m.type = "error" => s \notin ports',
              Answers(m) => at[m.of] # "sent",
              \A t \in Sessions : ready[t] = "ready" => ready'[t] = "ready"
       PROVE  outbox' \in [Sessions -> Seq(Messages)] /\ OutboxOK' /\ NothingLost'
  <2>1. /\ outbox' \in [Sessions -> Seq(Messages)] /\ OutboxOK'
        /\ \A r \in Requests : at[r] = "sent" /\ Replied(r) =>
             Replied(r)' \/ (Answers(m) /\ m.of = r)
    <3>1. \A r \in Requests : at[r] \in {"sent", "done"} => at'[r] \in {"sent", "done"}
      BY <1>9
    <3>. QED BY <1>8, <1>9, <3>1
  <2>2. \A r \in Requests : at[r] = "sent" => ready'[session[r]] = "ready"
    BY <1>4, <1>9, SessionOf DEF NothingLost
  <2>3. \A r \in Requests : at[r] = "sent" /\ Replied(r) => Replied(r)'
    BY <1>9, <2>1
  <2>. QED BY <1>3, <1>4, <1>9, <2>1, <2>2, <2>3 DEF NothingLost
<1>10. ASSUME m.type \in Own, s \in ports, m.type \in {"error", "exit"},
             FailSession(s, IF m.type = "exit" /\ s \in closing THEN "closed" ELSE "failed"),
             UNCHANGED handling
      PROVE  IndInv'
  <2>1. PICK why \in {"failed", "closed"} :
          why = IF m.type = "exit" /\ s \in closing THEN "closed" ELSE "failed"
    OBVIOUS
  <2>2. worker[s] \in {"crashed", "exited"} /\ (m.type = "exit" => worker[s] = "exited")
    <3>1. CASE m.type = "error"
      BY <1>4, <1>5, <3>1 DEF OutboxOK
    <3>2. CASE m.type = "exit"
      <4>1. Unannounced(outbox[s])
        BY <1>1, <1>2, <1>3, <3>2, ExitsOfTail
      <4>. QED BY <1>4, <1>10, <3>2, <4>1 DEF OutboxOK
    <3>. QED BY <1>10, <3>1, <3>2
  <2>3. worker' = [worker EXCEPT ![s] = IF @ = "spawning" THEN "crashed" ELSE @]
    BY <1>3, <1>4, <2>2 DEF TypeOK
  <2>4. ports' = ports \ {s}
    BY <1>10 DEF FailSession
  <2>5. \A r \in Requests : at[r] \in {"sent", "done"} => at'[r] \in {"sent", "done"}
    BY <1>10 DEF FailSession
  <2>6. /\ outbox' \in [Sessions -> Seq(Messages)]
        /\ \A t \in Sessions : t # s => outbox'[t] = outbox[t]
        /\ OutboxOK'
    <3>1. Head(outbox[s]).type = "error" => s \notin ports'
      BY <2>4
    <3>. QED BY <1>3, <2>4, <2>5, <3>1, Taken
  <2>. QED BY <1>3, <1>10, <2>1, <2>2, <2>3, <2>6, FailOK
<1>11. CASE /\ m.type = "port" /\ s \in ports
           /\ ready' = [ready EXCEPT ![s] = "ready"]
           /\ micro' = micro \o Woken(s)
           /\ listeners' = [listeners EXCEPT ![s] = <<>>]
           /\ UNCHANGED <<current, failure, ports, at, result, handling>>
  <2>1. PICK w \in Seq(Requests) : w = listeners[s]
    BY <1>4 DEF TypeOK
  <2>2. micro' = w
    <3>1. << >> \o w = w
      BY ConcatEmptySeq
    <3>. QED BY <1>3, <1>11, <2>1, <3>1 DEF Woken
  <2>3. failure[s] = "none" /\ ready[s] # "failed"
    BY <1>4, <1>11 DEF SessionsOK
  <2>4. /\ ready'[s] = "ready" /\ listeners'[s] = << >>
        /\ \A t \in Sessions : t # s => ready'[t] = ready[t] /\ listeners'[t] = listeners[t]
    BY <1>4, <1>11 DEF TypeOK
  <2>5. << >> \in Seq(Requests) /\ \A x : ~Has(<< >>, x) /\ \A f : Ordered(<< >>, f)
    BY EmptyQueue
  <2>6. outbox' \in [Sessions -> Seq(Messages)] /\ OutboxOK' /\ NothingLost'
    <3>1. /\ ports' \subseteq ports /\ m.type # "error" /\ ~Answers(m)
          /\ UNCHANGED <<at, result>>
          /\ \A t \in Sessions : ready[t] = "ready" => ready'[t] = "ready"
      BY <1>11, <2>4 DEF Answers
    <3>. QED BY <1>9, <3>1
  <2>7. /\ ready' \in [Sessions -> {"waiting", "ready", "failed"}]
        /\ listeners' \in [Sessions -> Seq(Requests)] /\ micro' \in Seq(Requests)
    BY <1>4, <1>11, <2>2, <2>5 DEF TypeOK
  <2>8. TypeOK'
    BY <1>3, <1>4, <1>11, <2>6, <2>7 DEF TypeOK
  <2>9. CurrentIsTheLiveOne' /\ RequestsOK' /\ InboxOK'
    BY <1>3, <1>4, <1>11 DEF CurrentIsTheLiveOne, RequestsOK, InboxOK
  <2>10. Unborn'
    BY <1>3, <1>4, <1>6, <1>7, <1>11, <2>4 DEF Unborn
  <2>11. SessionsOK'
    BY <1>3, <1>4, <1>6, <1>11, <2>3, <2>4 DEF SessionsOK
  <2>12. WaitersOK'
    <3>1. Ordered(w, session) /\ \A r \in Requests : Has(w, r) => at[r] = "waiting" /\ session[r] = s
      BY <1>4, <2>1 DEF WaitersOK
    <3>2. ASSUME NEW t \in Sessions
          PROVE  /\ Ordered(listeners'[t], session)
                 /\ \A r \in Requests : Has(listeners'[t], r) =>
                      at[r] = "waiting" /\ session[r] = t /\ ready'[t] = "waiting"
      <4>1. CASE t = s
        BY <2>4, <2>5, <4>1
      <4>2. CASE t # s
        <5>1. listeners'[t] = listeners[t] /\ ready'[t] = ready[t]
          BY <2>4, <4>2
        <5>. QED BY <1>4, <5>1 DEF WaitersOK
      <4>. QED BY <4>1, <4>2
    <3>3. ASSUME NEW r \in Requests, at[r] = "waiting"
          PROVE  Has(w, r) \/ Has(listeners'[session[r]], r)
      <4>1. Has(listeners[session[r]], r)
        BY <1>3, <1>4, <2>5, <3>3 DEF WaitersOK
      <4>2. session[r] \in Sessions
        BY <3>3, SessionOf
      <4>. QED BY <2>1, <2>4, <4>1, <4>2
    <3>4. session' = session /\ at' = at
      BY <1>3, <1>11
    <3>. QED BY <2>2, <2>4, <3>1, <3>2, <3>3, <3>4 DEF WaitersOK
  <2>. QED BY <2>6, <2>8, <2>9, <2>10, <2>11, <2>12 DEF IndInv
<1>12. CASE /\ m.type \in {"value", "fault"} /\ StillOpen(m.of)
            /\ at' = [at EXCEPT ![m.of] = "done"]
            /\ result' = [result EXCEPT ![m.of] = IF m.type = "value" THEN "value" ELSE "error"]
            /\ UNCHANGED <<current, ready, failure, ports, listeners, micro, handling>>
  <2>1. PICK r \in Requests : r = m.of /\ at[r] = "sent" /\ session[r] = s
    BY <1>4, <1>5, <1>12 DEF OutboxOK, Answers, StillOpen
  <2>2. /\ at' \in [Requests -> {"unused", "waiting", "sent", "done"}] /\ at'[r] = "done"
        /\ result' \in [Requests -> {"none", "value", "error"}]
        /\ result'[r] = "value" => m.type = "value"
        /\ \A o \in Requests : o # r => at'[o] = at[o] /\ result'[o] = result[o]
    BY <1>4, <1>12, <2>1 DEF TypeOK
  <2>3. outbox' \in [Sessions -> Seq(Messages)] /\ OutboxOK'
    <3>1. \A o \in Requests : at[o] \in {"sent", "done"} => at'[o] \in {"sent", "done"}
      BY <2>1, <2>2
    <3>2. ports' \subseteq ports /\ m.type # "error"
      BY <1>12
    <3>. QED BY <1>8, <3>1, <3>2
  <2>4. TypeOK'
    BY <1>3, <1>4, <1>12, <2>2, <2>3 DEF TypeOK
  <2>5. CurrentIsTheLiveOne' /\ SessionsOK'
    BY <1>3, <1>4, <1>12 DEF CurrentIsTheLiveOne, SessionsOK
  <2>6. RequestsOK'
    BY <1>3, <1>4, <2>1, <2>2 DEF RequestsOK
  <2>7. WaitersOK'
    <3>1. \A o \in Requests : at'[o] = "waiting" <=> at[o] = "waiting"
      BY <2>1, <2>2
    <3>. QED BY <1>3, <1>4, <1>12, <3>1 DEF WaitersOK
  <2>8. InboxOK'
    <3>1. ~Has(inbox[s], r)
      BY <1>4, <1>5, <1>12, <2>1 DEF OutboxOK, Answers
    <3>2. \A t \in Sessions, o \in Requests : Has(inbox[t], o) => o # r
      BY <1>4, <2>1, <3>1 DEF InboxOK
    <3>. QED BY <1>3, <1>4, <2>2, <3>2 DEF InboxOK
  <2>9. NothingLost'
    <3>1. kind[r] = "close" /\ result'[r] = "value" => worker[s] \in Down
      BY <1>4, <1>5, <1>12, <2>1, <2>2 DEF OutboxOK, Answers
    <3>5. ready' = ready
      BY <1>12
    <3>2. ASSUME NEW o \in Requests, at'[o] = "sent"
          PROVE  /\ ready[session[o]] = "ready"
                 /\ worker[session[o]] \in Listens => Has(inbox[session[o]], o) \/ Replied(o)'
                 /\ worker[session[o]] \in Down => Replied(o)'
      <4>1. at[o] = "sent" /\ o # r
        BY <2>2, <3>2
      <4>2. Replied(o) => Replied(o)'
        BY <1>8, <2>1, <4>1, <2>2, <1>12
      <4>. QED BY <1>4, <4>1, <4>2 DEF NothingLost
    <3>3. \A o \in Requests : at'[o] = "waiting" => worker[session[o]] \notin Down
      BY <1>4, <2>1, <2>2 DEF NothingLost
    <3>4. \A o \in Requests : kind[o] = "close" /\ result'[o] = "value" => worker[session[o]] \in Down
      BY <1>4, <2>1, <2>2, <3>1 DEF NothingLost
    <3>. QED BY <1>3, <3>2, <3>3, <3>4, <3>5 DEF NothingLost
  <2>10. Unborn'
    BY <1>3, <1>4, <1>6, <1>12 DEF Unborn, TypeOK
  <2>. QED BY <2>3, <2>4, <2>5, <2>6, <2>7, <2>8, <2>9, <2>10 DEF IndInv
<1>13. CASE /\ m.type \in Own => s \notin ports \/ m.type = "module"
            /\ m.type \notin Own => ~StillOpen(m.of)
            /\ UNCHANGED <<current, ready, failure, ports, listeners, micro, at, result>>
            /\ handling' \subseteq Sessions
  <2>1. outbox' \in [Sessions -> Seq(Messages)] /\ OutboxOK' /\ NothingLost'
    <3>1. /\ ports' \subseteq ports /\ (m.type = "error" => s \notin ports')
      BY <1>13 DEF Own
    <3>2. ASSUME Answers(m) PROVE at[m.of] # "sent"
      BY <1>13, <3>2 DEF Own, Answers, StillOpen
    <3>3. UNCHANGED <<at, result>> /\ \A t \in Sessions : ready[t] = "ready" => ready'[t] = "ready"
      BY <1>13
    <3>. QED BY <1>9, <3>1, <3>2, <3>3
  <2>2. TypeOK'
    BY <1>3, <1>4, <1>13, <2>1 DEF TypeOK
  <2>3. CurrentIsTheLiveOne' /\ SessionsOK' /\ RequestsOK'
    BY <1>3, <1>4, <1>13 DEF CurrentIsTheLiveOne, SessionsOK, RequestsOK
  <2>4. WaitersOK' /\ InboxOK'
    BY <1>3, <1>4, <1>13 DEF WaitersOK, InboxOK
  <2>5. Unborn'
    BY <1>3, <1>4, <1>6, <1>13 DEF Unborn, TypeOK
  <2>. QED BY <2>1, <2>2, <2>3, <2>4, <2>5 DEF IndInv
<1>. QED
  <2>1. m = Head(outbox[s])
    BY <1>1, <1>2
  <2>2. \/ m.type = "error" /\ s \in ports /\ FailSession(s, "failed") /\ UNCHANGED handling
        \/ /\ m.type = "exit" /\ s \in ports
           /\ FailSession(s, IF s \in closing THEN "closed" ELSE "failed")
           /\ UNCHANGED handling
        => IndInv'
    BY <1>10 DEF Own
  <2>. QED BY <1>4, <1>11, <1>12, <1>13, <2>1, <2>2 DEF Receive, Own, TypeOK

\* The next microtask sends its request, or ends it.
LEMMA ContinueOK == ASSUME IndInv, Continue PROVE IndInv'
<1>1. /\ TypeOK /\ CurrentIsTheLiveOne /\ Unborn /\ SessionsOK /\ RequestsOK
      /\ WaitersOK /\ InboxOK /\ OutboxOK /\ NothingLost
      /\ micro \in Seq(Requests) /\ micro # << >>
      /\ \A x \in Requests : x \in Nat
  BY DEF IndInv, TypeOK, Continue, Requests
<1>2. PICK r \in Requests : r = Head(micro)
  BY <1>1, TailQueue
<1>3. /\ micro' = Tail(micro) /\ Tail(micro) \in Seq(Requests)
      /\ Has(micro, r)
      /\ \A x : Has(Tail(micro), x) => Has(micro, x)
      /\ \A x : Has(micro, x) => x = r \/ Has(Tail(micro), x)
  BY <1>1, <1>2, TailQueue DEF Continue
<1>4. /\ Ordered(Tail(micro), session) /\ ~Has(Tail(micro), r)
      /\ \A x \in Requests : Has(micro, x) /\ session[x] = session[r] => r <= x
  BY <1>1, <1>2, OrderedTail DEF WaitersOK
<1>5. at[r] = "waiting" /\ ready[session[r]] # "waiting"
  BY <1>1, <1>3 DEF WaitersOK
<1>6. PICK s \in Sessions : s = session[r]
  BY <1>5, SessionOf
<1>7. /\ UNCHANGED <<sessionVars, listeners, calls, kind, session, worker, outbox,
                     exported, lookupVars>>
      /\ failure[s] = "none" =>
           /\ at' = [at EXCEPT ![r] = "sent"]
           /\ inbox' = IF worker[s] \in Listens
                       THEN [inbox EXCEPT ![s] = Append(@, r)] ELSE inbox
           /\ UNCHANGED result
      /\ failure[s] # "none" =>
           /\ at' = [at EXCEPT ![r] = "done"]
           /\ result' = [result EXCEPT ![r] =
                IF ready[s] = "failed" THEN "error" ELSE Outcome(kind[r], failure[s])]
           /\ UNCHANGED inbox
  BY <1>2, <1>6 DEF Continue
<1>8. /\ at' \in [Requests -> {"unused", "waiting", "sent", "done"}]
      /\ at'[r] = IF failure[s] = "none" THEN "sent" ELSE "done"
      /\ \A x \in Requests : x # r => at'[x] = at[x]
  BY <1>1, <1>7 DEF TypeOK
\* The requests of the session that were called later wait, those before do not.
<1>9. \A x \in Requests : session[x] = s /\ at[x] = "waiting" => r <= x
  <2>. TAKE x \in Requests
  <2>. SUFFICES ASSUME session[x] = s, at[x] = "waiting" PROVE r <= x
    OBVIOUS
  <2>1. Has(micro, x)
    BY <1>1, <1>5, <1>6 DEF WaitersOK
  <2>. QED BY <1>4, <1>6, <2>1
<1>10. \A x \in Requests : session[x] = s /\ at[x] # "waiting" => x < r
  <2>. TAKE x \in Requests
  <2>. SUFFICES ASSUME session[x] = s, at[x] # "waiting" PROVE x < r
    OBVIOUS
  <2>1. ~(r < x) /\ x # r
    BY <1>1, <1>5, <1>6 DEF RequestsOK
  <2>. QED BY <1>1, <2>1
<1>11. PICK q \in Seq(Requests) : q = inbox[s]
  BY <1>1 DEF TypeOK
<1>12. /\ Append(q, r) \in Seq(Requests)
       /\ \A x : Has(Append(q, r), x) <=> Has(q, x) \/ x = r
  BY AppendedQueue
<1>13. Ordered(Append(q, r), session)
  <2>1. PICK f : f = session
    OBVIOUS
  <2>2. Ordered(q, f) /\ \A x \in Requests : Has(q, x) /\ f[x] = f[r] => x < r
    <3>1. \A x \in Requests : Has(q, x) => at[x] = "sent"
      BY <1>1, <1>11 DEF InboxOK
    <3>2. \A x \in Requests : at[x] = "sent" => at[x] # "waiting"
      OBVIOUS
    <3>. QED BY <1>1, <1>6, <1>10, <1>11, <2>1, <3>1, <3>2 DEF InboxOK
  <2>3. Ordered(Append(q, r), f)
    BY <2>2, OrderedAppend
  <2>. QED BY <2>1, <2>3
<1>14. /\ inbox' \in [Sessions -> Seq(Requests)]
       /\ \A t \in Sessions : t # s => inbox'[t] = inbox[t]
       /\ inbox'[s] = (IF failure[s] = "none" /\ worker[s] \in Listens THEN Append(q, r) ELSE q)
  BY <1>1, <1>7, <1>11, <1>12 DEF TypeOK
<1>15. \A t \in Sessions : \A x \in Requests :
         Has(inbox[t], x) => Has(inbox'[t], x)
  BY <1>11, <1>12, <1>14
<1>16. \A t \in Sessions : \A x \in Requests :
         Has(inbox'[t], x) => \/ Has(inbox[t], x) /\ x # r
                              \/ t = s /\ x = r /\ failure[s] = "none" /\ worker[s] \in Listens
  <2>1. \A t \in Sessions : ~Has(inbox[t], r)
    BY <1>1, <1>5 DEF InboxOK
  <2>. QED BY <1>11, <1>12, <1>14, <2>1
<1>17. TypeOK'
  <2>1. \A w, y : Outcome(w, y) \in {"value", "error"}
    BY DEF Outcome
  <2>2. result' \in [Requests -> {"none", "value", "error"}]
    <3>1. PICK y \in {"value", "error"} :
            y = IF ready[s] = "failed" THEN "error" ELSE Outcome(kind[r], failure[s])
      BY <2>1
    <3>2. result' = result \/ result' = [result EXCEPT ![r] = y]
      BY <1>7, <3>1
    <3>. QED BY <1>1, <3>2 DEF TypeOK
  <2>. QED BY <1>1, <1>3, <1>7, <1>8, <1>14, <2>2 DEF TypeOK, sessionVars, lookupVars
<1>18. CurrentIsTheLiveOne' /\ Unborn' /\ SessionsOK'
  BY <1>1, <1>7 DEF CurrentIsTheLiveOne, Unborn, SessionsOK, sessionVars
<1>19. RequestsOK'
  <2>1. \A x \in Requests : at'[x] = "unused" <=> at[x] = "unused"
    BY <1>5, <1>8
  <2>2. ASSUME NEW x \in Requests, at'[x] = "waiting", NEW y \in Requests,
               x < y, session[y] = session[x]
        PROVE  at'[y] = "waiting"
    <3>1. x # r /\ at[x] = "waiting" /\ at[y] = "waiting"
      BY <1>1, <1>8, <2>2 DEF RequestsOK
    <3>2. y # r
      BY <1>1, <1>6, <1>9, <2>2, <3>1
    <3>. QED BY <1>8, <3>1, <3>2
  <2>3. \A x \in Requests : x > calls => x # r /\ result'[x] = result[x]
    <3>1. \A x \in Requests : x > calls => x # r
      BY <1>1, <1>5 DEF RequestsOK
    <3>2. \A x \in Requests : x # r => result'[x] = result[x]
      BY <1>1, <1>7 DEF TypeOK
    <3>. QED BY <3>1, <3>2
  <2>4. UNCHANGED <<calls, kind, session, started, closing>>
    BY <1>7 DEF sessionVars
  <2>. QED BY <1>1, <2>1, <2>2, <2>3, <2>4 DEF RequestsOK
<1>20. WaitersOK'
  <2>1. \A x \in Requests : at'[x] = "waiting" <=> at[x] = "waiting" /\ x # r
    BY <1>8
  <2>2. \A t \in Sessions : \A x \in Requests : Has(listeners[t], x) => x # r
    BY <1>1, <1>5 DEF WaitersOK
  <2>3. UNCHANGED <<listeners, session, ready>>
    BY <1>7 DEF sessionVars
  <2>. QED BY <1>1, <1>3, <1>4, <2>1, <2>2, <2>3 DEF WaitersOK
<1>21. InboxOK'
  <2>1. UNCHANGED <<session, worker>>
    BY <1>7
  <2>2. \A t \in Sessions : Ordered(inbox'[t], session)
    BY <1>1, <1>11, <1>13, <1>14 DEF InboxOK
  <2>3. \A t \in Sessions : \A x \in Requests :
          Has(inbox'[t], x) => worker[t] \in Listens /\ session[x] = t /\ at'[x] = "sent"
    BY <1>1, <1>6, <1>8, <1>16 DEF InboxOK
  <2>. QED BY <2>1, <2>2, <2>3 DEF InboxOK
<1>22. OutboxOK'
  <2>1. UNCHANGED <<session, worker, outbox, kind, ports>>
    BY <1>7 DEF sessionVars
  <2>2. ASSUME NEW t \in Sessions, NEW m \in Messages, Has(outbox[t], m), Answers(m)
        PROVE  at'[m.of] \in {"sent", "done"} /\ ~Has(inbox'[t], m.of)
    <3>1. m.of \in Requests /\ at[m.of] \in {"sent", "done"} /\ ~Has(inbox[t], m.of)
      BY <1>1, <2>2 DEF OutboxOK
    <3>2. m.of # r
      BY <1>5, <3>1
    <3>. QED BY <1>8, <1>16, <3>1, <3>2
  <2>. QED BY <1>1, <2>1, <2>2 DEF OutboxOK
<1>23. NothingLost'
  <2>1. UNCHANGED <<session, worker, outbox, kind, ready>>
    BY <1>7 DEF sessionVars
  <2>2. \A x \in Requests : Replied(x) => Replied(x)'
    BY <2>1 DEF Replied
  <2>3. worker[s] \notin Down
    BY <1>1, <1>5, <1>6 DEF NothingLost
  <2>4. ASSUME NEW x \in Requests, at'[x] = "sent"
        PROVE  /\ ready[session[x]] = "ready"
               /\ worker[session[x]] \in Listens => Has(inbox'[session[x]], x) \/ Replied(x)'
               /\ worker[session[x]] \in Down => Replied(x)'
    <3>1. CASE x = r
      <4>1. failure[s] = "none"
        BY <1>8, <2>4, <3>1
      <4>2. ready[s] = "ready"
        BY <1>1, <1>5, <1>6, <4>1 DEF SessionsOK, TypeOK
      <4>. QED BY <1>6, <1>12, <1>14, <2>3, <3>1, <4>1, <4>2
    <3>2. CASE x # r
      <4>1. at[x] = "sent"
        BY <1>8, <2>4, <3>2
      <4>2. session[x] \in Sessions
        BY <4>1, SessionOf
      <4>. QED BY <1>1, <1>15, <2>2, <4>1, <4>2 DEF NothingLost
    <3>. QED BY <3>1, <3>2
  <2>5. \A x \in Requests : at'[x] = "waiting" => worker[session[x]] \notin Down
    BY <1>1, <1>8 DEF NothingLost
  <2>6. ASSUME NEW x \in Requests, kind[x] = "close", result'[x] = "value"
        PROVE  worker[session[x]] \in Down
    <3>1. CASE result'[x] = result[x]
      BY <1>1, <2>6, <3>1 DEF NothingLost
    <3>2. CASE result'[x] # result[x]
      <4>1. /\ failure[s] # "none" /\ x = r
            /\ result' = [result EXCEPT ![r] =
                 IF ready[s] = "failed" THEN "error" ELSE Outcome(kind[r], failure[s])]
        BY <1>1, <1>7, <3>2 DEF TypeOK
      <4>2. Outcome(kind[r], failure[s]) = "value"
        BY <1>1, <2>6, <4>1 DEF TypeOK
      <4>3. failure[s] = "closed"
        BY <4>2 DEF Outcome
      <4>. QED BY <1>1, <1>6, <4>1, <4>3 DEF SessionsOK, Down
    <3>. QED BY <3>1, <3>2
  <2>. QED BY <2>1, <2>4, <2>5, <2>6 DEF NothingLost
<1>. QED BY <1>17, <1>18, <1>19, <1>20, <1>21, <1>22, <1>23 DEF IndInv

\* A worker takes requests from its queue and posts messages.
\* To state w, with the queues i and o of requests and messages.
WorkerStep(s, w, i, o) ==
  /\ worker[s] \in {"spawning", "closed"} \cup Listens
  /\ w \in {"listening", "importing", "closed", "leaked", "exited", "crashed"}
  /\ UNCHANGED <<sessionVars, listeners, micro, requestVars>>
  /\ modules' \in 0 .. MaxModules /\ exported' \subseteq Sessions
  /\ handling' \subseteq Sessions /\ awaited' \in [Sessions -> {0} \cup Requests]
  /\ worker' = [worker EXCEPT ![s] = w]
  /\ inbox' = [inbox EXCEPT ![s] = i]
  /\ outbox' = [outbox EXCEPT ![s] = o]
  /\ worker[s] \in Down => w \in Down
  /\ w \in Down => s \in closing /\ \A r \in Requests : session[r] = s => at[r] # "waiting"
  /\ Ordered(i, session)
  /\ \A r \in Requests : Has(i, r) => Has(inbox[s], r) /\ w \in Listens
  /\ \A m \in Messages : Has(outbox[s], m) => Has(o, m)
  /\ \A m \in Messages : Has(o, m) =>
       \/ Has(outbox[s], m)
       \/ /\ Answers(m) =>
               /\ Has(inbox[s], m.of) /\ ~Has(i, m.of)
               /\ m.type = "value" /\ kind[m.of] = "close" => w \in Down
          /\ m.type = "error" => w = "crashed"
  /\ Unannounced(o) => Unannounced(outbox[s]) \/ w = "exited"
  /\ \A r \in Requests : Has(inbox[s], r) /\ w \in Listens \cup Down =>
       \/ Has(i, r) /\ w \in Listens
       \/ \E m \in Messages : Has(o, m) /\ Answers(m) /\ m.of = r

LEMMA WorkerOK ==
  ASSUME IndInv, NEW s \in Sessions, NEW w, NEW i \in Seq(Requests),
         NEW o \in Seq(Messages), WorkerStep(s, w, i, o)
  PROVE  IndInv'
<1>. USE DEF WorkerStep
<1>1. /\ TypeOK /\ CurrentIsTheLiveOne /\ Unborn /\ SessionsOK /\ RequestsOK
      /\ WaitersOK /\ InboxOK /\ OutboxOK /\ NothingLost
  BY DEF IndInv
<1>2. UNCHANGED <<current, started, ready, failure, closing, ports, listeners, micro,
                  calls, kind, session, at, result>>
  BY DEF sessionVars, requestVars
<1>3. /\ worker'[s] = w /\ inbox'[s] = i /\ outbox'[s] = o
      /\ \A t \in Sessions : t # s => /\ worker'[t] = worker[t] /\ inbox'[t] = inbox[t]
                                      /\ outbox'[t] = outbox[t]
  BY <1>1 DEF TypeOK
<1>4. TypeOK'
  <2>1. worker' \in [Sessions -> States]
    BY <1>1 DEF TypeOK, States, Listens
  <2>2. inbox' \in [Sessions -> Seq(Requests)] /\ outbox' \in [Sessions -> Seq(Messages)]
    BY <1>1 DEF TypeOK
  <2>. QED BY <1>1, <1>2, <2>1, <2>2 DEF TypeOK, States
<1>5. CurrentIsTheLiveOne' /\ RequestsOK' /\ WaitersOK'
  BY <1>1, <1>2 DEF CurrentIsTheLiveOne, RequestsOK, WaitersOK
<1>6. failure[s] = "none" /\ worker[s] # "none"
  BY <1>1 DEF SessionsOK, Listens
<1>7. Unborn'
  BY <1>1, <1>2, <1>3, <1>6 DEF Unborn
<1>8. SessionsOK'
  <2>1. w \notin {"none", "spawning"}
    OBVIOUS
  <2>2. ASSUME NEW t \in Sessions PROVE SessionsOK!(t)'
    <3>1. CASE t = s
      BY <1>1, <1>2, <1>3, <1>6, <2>1, <3>1 DEF SessionsOK
    <3>2. CASE t # s
      BY <1>1, <1>2, <1>3, <3>2 DEF SessionsOK
    <3>. QED BY <3>1, <3>2
  <2>. QED BY <2>2 DEF SessionsOK
<1>9. InboxOK'
  BY <1>1, <1>2, <1>3 DEF InboxOK
<1>10. OutboxOK'
  <2>1. worker[s] # "exited" /\ worker[s] # "crashed"
    BY DEF Listens
  <2>2. ASSUME NEW m \in Messages, Has(o, m)
        PROVE  /\ Answers(m) =>
                    /\ m.of \in Requests /\ session[m.of] = s
                    /\ at[m.of] \in {"sent", "done"} /\ ~Has(i, m.of)
                    /\ m.type = "value" /\ kind[m.of] = "close" => w \in Down
               /\ m.type = "error" => w = "crashed"
    <3>1. CASE Has(outbox[s], m)
      <4>1. /\ Answers(m) =>
                 /\ m.of \in Requests /\ session[m.of] = s
                 /\ at[m.of] \in {"sent", "done"} /\ ~Has(inbox[s], m.of)
                 /\ m.type = "value" /\ kind[m.of] = "close" => worker[s] \in Down
            /\ m.type = "error" => worker[s] = "crashed"
        BY <1>1, <3>1 DEF OutboxOK
      <4>. QED BY <2>1, <4>1
    <3>2. CASE ~Has(outbox[s], m)
      <4>1. /\ Answers(m) => /\ Has(inbox[s], m.of) /\ ~Has(i, m.of)
                             /\ m.type = "value" /\ kind[m.of] = "close" => w \in Down
            /\ m.type = "error" => w = "crashed"
        BY <2>2, <3>2
      <4>2. Has(inbox[s], m.of) => m.of \in Requests
        BY <1>1, IsQueue DEF TypeOK
      <4>. QED BY <1>1, <4>1, <4>2 DEF InboxOK
    <3>. QED BY <3>1, <3>2
  <2>3. Unannounced(o) => w = "exited" \/ s \notin ports
    BY <1>1, <2>1 DEF OutboxOK
  <2>4. ASSUME NEW t \in Sessions, t # s PROVE OutboxOK!(t)'
    <3>1. OutboxOK!(t)
      BY <1>1 DEF OutboxOK
    <3>2. worker'[t] = worker[t] /\ inbox'[t] = inbox[t] /\ outbox'[t] = outbox[t]
      BY <1>3, <2>4
    <3>. QED BY <1>2, <3>1, <3>2
  <2>. QED BY <1>2, <1>3, <2>2, <2>3, <2>4 DEF OutboxOK
<1>11. NothingLost'
  <2>1. ASSUME NEW r \in Requests, at[r] = "sent"
        PROVE  /\ ready[session[r]] = "ready"
               /\ worker'[session[r]] \in Listens => Has(inbox'[session[r]], r) \/ Replied(r)'
               /\ worker'[session[r]] \in Down => Replied(r)'
    <3>1. /\ session[r] \in Sessions /\ ready[session[r]] = "ready"
          /\ worker[session[r]] \in Listens => Has(inbox[session[r]], r) \/ Replied(r)
          /\ worker[session[r]] \in Down => Replied(r)
      BY <1>1, <2>1, SessionOf DEF NothingLost
    <3>2. Replied(r) => Replied(r)'
      BY <1>2, <1>3, <3>1 DEF Replied
    <3>3. CASE session[r] = s
      <4>1. worker[s] \in Listens \cup Down
        BY <1>1, <3>1, <3>3 DEF SessionsOK, Down
      <4>2. Has(inbox[s], r) \/ Replied(r)
        BY <3>1, <3>3, <4>1
      <4>3. CASE Replied(r)
        BY <3>1, <3>2, <4>3
      <4>4. CASE Has(inbox[s], r) /\ w \in Listens \cup Down
        <5>1. \/ Has(i, r) /\ w \in Listens
              \/ \E m \in Messages : Has(o, m) /\ Answers(m) /\ m.of = r
          BY <4>4
        <5>2. ASSUME NEW m \in Messages, Has(o, m), Answers(m), m.of = r
              PROVE  Replied(r)'
          BY <1>2, <1>3, <3>3, <5>2 DEF Replied
        <5>3. w \in Listens => w \notin Down
          BY DEF Listens, Down
        <5>. QED BY <1>3, <3>1, <3>3, <5>1, <5>2, <5>3
      <4>5. CASE w \notin Listens \cup Down
        BY <1>3, <3>1, <3>3, <4>5
      <4>. QED BY <4>2, <4>3, <4>4, <4>5
    <3>4. CASE session[r] # s
      BY <1>3, <3>1, <3>2, <3>4
    <3>. QED BY <3>3, <3>4
  <2>2. ASSUME NEW r \in Requests, at[r] = "waiting"
        PROVE  worker'[session[r]] \notin Down
    <3>1. session[r] \in Sessions /\ worker[session[r]] \notin Down
      BY <1>1, <2>2, SessionOf DEF NothingLost
    <3>. QED BY <1>3, <2>2, <3>1
  <2>3. ASSUME NEW r \in Requests, kind[r] = "close", result[r] = "value"
        PROVE  worker'[session[r]] \in Down
    <3>1. session[r] \in Sessions /\ worker[session[r]] \in Down
      BY <1>1, <2>3, SessionOf DEF NothingLost
    <3>. QED BY <1>3, <3>1
  <2>. QED BY <1>2, <2>1, <2>2, <2>3 DEF NothingLost
<1>. QED BY <1>4, <1>5, <1>7, <1>8, <1>9, <1>10, <1>11 DEF IndInv

\* A message that is no reply, when the worker goes on with the same requests.
LEMMA PostOK ==
  ASSUME IndInv, NEW s \in Sessions, NEW w, NEW m \in Messages,
         worker[s] \in {"spawning", "closed"} \cup Listens,
         w \in {"listening", "importing", "exited"}, m.type \in {"port", "module", "exit"},
         w = "exited" <=> worker[s] = "closed", m.type = "exit" => w = "exited",
         UNCHANGED <<sessionVars, listeners, micro, requestVars, inbox>>,
         modules' \in 0 .. MaxModules, exported' \subseteq Sessions,
         handling' \subseteq Sessions, awaited' \in [Sessions -> {0} \cup Requests],
         worker' = [worker EXCEPT ![s] = w],
         Post(s, m) \/ (UNCHANGED outbox /\ w # "exited")
  PROVE  IndInv'
<1>1. /\ TypeOK /\ InboxOK /\ NothingLost /\ SessionsOK
      /\ inbox \in [Sessions -> Seq(Requests)] /\ outbox \in [Sessions -> Seq(Messages)]
  BY DEF IndInv, TypeOK
<1>2. PICK i \in Seq(Requests) : i = inbox[s] /\ inbox' = [inbox EXCEPT ![s] = i]
  BY <1>1
<1>3. PICK p \in Seq(Messages) : p = outbox[s]
  BY <1>1
<1>4. PICK o \in Seq(Messages) :
        /\ outbox' = [outbox EXCEPT ![s] = o]
        /\ \A x \in Messages : Has(p, x) => Has(o, x)
        /\ \A x \in Messages : Has(o, x) => Has(p, x) \/ x = m
        /\ Unannounced(o) => Unannounced(p) \/ w = "exited"
  <2>1. CASE Post(s, m)
    <3>1. /\ Append(p, m) \in Seq(Messages)
          /\ \A x \in Messages : Has(Append(p, m), x) <=> Has(p, x) \/ x = m
      BY AppendedQueue
    <3>2. Unannounced(Append(p, m)) => Unannounced(p) \/ w = "exited"
      BY ExitAppended
    <3>3. outbox' = [outbox EXCEPT ![s] = Append(p, m)]
      BY <1>3, <2>1 DEF Post
    <3>. QED BY <3>1, <3>2, <3>3
  <2>2. CASE UNCHANGED outbox
    <3>1. outbox' = [outbox EXCEPT ![s] = p]
      BY <1>1, <1>3, <2>2
    <3>. QED BY <3>1
  <2>. QED BY <2>1, <2>2
<1>5. \A r \in Requests : Has(i, r) => worker[s] \in Listens /\ w \in Listens
  BY <1>1, <1>2 DEF InboxOK, Listens
<1>6. w \in Down => s \in closing /\ \A r \in Requests : session[r] = s => at[r] # "waiting"
  BY <1>1 DEF SessionsOK, NothingLost, Down
<1>7. Ordered(i, session)
  BY <1>1, <1>2 DEF InboxOK
<1>8. /\ worker[s] \in Down => w \in Down
      /\ ~Answers(m) /\ m.type # "error"
      /\ w \in {"listening", "importing", "closed", "leaked", "exited", "crashed"}
  BY DEF Down, Answers, Listens
<1>9. UNCHANGED <<sessionVars, listeners, micro, requestVars>>
  OBVIOUS
<1>10. \A r \in Requests : Has(i, r) => Has(inbox[s], r) /\ w \in Listens
  BY <1>2, <1>5
<1>11. /\ \A x \in Messages : Has(outbox[s], x) => Has(o, x)
       /\ Unannounced(o) => Unannounced(outbox[s]) \/ w = "exited"
  BY <1>3, <1>4
<1>12. \A x \in Messages : Has(o, x) =>
         \/ Has(outbox[s], x)
         \/ /\ Answers(x) => /\ Has(inbox[s], x.of) /\ ~Has(i, x.of)
                             /\ x.type = "value" /\ kind[x.of] = "close" => w \in Down
            /\ x.type = "error" => w = "crashed"
  BY <1>3, <1>4, <1>8
<1>13. \A r \in Requests : Has(inbox[s], r) /\ w \in Listens \cup Down =>
         \/ Has(i, r) /\ w \in Listens
         \/ \E x \in Messages : Has(o, x) /\ Answers(x) /\ x.of = r
  BY <1>2, <1>5
<1>14. WorkerStep(s, w, i, o)
  BY <1>2, <1>4, <1>6, <1>7, <1>8, <1>9, <1>10, <1>11, <1>12, <1>13 DEF WorkerStep
<1>. QED BY <1>14, WorkerOK

LEMMA StartOK == ASSUME IndInv, NEW s \in Sessions, Start(s) PROVE IndInv'
<1>1. PICK m \in Messages : m = [type |-> "port", of |-> 0]
  BY DEF Messages, Own
<1>2. /\ worker[s] = "spawning" /\ worker' = [worker EXCEPT ![s] = "listening"]
      /\ UNCHANGED <<sessionVars, listeners, micro, requestVars, inbox>>
      /\ Post(s, m)
  BY <1>1 DEF Start
<1>3. /\ modules' \in 0 .. MaxModules /\ exported' \subseteq Sessions
      /\ handling' \subseteq Sessions /\ awaited' \in [Sessions -> {0} \cup Requests]
  BY DEF Start, lookupVars, IndInv, TypeOK
<1>. QED BY <1>1, <1>2, <1>3, PostOK

LEMMA ImportOK == ASSUME IndInv, NEW s \in Sessions, Import(s) PROVE IndInv'
<1>1. PICK m \in Messages : m = [type |-> "module", of |-> 0]
  BY DEF Messages, Own
<1>2. /\ worker[s] = "listening" /\ worker' = [worker EXCEPT ![s] = "importing"]
      /\ UNCHANGED <<sessionVars, listeners, micro, requestVars, inbox>>
      /\ Post(s, m)
  BY <1>1 DEF Import
<1>3. /\ modules' \in 0 .. MaxModules /\ exported' \subseteq Sessions
      /\ handling' \subseteq Sessions /\ awaited' \in [Sessions -> {0} \cup Requests]
  BY BoundsAssumption DEF Import, IndInv, TypeOK
<1>4. worker[s] \in Listens
  BY <1>2 DEF Listens
<1>. QED BY <1>1, <1>2, <1>3, <1>4, PostOK

LEMMA ExitOK == ASSUME IndInv, NEW s \in Sessions, Exit(s) PROVE IndInv'
<1>1. PICK m \in Messages : m = [type |-> "exit", of |-> 0]
  BY DEF Messages, Own
<1>2. /\ worker[s] = "closed" /\ worker' = [worker EXCEPT ![s] = "exited"]
      /\ UNCHANGED <<sessionVars, listeners, micro, requestVars, inbox>>
      /\ Post(s, m)
  BY <1>1 DEF Exit
<1>3. /\ modules' \in 0 .. MaxModules /\ exported' \subseteq Sessions
      /\ handling' \subseteq Sessions /\ awaited' \in [Sessions -> {0} \cup Requests]
  BY DEF Exit, lookupVars, IndInv, TypeOK
<1>. QED BY <1>1, <1>2, <1>3, PostOK

\* What no worker and no request has a part in.
LEMMA LookupOK ==
  ASSUME IndInv, UNCHANGED <<sessionVars, listeners, micro, requestVars, worker, inbox, outbox>>,
         modules' \in 0 .. MaxModules, exported' \subseteq Sessions,
         handling' \subseteq Sessions, awaited' \in [Sessions -> {0} \cup Requests]
  PROVE  IndInv'
<1>1. /\ TypeOK /\ CurrentIsTheLiveOne /\ Unborn /\ SessionsOK /\ RequestsOK
      /\ WaitersOK /\ InboxOK /\ OutboxOK /\ NothingLost
  BY DEF IndInv
<1>2. UNCHANGED <<current, started, ready, failure, closing, ports, listeners, micro,
                  calls, kind, session, at, result, worker, inbox, outbox>>
  BY DEF sessionVars, requestVars
<1>3. TypeOK' /\ CurrentIsTheLiveOne' /\ Unborn' /\ SessionsOK'
  BY <1>1, <1>2 DEF TypeOK, CurrentIsTheLiveOne, Unborn, SessionsOK
<1>4. RequestsOK' /\ WaitersOK' /\ InboxOK'
  BY <1>1, <1>2 DEF RequestsOK, WaitersOK, InboxOK
<1>5. OutboxOK'
  BY <1>1, <1>2 DEF OutboxOK
<1>6. NothingLost'
  BY <1>1, <1>2 DEF NothingLost, Replied
<1>. QED BY <1>3, <1>4, <1>5, <1>6 DEF IndInv

LEMMA HandlerEndsOK == ASSUME IndInv, NEW s \in Sessions, HandlerEnds(s) PROVE IndInv'
<1>1. /\ handling' \subseteq Sessions /\ awaited' \in [Sessions -> {0} \cup Requests]
      /\ modules' \in 0 .. MaxModules /\ exported' \subseteq Sessions
      /\ UNCHANGED <<sessionVars, listeners, micro, requestVars, inbox, outbox>>
      /\ worker' = [worker EXCEPT ![s] = IF @ = "importing" THEN "listening" ELSE @]
  BY DEF HandlerEnds, IndInv, TypeOK
<1>2. CASE worker[s] = "importing"
  <2>1. PICK m \in Messages : m = [type |-> "module", of |-> 0]
    BY DEF Messages, Own
  <2>2. worker' = [worker EXCEPT ![s] = "listening"] /\ worker[s] \in Listens
    BY <1>1, <1>2 DEF Listens
  <2>. QED BY <1>1, <1>2, <2>1, <2>2, PostOK
<1>3. CASE worker[s] # "importing"
  <2>1. worker' = worker
    BY <1>1, <1>3 DEF IndInv, TypeOK
  <2>. QED BY <1>1, <2>1, LookupOK
<1>. QED BY <1>2, <1>3

LEMMA ExportOK == ASSUME IndInv, NEW s \in Sessions, Export(s) PROVE IndInv'
<1>1. /\ UNCHANGED <<sessionVars, listeners, micro, requestVars, worker, inbox, outbox>>
      /\ modules' \in 0 .. MaxModules /\ exported' \subseteq Sessions
      /\ handling' \subseteq Sessions /\ awaited' \in [Sessions -> {0} \cup Requests]
  BY DEF Export, lookupVars, IndInv, TypeOK
<1>. QED BY <1>1, LookupOK

\* The worker takes its next request and answers it.
LEMMA AnswerOK ==
  ASSUME IndInv, NEW s \in Sessions, NEW w, NEW m \in Messages, NEW r \in Requests,
         NEW i \in Seq(Requests), NEW q \in Seq(Requests),
         worker[s] = "listening", q = inbox[s], q # << >>, r = Head(q),
         Answers(m), m.of = r,
         \/ w = "listening" /\ i = Tail(q) /\ kind[r] # "close"
         \/ w = "closed" /\ i = << >> /\ kind[r] = "close"
         \/ w = "leaked" /\ i = Tail(q) /\ kind[r] = "close" /\ m.type = "fault",
         UNCHANGED <<sessionVars, listeners, micro, requestVars, exported, lookupVars>>,
         worker' = [worker EXCEPT ![s] = w],
         inbox' = [inbox EXCEPT ![s] = i], Post(s, m)
  PROVE  IndInv'
<1>1. /\ TypeOK /\ InboxOK /\ RequestsOK /\ outbox \in [Sessions -> Seq(Messages)]
      /\ \A x \in Requests : x \in Nat
  BY DEF IndInv, TypeOK, Requests
<1>2. /\ modules' \in 0 .. MaxModules /\ exported' \subseteq Sessions
      /\ handling' \subseteq Sessions /\ awaited' \in [Sessions -> {0} \cup Requests]
  BY <1>1 DEF lookupVars, TypeOK
<1>3. PICK p \in Seq(Messages) : p = outbox[s]
  BY <1>1
<1>4. PICK o \in Seq(Messages) : o = Append(p, m)
  BY AppendedQueue
<1>5. /\ \A x \in Messages : Has(o, x) <=> Has(p, x) \/ x = m
      /\ Unannounced(o) => Unannounced(p)
  <2>1. \A x \in Messages : Has(o, x) <=> Has(p, x) \/ x = m
    BY <1>4, AppendedQueue
  <2>2. Unannounced(o) => Unannounced(p) \/ m.type = "exit"
    BY <1>4, ExitAppended
  <2>. QED BY <2>1, <2>2 DEF Answers
<1>6. /\ Has(q, r) /\ \A x : Has(Tail(q), x) => Has(q, x)
      /\ \A x : Has(q, x) => x = r \/ Has(Tail(q), x)
  BY TailQueue
<1>7. \A x \in Requests : Has(q, x) => session[x] = s /\ at[x] = "sent"
  BY <1>1 DEF InboxOK
<1>8. /\ Ordered(Tail(q), session) /\ ~Has(Tail(q), r)
      /\ \A x \in Requests : Has(q, x) /\ session[x] = session[r] => r <= x
  <2>1. PICK f : f = session
    OBVIOUS
  <2>2. Ordered(q, f)
    BY <1>1, <2>1 DEF InboxOK
  <2>3. /\ Ordered(Tail(q), f) /\ ~Has(Tail(q), r)
        /\ \A x \in Requests : Has(q, x) /\ f[x] = f[r] => r <= x
    BY <2>2, OrderedTail
  <2>. QED BY <2>1, <2>3
<1>9. (\A x : ~Has(<< >>, x)) /\ Ordered(<< >>, session)
  BY EmptyQueue
\* close() is the last request of its session.
<1>10. ASSUME kind[r] = "close"
       PROVE  /\ s \in closing
              /\ \A x \in Requests : Has(q, x) => x = r
              /\ \A x \in Requests : session[x] = s => at[x] # "waiting"
  <2>1. /\ session[r] = s /\ at[r] = "sent" /\ s \in closing
        /\ \A x \in Requests : session[x] = s => x <= r
    BY <1>1, <1>6, <1>7, <1>10 DEF RequestsOK
  <2>2. \A x \in Requests : Has(q, x) => x = r
    BY <1>1, <1>7, <1>8, <2>1
  <2>3. ASSUME NEW x \in Requests, session[x] = s, at[x] = "waiting" PROVE FALSE
    <3>1. x # r
      BY <2>1, <2>3
    <3>2. x < r
      BY <1>1, <2>1, <2>3, <3>1
    <3>. QED BY <1>1, <2>1, <2>3, <3>2 DEF RequestsOK
  <2>. QED BY <2>1, <2>2, <2>3
<1>11. Ordered(i, session) /\ \A x \in Requests : Has(i, x) => Has(inbox[s], x) /\ w \in Listens
  <2>1. CASE kind[r] # "close"
    BY <1>6, <1>8, <2>1 DEF Listens
  <2>2. CASE kind[r] = "close"
    <3>1. \A x \in Requests : ~Has(i, x)
      BY <1>6, <1>8, <1>9, <1>10, <2>2
    <3>. QED BY <1>8, <1>9, <3>1
  <2>. QED BY <2>1, <2>2
<1>12. w \in Down => s \in closing /\ \A x \in Requests : session[x] = s => at[x] # "waiting"
  BY <1>10 DEF Down
<1>13. /\ \A x \in Messages : Has(outbox[s], x) => Has(o, x)
       /\ Unannounced(o) => Unannounced(outbox[s]) \/ w = "exited"
       /\ outbox' = [outbox EXCEPT ![s] = o]
  BY <1>1, <1>3, <1>4, <1>5 DEF Post
<1>14. \A x \in Messages : Has(o, x) =>
         \/ Has(outbox[s], x)
         \/ /\ Answers(x) => /\ Has(inbox[s], x.of) /\ ~Has(i, x.of)
                             /\ x.type = "value" /\ kind[x.of] = "close" => w \in Down
            /\ x.type = "error" => w = "crashed"
  <2>1. ~Has(i, r) /\ Has(inbox[s], r) /\ (m.type = "value" /\ kind[r] = "close" => w \in Down)
    BY <1>6, <1>8, <1>9 DEF Down
  <2>2. m.type # "error"
    BY DEF Answers
  <2>. QED BY <1>3, <1>5, <2>1, <2>2
<1>15. \A x \in Requests : Has(inbox[s], x) /\ w \in Listens \cup Down =>
         \/ Has(i, x) /\ w \in Listens
         \/ \E y \in Messages : Has(o, y) /\ Answers(y) /\ y.of = x
  <2>1. Has(o, m)
    BY <1>5
  <2>2. \A x \in Requests : Has(q, x) => x = r \/ (Has(i, x) /\ w \in Listens)
    <3>1. CASE kind[r] = "close"
      BY <1>10, <3>1
    <3>2. CASE kind[r] # "close"
      <4>1. w \in Listens /\ i = Tail(q)
        BY <3>2 DEF Listens
      <4>. QED BY <1>6, <4>1
    <3>. QED BY <3>1, <3>2
  <2>. QED BY <2>1, <2>2
<1>16. /\ UNCHANGED <<sessionVars, listeners, micro, requestVars>>
       /\ worker[s] \in {"spawning", "closed"} \cup Listens
       /\ w \in {"listening", "importing", "closed", "leaked", "exited", "crashed"}
       /\ worker[s] \in Down => w \in Down
  BY DEF Listens, Down
<1>17. WorkerStep(s, w, i, o)
  BY <1>2, <1>11, <1>12, <1>13, <1>14, <1>15, <1>16 DEF WorkerStep
<1>. QED BY <1>17, WorkerOK

LEMMA ReplyOK ==
  ASSUME IndInv, NEW s \in Sessions,
         Shut(s) \/ ShutFails(s) \/ \E how \in {"value", "fault"} : Reply(s, how)
  PROVE  IndInv'
<1>1. PICK q \in Seq(Requests) : q = inbox[s]
  BY DEF IndInv, TypeOK
<1>2. worker[s] = "listening" /\ q # << >>
  BY <1>1 DEF Shut, ShutFails, Reply
<1>3. PICK r \in Requests : r = Head(q)
  BY <1>2, TailQueue
<1>4. << >> \in Seq(Requests) /\ Tail(q) \in Seq(Requests)
  BY <1>2, EmptyQueue, TailQueue
<1>5. CASE Shut(s)
  <2>1. PICK m \in Messages : m = [type |-> "value", of |-> r]
    BY DEF Messages
  <2>2. Answers(m) /\ m.of = r
    BY <2>1 DEF Answers
  <2>3. /\ kind[r] = "close" /\ worker' = [worker EXCEPT ![s] = "closed"]
        /\ inbox' = [inbox EXCEPT ![s] = << >>] /\ Post(s, m)
        /\ UNCHANGED <<sessionVars, listeners, micro, requestVars, exported, lookupVars>>
    BY <1>1, <1>3, <1>5, <2>1 DEF Shut
  <2>. QED BY <1>1, <1>2, <1>3, <1>4, <2>1, <2>2, <2>3, AnswerOK
<1>6. CASE ShutFails(s)
  <2>1. PICK m \in Messages : m = [type |-> "fault", of |-> r]
    BY DEF Messages
  <2>2. Answers(m) /\ m.of = r /\ m.type = "fault"
    BY <2>1 DEF Answers
  <2>3. /\ kind[r] = "close" /\ worker' = [worker EXCEPT ![s] = "leaked"]
        /\ inbox' = [inbox EXCEPT ![s] = Tail(q)] /\ Post(s, m)
        /\ UNCHANGED <<sessionVars, listeners, micro, requestVars, exported, lookupVars>>
    BY <1>1, <1>3, <1>6, <2>1 DEF ShutFails
  <2>. QED BY <1>1, <1>2, <1>3, <1>4, <2>1, <2>2, <2>3, AnswerOK
<1>7. ASSUME NEW how \in {"value", "fault"}, Reply(s, how) PROVE IndInv'
  <2>1. PICK m \in Messages : m = [type |-> how, of |-> r]
    BY DEF Messages
  <2>2. Answers(m) /\ m.of = r
    BY <2>1 DEF Answers
  <2>3. worker' = [worker EXCEPT ![s] = "listening"]
    BY <1>2, <1>7 DEF Reply, IndInv, TypeOK
  <2>4. /\ kind[r] # "close" /\ inbox' = [inbox EXCEPT ![s] = Tail(q)] /\ Post(s, m)
        /\ UNCHANGED <<sessionVars, listeners, micro, requestVars, exported, lookupVars>>
    BY <1>1, <1>3, <1>7, <2>1 DEF Reply
  <2>. QED BY <1>1, <1>2, <1>3, <1>4, <2>1, <2>2, <2>3, <2>4, AnswerOK
<1>. QED BY <1>5, <1>7, <1>6

LEMMA CrashOK == ASSUME IndInv, NEW s \in Sessions, Crash(s) PROVE IndInv'
<1>1. /\ TypeOK /\ outbox \in [Sessions -> Seq(Messages)]
      /\ modules' \in 0 .. MaxModules /\ exported' \subseteq Sessions
      /\ handling' \subseteq Sessions /\ awaited' \in [Sessions -> {0} \cup Requests]
  BY DEF IndInv, TypeOK, Crash, lookupVars
<1>2. PICK e \in Messages, x \in Messages :
        e = [type |-> "error", of |-> 0] /\ x = [type |-> "exit", of |-> 0]
  BY DEF Messages, Own
<1>3. PICK p \in Seq(Messages) : p = outbox[s]
  BY <1>1
<1>4. PICK o \in Seq(Messages) :
        /\ o = p \o <<e, x>>
        /\ \A m : Has(o, m) <=> Has(p, m) \/ m = e \/ m = x
        /\ Unannounced(o) => Unannounced(p)
  <2>1. e.type = "error"
    BY <1>2
  <2>2. /\ p \o <<e, x>> \in Seq(Messages)
        /\ \A m : Has(p \o <<e, x>>, m) <=> Has(p, m) \/ m = e \/ m = x
        /\ Unannounced(p \o <<e, x>>) => Unannounced(p)
    BY <2>1, CrashQueue
  <2>. QED BY <2>2
<1>5. /\ worker[s] = "listening" /\ worker' = [worker EXCEPT ![s] = "crashed"]
      /\ inbox' = [inbox EXCEPT ![s] = << >>] /\ outbox' = [outbox EXCEPT ![s] = o]
      /\ UNCHANGED <<sessionVars, listeners, micro, requestVars>>
  BY <1>2, <1>3, <1>4 DEF Crash
<1>6. << >> \in Seq(Requests) /\ Ordered(<< >>, session) /\ \A r : ~Has(<< >>, r)
  BY EmptyQueue
<1>7. /\ "crashed" \notin Down /\ "crashed" \notin Listens /\ worker[s] \notin Down
      /\ worker[s] \in Listens
  BY <1>5 DEF Down, Listens
<1>8. /\ \A m \in Messages : Has(outbox[s], m) => Has(o, m)
      /\ Unannounced(o) => Unannounced(outbox[s])
      /\ \A m \in Messages : Has(o, m) => Has(outbox[s], m) \/ ~Answers(m)
  BY <1>2, <1>3, <1>4 DEF Answers
<1>9. PICK w : w = "crashed"
  OBVIOUS
<1>10. /\ \A m \in Messages : Has(o, m) =>
            \/ Has(outbox[s], m)
            \/ /\ Answers(m) => /\ Has(inbox[s], m.of) /\ ~Has(<< >>, m.of)
                                /\ m.type = "value" /\ kind[m.of] = "close" => w \in Down
               /\ m.type = "error" => w = "crashed"
       /\ worker' = [worker EXCEPT ![s] = w] /\ w \notin Down /\ w \notin Listens
       /\ w \in {"listening", "importing", "closed", "leaked", "exited", "crashed"}
       /\ Unannounced(o) => Unannounced(outbox[s]) \/ w = "exited"
  BY <1>5, <1>7, <1>8, <1>9
<1>11. WorkerStep(s, w, << >>, o)
  BY <1>1, <1>5, <1>6, <1>7, <1>8, <1>10 DEF WorkerStep
<1>. QED BY <1>6, <1>11, WorkerOK

LEMMA HandlerEvaluatesOK ==
  ASSUME IndInv, NEW s \in Sessions, HandlerEvaluates(s) PROVE IndInv'
<1>1. calls + 1 \in Requests
  BY BoundsAssumption DEF HandlerEvaluates, Evaluate, IndInv, TypeOK, Requests
<1>2. /\ Evaluate /\ handling' \subseteq Sessions
      /\ awaited' \in [Sessions -> {0} \cup Requests]
  BY <1>1 DEF HandlerEvaluates, IndInv, TypeOK
<1>. QED BY <1>2, EvaluateOK

LEMMA NextOK == IndInv /\ [Next]_vars => IndInv'
<1>. SUFFICES ASSUME IndInv, [Next]_vars PROVE IndInv'
  OBVIOUS
<1>1. /\ modules \in 0 .. MaxModules /\ exported \subseteq Sessions
      /\ handling \subseteq Sessions /\ awaited \in [Sessions -> {0} \cup Requests]
  BY DEF IndInv, TypeOK
<1>2. CASE UNCHANGED vars
  <2>1. UNCHANGED <<sessionVars, listeners, micro, requestVars, worker, inbox, outbox,
                    modules, exported, handling, awaited>>
    BY <1>2 DEF vars, workerVars, lookupVars
  <2>. QED BY <1>1, <2>1, LookupOK
<1>3. CASE Evaluate /\ UNCHANGED <<handling, awaited>>
  BY <1>1, <1>3, EvaluateOK
<1>4. CASE Close
  BY <1>4, CloseOK
<1>5. CASE Continue
  BY <1>5, ContinueOK
<1>6. ASSUME NEW s \in Sessions,
             \/ SpawnFails(s) \/ Receive(s) \/ HandlerEvaluates(s) \/ HandlerEnds(s)
             \/ Start(s) \/ Import(s) \/ Export(s) \/ Exit(s) \/ Crash(s)
             \/ Shut(s) \/ ShutFails(s)
             \/ \E how \in {"value", "fault"} : Reply(s, how)
      PROVE  IndInv'
  BY <1>6, SpawnFailsOK, ReceiveOK, HandlerEvaluatesOK, HandlerEndsOK, StartOK,
     ImportOK, ExportOK, ReplyOK, ExitOK, CrashOK
<1>. QED BY <1>2, <1>3, <1>4, <1>5, <1>6 DEF Next

LEMMA Invariance == Spec => []IndInv
<1>. QED BY InitOK, NextOK, PTL DEF Spec

----------------------------------------------------------------------------
(* The theorems. *)

\* Sessions, requests, workers and their queues keep their types, for any number
\* of calls, workers and modules.
THEOREM TypeCorrect == Spec => []TypeOK
<1>1. IndInv => TypeOK
  BY DEF IndInv
<1>. QED BY <1>1, Invariance, PTL

\* evaluate() uses the one session that has neither failed nor been closed: what a
\* late exit or error of an old worker does (_Session.fail, isolate.dart) leaves
\* the session that took its place alone.
THEOREM OneLiveSession == Spec => []CurrentIsTheLiveOne
<1>1. IndInv => CurrentIsTheLiveOne
  BY DEF IndInv
<1>. QED BY <1>1, Invariance, PTL

\* A worker gets its requests in the order of the calls and the close() last, none
\* is lost behind it, and close() succeeds only when the engine is freed.
THEOREM OrderlyClose == Spec => []CloseIsOrderly
<1>1. ASSUME IndInv PROVE CloseIsOrderly
  <2>1. TypeOK /\ InboxOK /\ NothingLost
    BY <1>1 DEF IndInv
  <2>2. ASSUME NEW s \in Sessions, NEW i \in DOMAIN inbox[s], NEW j \in DOMAIN inbox[s], i < j
        PROVE  inbox[s][i] < inbox[s][j]
    <3>1. inbox[s] \in Seq(Requests) /\ Ordered(inbox[s], session)
      BY <2>1 DEF TypeOK, InboxOK
    <3>2. /\ inbox[s][i] \in Requests /\ Has(inbox[s], inbox[s][i])
          /\ inbox[s][j] \in Requests /\ Has(inbox[s], inbox[s][j])
      BY <3>1, IsQueue DEF Has
    <3>3. session[inbox[s][i]] = s /\ session[inbox[s][j]] = s
      BY <2>1, <3>2 DEF InboxOK
    <3>. QED BY <2>2, <3>1, <3>3 DEF Ordered
  <2>3. ASSUME NEW s \in Sessions, worker[s] \in Down, NEW r \in Requests,
               session[r] = s, at[r] \in {"waiting", "sent"}
        PROVE  \E i \in DOMAIN outbox[s] : outbox[s][i].of = r
    <3>1. Replied(r)
      BY <2>1, <2>3 DEF NothingLost
    <3>. QED BY <2>3, <3>1 DEF Replied, Has
  <2>4. \A r \in Requests :
          kind[r] = "close" /\ result[r] = "value" => worker[session[r]] \in Down
    BY <2>1 DEF NothingLost
  <2>. QED BY <2>2, <2>3, <2>4 DEF CloseIsOrderly, Down
<1>2. IndInv => CloseIsOrderly
  BY <1>1
<1>. QED BY <1>2, Invariance, PTL
=============================================================================
