-------------------------- MODULE FutureWatchProofs --------------------------
(***************************************************************************)
(* Proofs about FutureWatch for any watchers and futures: types, what      *)
(* watchers hold and wait for, and that they implement Completion.         *)
(***************************************************************************)
EXTENDS FutureWatch, SequenceTheorems, TLAPS

\* A watcher has its answer when it is done and not before, and a microtask is
\* under way only for a watcher whose future is complete.
VerdictDiscipline ==
  \A w \in Watchers :
    /\ at[w] = "unused"  => w \notin due
    /\ at[w] # "unused" <=> of[w] \in Futures
    /\ at[w] = "done"   <=> verdict[w] # "none"
    /\ w \in due => future[of[w]] \in Outcomes

\* A reaction that waits in the queue is the only one of its future.
Waiting(q) ==
  /\ \A i \in 1 .. Len(q) : future[q[i]] = "queued"
  /\ \A i, j \in 1 .. Len(q) : q[i] = q[j] => i = j

IndInv == TypeOK /\ HoldsWhileWaiting /\ VerdictDiscipline /\ Waiting(queue)

----------------------------------------------------------------------------
LEMMA InitOK == Init => IndInv
<1>. SUFFICES ASSUME Init PROVE IndInv
  OBVIOUS
<1>1. TypeOK
  BY EmptySeq DEF Init, TypeOK
<1>2. HoldsWhileWaiting /\ VerdictDiscipline
  BY NothingAssumption DEF NothingAssumption, Init, HoldsWhileWaiting, VerdictDiscipline
<1>3. Waiting(queue)
  BY EmptySeq DEF Init, Waiting
<1>. QED BY <1>1, <1>2, <1>3 DEF IndInv

\* The queue stays in order when no future in it changes, when a future that is not
\* in it joins, and when its head leaves.
LEMMA StaysInOrder ==
  ASSUME IndInv, queue' = queue, \A f \in Futures : future[f] = "queued" => future'[f] = "queued"
  PROVE  Waiting(queue)'
<1>1. \A i \in 1 .. Len(queue) : queue[i] \in Futures
  BY ElementOfSeq DEF IndInv, TypeOK
<1>. QED BY <1>1 DEF IndInv, Waiting

LEMMA JoinsInOrder == ASSUME IndInv, NEW f \in Futures, Settle(f) PROVE Waiting(queue)'
<1>1. queue \in Seq(Futures) /\ Len(queue) \in Nat
  BY LenProperties DEF IndInv, TypeOK
<1>2. /\ Len(queue') = Len(queue) + 1
      /\ queue'[Len(queue) + 1] = f
      /\ \A i \in 1 .. Len(queue) : queue'[i] = queue[i]
  BY <1>1, AppendProperties DEF Settle
<1>3. \A i \in 1 .. Len(queue) : queue[i] \in Futures /\ future[queue[i]] = "queued"
  BY <1>1, ElementOfSeq DEF IndInv, Waiting
<1>4. \A i \in 1 .. Len(queue) : queue[i] # f
  BY <1>3 DEF Settle
<1>5. \A i \in 1 .. Len(queue) + 1 : future'[queue'[i]] = "queued"
  <2>. TAKE i \in 1 .. Len(queue) + 1
  <2>1. CASE i \in 1 .. Len(queue)
    BY <1>2, <1>3, <2>1 DEF Settle, IndInv, TypeOK
  <2>2. CASE i = Len(queue) + 1
    BY <1>2, <2>2 DEF Settle, IndInv, TypeOK
  <2>. QED BY <1>1, <2>1, <2>2
<1>6. \A i, j \in 1 .. Len(queue) + 1 : queue'[i] = queue'[j] => i = j
  <2>1. \A i \in 1 .. Len(queue) + 1 : i \in 1 .. Len(queue) \/ i = Len(queue) + 1
    BY <1>1
  <2>. QED BY <1>2, <1>4, <2>1 DEF IndInv, Waiting
<1>. QED BY <1>2, <1>5, <1>6 DEF Waiting

LEMMA LeavesInOrder ==
  ASSUME IndInv, queue # <<>>, queue' = Tail(queue),
         \A f \in Futures : f # Head(queue) => future'[f] = future[f]
  PROVE  Waiting(queue)' /\ Head(queue) \in Futures /\ future[Head(queue)] = "queued"
<1>1. /\ queue \in Seq(Futures) /\ Len(queue) \in Nat \ {0}
      /\ Len(queue') = Len(queue) - 1
      /\ \A i \in 1 .. Len(queue') : queue'[i] = queue[i + 1]
      /\ Head(queue) = queue[1]
  BY EmptySeq, HeadTailProperties DEF IndInv, TypeOK
<1>2. \A i \in 1 .. Len(queue) : queue[i] \in Futures
  BY <1>1, ElementOfSeq
<1>3. \A i \in 1 .. Len(queue') : i + 1 \in 1 .. Len(queue) /\ i + 1 # 1
  BY <1>1
<1>4. 1 \in 1 .. Len(queue)
  BY <1>1
<1>5. \A i \in 1 .. Len(queue') : queue'[i] # Head(queue)
  BY <1>1, <1>3, <1>4 DEF IndInv, Waiting
<1>6. \A i \in 1 .. Len(queue') : future'[queue'[i]] = "queued"
  BY <1>1, <1>2, <1>3, <1>5 DEF IndInv, Waiting
<1>7. \A i, j \in 1 .. Len(queue') : queue'[i] = queue'[j] => i = j
  <2>. SUFFICES ASSUME NEW i \in 1 .. Len(queue'), NEW j \in 1 .. Len(queue'),
                       queue'[i] = queue'[j]
                PROVE  i = j
    OBVIOUS
  <2>1. i + 1 = j + 1
    BY <1>1, <1>3 DEF IndInv, Waiting
  <2>. QED BY <1>1, <2>1
<1>. QED BY <1>1, <1>2, <1>4, <1>6, <1>7 DEF Waiting, IndInv

LEMMA CreateOK == ASSUME IndInv, NEW f \in Futures, Create(f) PROVE IndInv'
<1>1. TypeOK'
  BY DEF IndInv, TypeOK, Create, watcherVars
<1>2. HoldsWhileWaiting'
  BY DEF IndInv, TypeOK, HoldsWhileWaiting, VerdictDiscipline, Create, watcherVars
<1>3. VerdictDiscipline'
  BY DEF IndInv, TypeOK, VerdictDiscipline, Create, watcherVars, Outcomes
<1>4. Waiting(queue)'
  BY StaysInOrder DEF Create, IndInv, TypeOK
<1>. QED BY <1>1, <1>2, <1>3, <1>4 DEF IndInv

LEMMA SettleOK == ASSUME IndInv, NEW f \in Futures, Settle(f) PROVE IndInv'
<1>1. TypeOK'
  <2>1. queue' \in Seq(Futures)
    BY AppendProperties DEF IndInv, TypeOK, Settle
  <2>. QED BY <2>1 DEF IndInv, TypeOK, Settle, watcherVars
<1>2. HoldsWhileWaiting'
  BY DEF IndInv, TypeOK, HoldsWhileWaiting, VerdictDiscipline, Settle, watcherVars
<1>3. VerdictDiscipline'
  BY DEF IndInv, TypeOK, VerdictDiscipline, Settle, watcherVars, Outcomes
<1>4. Waiting(queue)'
  BY JoinsInOrder
<1>. QED BY <1>1, <1>2, <1>3, <1>4 DEF IndInv

\* Steps that only say what runs in the engine.
LEMMA EngineOK ==
  ASSUME IndInv,
         \/ \E w \in Watchers : Tick(w)
         \/ Dispatch \/ JobsEnd
         \/ \E then \in {"active", "disposing"} : StartClose(then)
  PROVE  IndInv'
<1>1. /\ UNCHANGED <<future, queue, watcherVars>>
      /\ running' \in {"nothing", "jobs", "closing"}
      /\ lifecycle' = lifecycle \/ lifecycle' \in {"active", "disposing"}
  BY DEF Tick, Dispatch, JobsEnd, StartClose, JobsRun
<1>2. TypeOK'
  BY <1>1 DEF IndInv, TypeOK, watcherVars
<1>3. HoldsWhileWaiting' /\ VerdictDiscipline'
  BY <1>1 DEF IndInv, TypeOK, HoldsWhileWaiting, VerdictDiscipline, watcherVars
<1>4. Waiting(queue)'
  BY <1>1, StaysInOrder
<1>. QED BY <1>2, <1>3, <1>4 DEF IndInv

\* The job of a future completes it: all who listen get their microtask.  Or it is
\* dropped: they wait on.
LEMMA RunJobOK == ASSUME IndInv, NEW fate \in Fates, RunJob(fate) PROVE IndInv'
<1>1. PICK f \in Futures : f = Head(queue)
  BY HeadTailProperties DEF IndInv, TypeOK, RunJob
<1>2. /\ future' = [future EXCEPT ![f] = fate]
      /\ due' = IF fate = "dropped" THEN due ELSE due \cup Listeners(f)
      /\ UNCHANGED <<lifecycle, running, at, of, polls, timeouts, onDispose, verdict, late>>
  BY <1>1 DEF RunJob
<1>3. TypeOK'
  <2>1. queue' \in Seq(Futures)
    BY HeadTailProperties DEF IndInv, TypeOK, RunJob
  <2>. QED BY <1>2, <2>1 DEF IndInv, TypeOK, Listeners
<1>4. HoldsWhileWaiting'
  BY <1>2 DEF IndInv, TypeOK, HoldsWhileWaiting, VerdictDiscipline, Listeners
<1>5. VerdictDiscipline'
  <2>. SUFFICES ASSUME NEW w \in Watchers
                PROVE  /\ at[w] = "unused" => w \notin due'
                       /\ w \in due' => future'[of[w]] \in Outcomes
    BY <1>2 DEF IndInv, VerdictDiscipline
  <2>1. at[w] = "unused" => w \notin Listeners(f)
    BY DEF Listeners, IndInv, VerdictDiscipline
  <2>2. future[f] = "queued" /\ (fate = "dropped" \/ fate \in Outcomes)
    BY <1>1, <1>2, LeavesInOrder DEF RunJob, IndInv, TypeOK, Fates
  <2>3. w \in due => of[w] \in Futures /\ of[w] # f
    BY <2>2 DEF IndInv, TypeOK, VerdictDiscipline, Outcomes
  <2>4. CASE fate = "dropped"
    BY <1>2, <2>3, <2>4 DEF IndInv, TypeOK, VerdictDiscipline, Listeners
  <2>5. CASE fate # "dropped"
    BY <1>2, <2>1, <2>2, <2>5 DEF IndInv, TypeOK, VerdictDiscipline, Listeners
  <2>. QED BY <2>1, <2>4, <2>5 DEF IndInv, TypeOK, VerdictDiscipline, Listeners
<1>6. Waiting(queue)'
  BY <1>1, <1>2, LeavesInOrder DEF RunJob, IndInv, TypeOK
<1>. QED BY <1>3, <1>4, <1>5, <1>6 DEF IndInv

LEMMA WatchOK ==
  ASSUME IndInv, NEW w \in Watchers, NEW f \in Futures, NEW timed \in BOOLEAN,
         Watch(w, f, timed)
  PROVE  IndInv'
<1>1. TypeOK'
  BY DEF IndInv, TypeOK, Watch, engineVars
<1>2. future[f] \in {"pending", "queued", "gone"} \cup Fates
  BY DEF IndInv, TypeOK, Watch
<1>3. HoldsWhileWaiting'
  BY <1>2 DEF IndInv, TypeOK, HoldsWhileWaiting, Watch, engineVars, Active, Fates
<1>4. VerdictDiscipline'
  BY DEF IndInv, TypeOK, VerdictDiscipline, Watch, engineVars
<1>5. Waiting(queue)'
  BY StaysInOrder DEF Watch, engineVars
<1>. QED BY <1>1, <1>3, <1>4, <1>5 DEF IndInv

\* A watcher that is completed leaves the others as they are.
LEMMA CompleteOK ==
  ASSUME IndInv, NEW w \in Watchers, at[w] # "unused",
         NEW answer \in Answers, Complete({w}, answer),
         due' = due \ {w} \/ (due' = due /\ w \in timeouts),
         UNCHANGED <<engineVars, of, late>>
  PROVE  IndInv'
<1>1. TypeOK'
  BY DEF IndInv, TypeOK, Complete, Uncompleted, Stopped, engineVars
<1>2. Uncompleted({w}) = IF at[w] = "waiting" THEN {w} ELSE {}
  BY DEF IndInv, TypeOK, VerdictDiscipline, Uncompleted
<1>3. \A v \in Watchers : v # w => at'[v] = at[v] /\ verdict'[v] = verdict[v]
  BY <1>2 DEF Complete, IndInv, TypeOK
<1>4. at'[w] = "done" /\ verdict'[w] # "none"
  BY <1>2 DEF Complete, IndInv, TypeOK, VerdictDiscipline, Answers
<1>5. \A v \in Watchers : v # w => v \in due <=> v \in due'
  OBVIOUS
<1>6. HoldsWhileWaiting'
  <2>. SUFFICES ASSUME NEW v \in Watchers
                PROVE  /\ at'[v] = "waiting" =>
                            /\ lifecycle # "disposed"
                            /\ v \in polls' \cap onDispose'
                            /\ \/ v \in due' \/ future[of[v]] \in {"pending", "queued", "dropped"}
                               \/ future[of[v]] = "gone" /\ v \in late
                       /\ at'[v] # "waiting" => v \notin polls' \cup timeouts' \cup onDispose'
    BY DEF HoldsWhileWaiting, engineVars
  <2>1. CASE v = w
    BY <1>2, <1>4, <2>1 DEF IndInv, TypeOK, HoldsWhileWaiting, Complete, Stopped
  <2>2. CASE v # w
    BY <1>2, <1>3, <1>5, <2>2 DEF IndInv, HoldsWhileWaiting, Complete, Stopped
  <2>. QED BY <2>1, <2>2
<1>7. VerdictDiscipline'
  BY <1>3, <1>4, <1>5 DEF IndInv, VerdictDiscipline, engineVars
<1>8. Waiting(queue)'
  BY StaysInOrder DEF engineVars
<1>. QED BY <1>1, <1>6, <1>7, <1>8 DEF IndInv

LEMMA ArriveOK == ASSUME IndInv, NEW w \in Watchers, Arrive(w) PROVE IndInv'
<1>1. PICK answer \in Answers : answer = Encoded(future[of[w]])
  BY DEF Encoded, Answers
<1>2. at[w] # "unused"
  BY DEF IndInv, VerdictDiscipline, Arrive
<1>. QED BY <1>1, <1>2, CompleteOK DEF Arrive

LEMMA TimeOutOK == ASSUME IndInv, NEW w \in Watchers, TimeOut(w) PROVE IndInv'
<1>1. at[w] # "unused"
  BY DEF IndInv, HoldsWhileWaiting, TimeOut
<1>2. "timeout" \in Answers
  BY DEF Answers
<1>. QED BY <1>1, <1>2, CompleteOK DEF TimeOut

\* All who wait have their callback, so close() leaves nobody behind.
LEMMA EndCloseOK == ASSUME IndInv, EndClose PROVE IndInv'
<1>1. \A w \in Watchers : w \in Uncompleted(Callbacks) <=> at[w] = "waiting"
  BY DEF IndInv, TypeOK, HoldsWhileWaiting, VerdictDiscipline, Uncompleted, Callbacks
<1>2. TypeOK'
  <2>1. queue' \in Seq(Futures)
    BY EmptySeq DEF EndClose
  <2>. QED BY <2>1 DEF IndInv, TypeOK, EndClose, Answers
<1>3. \A w \in Watchers : at'[w] # "waiting"
  BY <1>1 DEF IndInv, TypeOK, EndClose
<1>4. HoldsWhileWaiting'
  BY <1>3 DEF HoldsWhileWaiting, EndClose
<1>5. VerdictDiscipline'
  <2>. SUFFICES ASSUME NEW w \in Watchers
                PROVE  /\ at'[w] = "unused"  => w \notin due
                       /\ at'[w] # "unused" <=> of[w] \in Futures
                       /\ at'[w] = "done"   <=> verdict'[w] # "none"
                       /\ w \in due => future'[of[w]] \in Outcomes
    BY DEF VerdictDiscipline, EndClose
  <2>1. w \in due => of[w] \in Futures /\ future[of[w]] \in Outcomes
    BY DEF IndInv, VerdictDiscipline
  <2>2. w \in due => future'[of[w]] = future[of[w]]
    BY <2>1 DEF EndClose, Unsettled, Outcomes
  <2>. QED BY <1>1, <2>1, <2>2 DEF IndInv, TypeOK, VerdictDiscipline, EndClose
<1>6. Waiting(queue)'
  BY EmptySeq DEF EndClose, Waiting
<1>. QED BY <1>2, <1>4, <1>5, <1>6 DEF IndInv

LEMMA NextOK == IndInv /\ [Next]_vars => IndInv'
<1>. SUFFICES ASSUME IndInv, [Next]_vars PROVE IndInv'
  OBVIOUS
<1>1. CASE UNCHANGED vars
  BY <1>1 DEF vars, engineVars, watcherVars, IndInv, TypeOK, HoldsWhileWaiting,
              VerdictDiscipline, Waiting
<1>2. CASE Next
  BY <1>2, CreateOK, SettleOK, EngineOK, RunJobOK, WatchOK, ArriveOK, TimeOutOK,
     EndCloseOK DEF Next
<1>. QED BY <1>1, <1>2

LEMMA Inductive == Spec => []IndInv
BY InitOK, NextOK, PTL DEF Spec

----------------------------------------------------------------------------
(* The refinement. *)

Mapped == [w \in Watchers |->
             IF at[w] = "waiting" THEN "open"
             ELSE IF at[w] = "unused" THEN "unused" ELSE verdict[w]]

LEMMA InitMaps == Init => Answered!Init
BY DEF Init, Answered!Init

\* A step that changes no place and no verdict is a stutter.
LEMMA StutterMaps ==
  ASSUME UNCHANGED <<at, verdict>>, (lifecycle' = "disposed") <=> (lifecycle = "disposed")
  PROVE  UNCHANGED Answered!vars
BY DEF Answered!vars

LEMMA WatchMaps ==
  ASSUME IndInv, NEW w \in Watchers, NEW f \in Futures, NEW timed \in BOOLEAN,
         Watch(w, f, timed)
  PROVE  Answered!Open(w)
BY DEF IndInv, TypeOK, Watch, engineVars, Active, Answered!Open

\* A completion answers the watcher that waits, and is a stutter for one that does
\* not.
LEMMA CompleteMaps ==
  ASSUME IndInv, NEW w \in Watchers, at[w] # "unused",
         NEW answer \in Answers \ {"cancelled"}, Complete({w}, answer),
         lifecycle' = lifecycle
  PROVE  Answered!Answer(w, answer) \/ UNCHANGED Answered!vars
<1>1. Uncompleted({w}) = IF at[w] = "waiting" THEN {w} ELSE {}
  BY DEF IndInv, TypeOK, VerdictDiscipline, Uncompleted
<1>2. CASE at[w] = "waiting"
  <2>1. at' = [at EXCEPT ![w] = "done"] /\ verdict' = [verdict EXCEPT ![w] = answer]
    BY <1>1, <1>2 DEF Complete, IndInv, TypeOK
  <2>. QED BY <1>2, <2>1 DEF IndInv, TypeOK, Answered!Answer
<1>3. CASE at[w] # "waiting"
  <2>1. at' = at /\ verdict' = verdict
    BY <1>1, <1>3 DEF Complete, IndInv, TypeOK
  <2>. QED BY <2>1, StutterMaps
<1>. QED BY <1>2, <1>3

LEMMA EndCloseMaps == ASSUME IndInv, EndClose PROVE Answered!CancelAll
<1>1. \A w \in Watchers : w \in Uncompleted(Callbacks) <=> at[w] = "waiting"
  BY DEF IndInv, TypeOK, HoldsWhileWaiting, VerdictDiscipline, Uncompleted, Callbacks
<1>2. Mapped' = [w \in Watchers |-> IF Mapped[w] = "open" THEN "cancelled" ELSE Mapped[w]]
  <2>1. \A w \in Watchers : Mapped'[w] = IF Mapped[w] = "open" THEN "cancelled" ELSE Mapped[w]
    <3>. TAKE w \in Watchers
    <3>1. CASE at[w] = "waiting"
      BY <1>1, <3>1 DEF Mapped, EndClose
    <3>2. CASE at[w] # "waiting"
      <4>1. at'[w] = at[w] /\ verdict'[w] = verdict[w]
        BY <1>1, <3>2 DEF EndClose
      <4>2. verdict[w] # "open"
        BY DEF IndInv, TypeOK, Answers
      <4>. QED BY <3>2, <4>1, <4>2 DEF Mapped
    <3>. QED BY <3>1, <3>2
  <2>. QED BY <2>1 DEF Mapped
<1>3. (lifecycle = "disposed")' \in {lifecycle = "disposed", TRUE}
  BY DEF EndClose, Active
<1>. QED BY <1>2, <1>3 DEF Mapped, Answered!CancelAll

LEMMA StepMaps == IndInv /\ [Next]_vars => [Answered!Next]_(Answered!vars)
<1>. SUFFICES ASSUME IndInv, [Next]_vars
              PROVE  Answered!Next \/ UNCHANGED Answered!vars
  OBVIOUS
<1>1. CASE UNCHANGED vars
  BY <1>1, StutterMaps DEF vars, engineVars, watcherVars
<1>2. ASSUME NEW f \in Futures, Create(f) \/ Settle(f)
      PROVE  UNCHANGED Answered!vars
  BY <1>2, StutterMaps DEF Create, Settle, watcherVars
<1>3. ASSUME \/ \E w \in Watchers : Tick(w)
             \/ Dispatch \/ JobsEnd
             \/ \E fate \in Fates : RunJob(fate)
      PROVE  UNCHANGED Answered!vars
  BY <1>3, StutterMaps DEF Tick, Dispatch, JobsEnd, RunJob, watcherVars
<1>4. ASSUME NEW then \in {"active", "disposing"}, StartClose(then)
      PROVE  UNCHANGED Answered!vars
  BY <1>4, StutterMaps DEF StartClose, Active, watcherVars
<1>5. ASSUME NEW w \in Watchers, NEW f \in Futures, NEW timed \in BOOLEAN,
             Watch(w, f, timed)
      PROVE  Answered!Next
  BY <1>5, WatchMaps DEF Answered!Next
<1>6. ASSUME NEW w \in Watchers, Arrive(w)
      PROVE  Answered!Next \/ UNCHANGED Answered!vars
  <2>1. PICK answer \in Answers \ {"cancelled"} : answer = Encoded(future[of[w]])
    BY DEF Encoded, Answers
  <2>2. at[w] # "unused" /\ lifecycle' = lifecycle /\ Complete({w}, answer)
    BY <1>6, <2>1 DEF IndInv, VerdictDiscipline, Arrive, engineVars
  <2>3. Answered!Answer(w, answer) \/ UNCHANGED Answered!vars
    BY <2>2, CompleteMaps
  <2>. QED BY <2>3 DEF Answered!Next, Answered!Answers, Answers
<1>7. ASSUME NEW w \in Watchers, TimeOut(w)
      PROVE  Answered!Next \/ UNCHANGED Answered!vars
  <2>1. at[w] # "unused" /\ lifecycle' = lifecycle /\ Complete({w}, "timeout")
    BY <1>7 DEF IndInv, HoldsWhileWaiting, TimeOut, engineVars
  <2>2. "timeout" \in Answers \ {"cancelled"} /\ "timeout" \in Answered!Answers
    BY DEF Answers, Answered!Answers
  <2>3. Answered!Answer(w, "timeout") \/ UNCHANGED Answered!vars
    BY <2>1, <2>2, CompleteMaps
  <2>. QED BY <2>2, <2>3 DEF Answered!Next
<1>8. ASSUME EndClose PROVE Answered!Next
  BY <1>8, EndCloseMaps DEF Answered!Next
<1>. QED BY <1>1, <1>2, <1>3, <1>4, <1>5, <1>6, <1>7, <1>8 DEF Next

\* A step of Completion keeps its invariant.
LEMMA CompletionKept ==
  ASSUME Answered!TypeOK, Answered!NoneOpenWhenDown, [Answered!Next]_(Answered!vars)
  PROVE  (Answered!TypeOK /\ Answered!NoneOpenWhenDown)'
<1>. USE DEF Answered!TypeOK, Answered!NoneOpenWhenDown, Answered!Status, Answered!Answers
<1>1. CASE \E w \in Watchers : Answered!Open(w)
  BY <1>1 DEF Answered!Open
<1>2. CASE \E w \in Watchers : Answered!Refuse(w)
  BY <1>2 DEF Answered!Refuse
<1>3. CASE \E w \in Watchers, answer \in Answered!Answers : Answered!Answer(w, answer)
  BY <1>3 DEF Answered!Answer
<1>4. CASE Answered!CancelAll
  <2>1. Answered!TypeOK'
    BY <1>4 DEF Answered!CancelAll
  <2>2. Answered!NoneOpenWhenDown'
    BY <1>4 DEF Answered!CancelAll
  <2>. QED BY <2>1, <2>2
<1>5. CASE UNCHANGED Answered!vars
  BY <1>5 DEF Answered!vars
<1>. QED BY <1>1, <1>2, <1>3, <1>4, <1>5 DEF Answered!Next

LEMMA CompletionInvariant ==
  Answered!Spec => [](Answered!TypeOK /\ Answered!NoneOpenWhenDown)
<1>1. Answered!Init => Answered!TypeOK /\ Answered!NoneOpenWhenDown
  BY DEF Answered!Init, Answered!TypeOK, Answered!NoneOpenWhenDown, Answered!Status
<1>. QED BY <1>1, CompletionKept, PTL DEF Answered!Spec

----------------------------------------------------------------------------
(* The theorems. *)

\* The variables of the watchers of Dart futures keep their types.
THEOREM TypeCorrect == Spec => []TypeOK
<1>1. IndInv => TypeOK
  BY DEF IndInv
<1>. QED BY <1>1, Inductive, PTL

\* A watcher of a QuickJS promise has its Timer, its callback and an answer that
\* can still come exactly as long as it waits, through close() and dispose().
THEOREM HoldingsCorrect == Spec => []HoldsWhileWaiting
<1>1. IndInv => HoldsWhileWaiting
  BY DEF IndInv
<1>. QED BY <1>1, Inductive, PTL

\* Answer, timeout and close() race for a watcher, one wins for good, and nobody
\* waits for a disposed runtime: the watchers implement Completion.
THEOREM RefinesCompletion == Spec => ImplementsCompletion
BY Inductive, InitMaps, StepMaps, PTL DEF Spec, ImplementsCompletion, Answered!Spec

\* When the QuickJS runtime is disposed, no watcher of a future waits any more.
THEOREM NobodyWaitsWhenDown == Spec => []Answered!NoneOpenWhenDown
BY RefinesCompletion, CompletionInvariant, PTL DEF ImplementsCompletion

\* The answer a watcher of a future got is never replaced by a microtask, a timeout,
\* a close() or a dispose() that comes later.
THEOREM AnswersStay == Spec => Answered!AnswersAreFinal
<1>1. Answered!TypeOK /\ [Answered!Next]_(Answered!vars) =>
        [Answered!AnswersAreFinal!1]_(Answered!vars)
  <2>. SUFFICES ASSUME Answered!TypeOK, Answered!Next PROVE Answered!AnswersAreFinal!1
    OBVIOUS
  <2>. QED BY DEF Answered!TypeOK, Answered!Next, Answered!Open, Answered!Refuse,
                  Answered!Answer, Answered!CancelAll
<1>. QED
  BY <1>1, RefinesCompletion, CompletionInvariant, PTL
  DEF ImplementsCompletion, Answered!Spec, Answered!AnswersAreFinal
=============================================================================
