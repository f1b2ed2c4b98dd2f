------------------------- MODULE PromiseWatchProofs -------------------------
(***************************************************************************)
(* Proofs about PromiseWatch for any finite set of watchers: types, the    *)
(* shared table, what waiting and completed watchers hold, and that the    *)
(* watchers implement Completion.                                          *)
(***************************************************************************)
EXTENDS PromiseWatch, FiniteSetTheorems, TLAPS

Used == {w \in Watchers : at[w] # "unused"}

\* The count has passed every entry, and no more than the calls made so far.
CountDiscipline ==
  /\ count <= Cardinality(Used)
  /\ \A i \in Indexes : i >= count => table[i] = Nobody

\* While the table lives, watchers that are registered and their entries find
\* each other.
TableDiscipline ==
  /\ \A w \in Watchers :
       at[w] \in {"registering", "waiting", "polling"} =>
         index[w] \in Indexes /\ (active => table[index[w]] = w)
  /\ active => \A i \in Indexes :
       table[i] # Nobody =>
         /\ at[table[i]] \in {"registering", "waiting", "polling"}
         /\ index[table[i]] = i

\* Where each thing that a watcher holds can be found.
HoldingDiscipline ==
  /\ ~active => retained = {} /\ onDispose = {} /\ polls = {} /\ timeouts = {}
  /\ \A w \in Watchers :
       /\ w \in retained  => at[w] \notin {"unused", "done"}
       /\ w \in onDispose => at[w] \in {"waiting", "polling"}
       /\ w \in polls \cup timeouts => at[w] \in {"waiting", "polling", "cleaning"}
       /\ at[w] = "waiting" => active
       /\ active /\ at[w] = "registering" => w \in retained
       /\ active /\ at[w] \in {"waiting", "polling"} =>
            w \in retained \cap onDispose \cap polls

\* A watcher has its answer from the cleanup on; a tick that is overtaken by
\* dispose() finds the watcher completed.
VerdictDiscipline ==
  \A w \in Watchers :
    /\ at[w] \in {"unused", "registering", "waiting"} => verdict[w] = Pending
    /\ at[w] \in {"cleaning", "done"} => verdict[w] # Pending
    /\ at[w] = "polling" => (verdict[w] = Pending <=> active)
    /\ verdict[w] # Pending => verdict[w].kind # "none"

IndInv ==
  /\ TypeOK
  /\ CountDiscipline
  /\ TableDiscipline
  /\ HoldingDiscipline
  /\ VerdictDiscipline
  /\ OwnAnswer

----------------------------------------------------------------------------
LEMMA SizeIsNatural == Cardinality(Watchers) \in Nat
BY FiniteAssumption, FS_CardinalityType DEF FiniteAssumption

\* A watcher's first step makes one more used watcher, and finds room.
LEMMA OneMoreUsed ==
  ASSUME TypeOK, CountDiscipline, NEW w \in Watchers, at[w] = "unused",
         NEW p \in Places \ {"unused"}, at' = [at EXCEPT ![w] = p]
  PROVE  /\ count \in Indexes
         /\ count + 1 \in 0 .. Cardinality(Watchers)
         /\ count + 1 <= Cardinality(Used')
<1>1. Used \subseteq Watchers /\ Used' \subseteq Watchers /\ w \notin Used
  BY DEF Used
<1>2. Used' = Used \cup {w}
  BY DEF Used, TypeOK
<1>3. IsFiniteSet(Used) /\ Cardinality(Used) \in Nat
  BY <1>1, FiniteAssumption, FS_Subset, FS_CardinalityType DEF FiniteAssumption
<1>4. Cardinality(Used') = Cardinality(Used) + 1
  BY <1>1, <1>2, <1>3, FS_AddElement
<1>5. Cardinality(Used') <= Cardinality(Watchers)
  BY <1>1, FiniteAssumption, FS_Subset DEF FiniteAssumption
<1>. QED
  BY <1>3, <1>4, <1>5, SizeIsNatural DEF CountDiscipline, TypeOK, Indexes

\* No later step of a watcher changes the set of used watchers.
LEMMA SameUsed ==
  ASSUME TypeOK, \A w \in Watchers : at[w] = "unused" <=> at'[w] = "unused"
  PROVE  Used' = Used
BY DEF Used

----------------------------------------------------------------------------
LEMMA SettleOK ==
  ASSUME IndInv, NEW w \in Watchers, NEW how \in {"fulfilled", "rejected"},
         Settle(w, how)
  PROVE  IndInv'
<1>1. TypeOK'
  BY DEF IndInv, TypeOK, Settle, handlerVars
<1>2. Used' = Used
  BY SameUsed DEF IndInv, Settle
<1>3. OwnAnswer'
  BY DEF IndInv, TypeOK, OwnAnswer, Settle, handlerVars
<1>. QED
  BY <1>1, <1>2, <1>3 DEF IndInv, CountDiscipline, TableDiscipline,
     HoldingDiscipline, VerdictDiscipline, Settle, handlerVars

LEMMA RegisterOK ==
  ASSUME IndInv, NEW w \in Watchers, Register(w)
  PROVE  IndInv'
<1>1. /\ count \in Indexes /\ count + 1 \in 0 .. Cardinality(Watchers)
      /\ count + 1 <= Cardinality(Used')
  BY OneMoreUsed DEF IndInv, Register, Places
<1>2. TypeOK'
  BY <1>1 DEF IndInv, TypeOK, Register, NextIndex, Places
<1>3. CountDiscipline'
  BY <1>1, SizeIsNatural
  DEF IndInv, TypeOK, CountDiscipline, Register, NextIndex, Indexes
<1>4. TableDiscipline'
  <2>1. table[count] = Nobody
    BY <1>1 DEF IndInv, CountDiscipline, Indexes
  <2>2. \A v \in Watchers :
          at[v] \in {"registering", "waiting", "polling"} => index[v] # count
    BY <2>1, NobodyAssumption
    DEF IndInv, TableDiscipline, Register, NobodyAssumption
  <2>3. \A i \in Indexes : table[i] # w
    BY NobodyAssumption
    DEF IndInv, TableDiscipline, Register, NobodyAssumption
  <2>. QED
    BY <1>1, <2>2, <2>3 DEF IndInv, TypeOK, TableDiscipline, Register, NextIndex
<1>5. HoldingDiscipline' /\ VerdictDiscipline' /\ OwnAnswer'
  BY DEF IndInv, TypeOK, HoldingDiscipline, VerdictDiscipline, OwnAnswer, Register
<1>. QED BY <1>2, <1>3, <1>4, <1>5 DEF IndInv

LEMMA RegisterFailsOK ==
  ASSUME IndInv, NEW w \in Watchers, RegisterFails(w)
  PROVE  IndInv'
<1>1. /\ count \in Indexes /\ count + 1 \in 0 .. Cardinality(Watchers)
      /\ count + 1 <= Cardinality(Used')
  BY OneMoreUsed DEF IndInv, RegisterFails, Places
<1>2. TypeOK'
  BY <1>1 DEF IndInv, TypeOK, RegisterFails, Places, Kinds
<1>3. CountDiscipline'
  BY <1>1, SizeIsNatural
  DEF IndInv, TypeOK, CountDiscipline, RegisterFails, Indexes
<1>4. TableDiscipline'
  BY DEF IndInv, TypeOK, TableDiscipline, RegisterFails
<1>5. HoldingDiscipline' /\ VerdictDiscipline' /\ OwnAnswer'
  BY DEF IndInv, TypeOK, HoldingDiscipline, VerdictDiscipline, OwnAnswer,
         RegisterFails, Pending
<1>. QED BY <1>2, <1>3, <1>4, <1>5 DEF IndInv

LEMMA AttachOK ==
  ASSUME IndInv, NEW w \in Watchers, NEW timed \in BOOLEAN, Attach(w, timed)
  PROVE  IndInv'
<1>1. TypeOK'
  BY DEF IndInv, TypeOK, Attach, Places, Kinds
<1>2. Used' = Used
  BY SameUsed DEF IndInv, TypeOK, Attach
<1>3. CountDiscipline'
  BY <1>2 DEF IndInv, CountDiscipline, Attach
<1>4. TableDiscipline'
  BY DEF IndInv, TypeOK, TableDiscipline, Attach
<1>5. HoldingDiscipline'
  BY DEF IndInv, TypeOK, HoldingDiscipline, Attach
<1>6. VerdictDiscipline' /\ OwnAnswer'
  BY DEF IndInv, TypeOK, VerdictDiscipline, OwnAnswer, Attach, Pending
<1>. QED BY <1>1, <1>3, <1>4, <1>5, <1>6 DEF IndInv

LEMMA TickOK == ASSUME IndInv, NEW w \in Watchers, Tick(w) PROVE IndInv'
<1>1. at[w] = "waiting"
  BY DEF IndInv, HoldingDiscipline, Tick, Quiet
<1>2. TypeOK'
  BY DEF IndInv, TypeOK, Tick, handlerVars, Places
<1>3. Used' = Used
  BY <1>1, SameUsed DEF IndInv, TypeOK, Tick
<1>4. CountDiscipline'
  BY <1>3 DEF IndInv, CountDiscipline, Tick, handlerVars
<1>5. TableDiscipline' /\ HoldingDiscipline'
  BY <1>1 DEF IndInv, TypeOK, TableDiscipline, HoldingDiscipline, Tick, handlerVars
<1>6. VerdictDiscipline' /\ OwnAnswer'
  BY <1>1 DEF IndInv, TypeOK, VerdictDiscipline, HoldingDiscipline, OwnAnswer,
              Tick, handlerVars
<1>. QED BY <1>2, <1>4, <1>5, <1>6 DEF IndInv

----------------------------------------------------------------------------
\* What cleanup() makes of a watcher that is not completed; the caller says that
\* the result is true.
LEMMA CleanupOK ==
  ASSUME IndInv, NEW w \in Watchers, at[w] \in {"waiting", "polling"},
         verdict[w] = Pending,
         NEW result \in [kind : {"value", "error", "timeout"}, of : {w, Nobody}],
         result.kind = "value" => promise[w] = "fulfilled" /\ result.of = w,
         StartCleanup(w, result),
         UNCHANGED <<active, promise, index, count, retained, polls>>,
         timeouts' \in {timeouts, timeouts \ {w}}
  PROVE  IndInv'
<1>1. /\ at' = [at EXCEPT ![w] = "cleaning"]
      /\ verdict' = [verdict EXCEPT ![w] = result]
      /\ onDispose' = onDispose \ {w}
      /\ table' = IF active THEN [table EXCEPT ![index[w]] = Nobody] ELSE table
  BY DEF StartCleanup, UnlessCompleted
<1>2. active
  BY DEF IndInv, VerdictDiscipline, HoldingDiscipline
<1>3. index[w] \in Indexes /\ table[index[w]] = w
  BY <1>2 DEF IndInv, TableDiscipline
<1>4. TypeOK'
  BY <1>1, <1>3 DEF IndInv, TypeOK, Places, Kinds
<1>5. CountDiscipline'
  <2>1. Used' = Used
    BY <1>1, SameUsed DEF IndInv, TypeOK
  <2>. QED BY <1>1, <1>2, <1>3, <2>1 DEF IndInv, TypeOK, CountDiscipline
<1>6. TableDiscipline'
  BY <1>1, <1>2, <1>3, NobodyAssumption
  DEF IndInv, TypeOK, TableDiscipline, NobodyAssumption
<1>7. HoldingDiscipline'
  BY <1>1, <1>2 DEF IndInv, TypeOK, HoldingDiscipline
<1>8. VerdictDiscipline' /\ OwnAnswer'
  BY <1>1, <1>2 DEF IndInv, TypeOK, VerdictDiscipline, OwnAnswer, Pending
<1>. QED BY <1>4, <1>5, <1>6, <1>7, <1>8 DEF IndInv

\* The answer of a tick is that of the watcher's own promise.
LEMMA AnswerIsOwn ==
  ASSUME IndInv, NEW w \in Watchers, at[w] = "polling"
  PROVE  /\ Answer(w) \in [kind : {"value", "error", "timeout"}, of : {w, Nobody}]
         /\ Answer(w).kind = "value" => promise[w] = "fulfilled" /\ Answer(w).of = w
BY DEF IndInv, TableDiscipline, Answer

LEMMA ObserveOK == ASSUME IndInv, NEW w \in Watchers, Observe(w) PROVE IndInv'
<1>1. CASE at' = [at EXCEPT ![w] = "waiting"] /\ UNCHANGED <<verdict, onDispose, table>> /\ active
  <2>1. at[w] = "polling" /\ UNCHANGED <<active, promise, index, count, retained, polls, timeouts>>
    BY DEF Observe
  <2>2. TypeOK'
    BY <1>1, <2>1 DEF IndInv, TypeOK, Places
  <2>3. Used' = Used
    BY <1>1, <2>1, SameUsed DEF IndInv, TypeOK
  <2>4. CountDiscipline'
    BY <1>1, <2>1, <2>3 DEF IndInv, CountDiscipline
  <2>5. TableDiscipline' /\ HoldingDiscipline'
    BY <1>1, <2>1 DEF IndInv, TypeOK, TableDiscipline, HoldingDiscipline
  <2>6. VerdictDiscipline' /\ OwnAnswer'
    BY <1>1, <2>1 DEF IndInv, TypeOK, VerdictDiscipline, OwnAnswer
  <2>. QED BY <2>2, <2>4, <2>5, <2>6 DEF IndInv
<1>2. CASE StartCleanup(w, Answer(w)) /\ verdict[w] = Pending
  BY <1>2, AnswerIsOwn, CleanupOK DEF Observe
<1>3. CASE StartCleanup(w, Answer(w)) /\ verdict[w] # Pending
  <2>1. /\ at[w] = "polling" /\ at' = [at EXCEPT ![w] = "done"]
        /\ UNCHANGED <<active, promise, index, count, retained, polls, timeouts,
                       verdict, onDispose, table>>
    BY <1>3 DEF Observe, StartCleanup, UnlessCompleted
  <2>2. ~active
    BY <1>3, <2>1 DEF IndInv, VerdictDiscipline
  <2>3. TypeOK'
    BY <2>1 DEF IndInv, TypeOK, Places
  <2>4. Used' = Used
    BY <2>1, SameUsed DEF IndInv, TypeOK
  <2>5. CountDiscipline'
    BY <2>1, <2>4 DEF IndInv, CountDiscipline
  <2>6. TableDiscipline' /\ HoldingDiscipline'
    BY <2>1, <2>2 DEF IndInv, TypeOK, TableDiscipline, HoldingDiscipline
  <2>7. VerdictDiscipline' /\ OwnAnswer'
    BY <1>3, <2>1 DEF IndInv, TypeOK, VerdictDiscipline, OwnAnswer
  <2>. QED BY <2>3, <2>5, <2>6, <2>7 DEF IndInv
<1>. QED BY <1>1, <1>2, <1>3 DEF Observe

LEMMA TimeOutOK == ASSUME IndInv, NEW w \in Watchers, TimeOut(w) PROVE IndInv'
<1>1. at[w] = "waiting" /\ verdict[w] = Pending
  BY DEF IndInv, HoldingDiscipline, VerdictDiscipline, TimeOut, Quiet
<1>. DEFINE result == [kind |-> "timeout", of |-> Nobody]
<1>2. /\ result \in [kind : {"value", "error", "timeout"}, of : {w, Nobody}]
      /\ result.kind # "value"
  OBVIOUS
<1>. QED BY <1>1, <1>2, CleanupOK DEF TimeOut

LEMMA EndCleanupOK == ASSUME IndInv, NEW w \in Watchers, EndCleanup(w) PROVE IndInv'
<1>1. TypeOK'
  BY DEF IndInv, TypeOK, EndCleanup, Stopped, Places
<1>2. Used' = Used
  BY SameUsed DEF IndInv, TypeOK, EndCleanup
<1>3. CountDiscipline'
  BY <1>2 DEF IndInv, CountDiscipline, EndCleanup
<1>4. TableDiscipline'
  <2>1. active => \A i \in Indexes : table[i] # w
    BY NobodyAssumption DEF IndInv, TableDiscipline, EndCleanup, NobodyAssumption
  <2>. QED BY <2>1 DEF IndInv, TypeOK, TableDiscipline, EndCleanup
<1>5. HoldingDiscipline'
  BY DEF IndInv, TypeOK, HoldingDiscipline, EndCleanup, Stopped
<1>6. VerdictDiscipline' /\ OwnAnswer'
  BY DEF IndInv, TypeOK, VerdictDiscipline, OwnAnswer, EndCleanup
<1>. QED BY <1>1, <1>3, <1>4, <1>5, <1>6 DEF IndInv

LEMMA DisposeOK == ASSUME IndInv, Dispose PROVE IndInv'
<1>1. TypeOK'
  BY DEF IndInv, TypeOK, Dispose, Places, Kinds
<1>2. Used' = Used
  BY SameUsed DEF IndInv, TypeOK, Dispose
<1>3. CountDiscipline'
  BY <1>2 DEF IndInv, CountDiscipline, Dispose
<1>4. TableDiscipline' /\ HoldingDiscipline'
  BY DEF IndInv, TypeOK, TableDiscipline, HoldingDiscipline, Dispose
<1>5. VerdictDiscipline' /\ OwnAnswer'
  BY DEF IndInv, TypeOK, HoldingDiscipline, VerdictDiscipline, OwnAnswer, Dispose, Pending
<1>. QED BY <1>1, <1>3, <1>4, <1>5 DEF IndInv

LEMMA ReEnableOK == ASSUME IndInv, ReEnable PROVE IndInv'
<1>1. TypeOK'
  BY SizeIsNatural DEF IndInv, TypeOK, ReEnable
<1>2. CountDiscipline'
  <2>1. Used' = Used
    BY SameUsed DEF IndInv, TypeOK, ReEnable
  <2>2. Cardinality(Used) \in Nat
    BY FiniteAssumption, FS_Subset, FS_CardinalityType DEF FiniteAssumption, Used
  <2>. QED BY <2>1, <2>2 DEF CountDiscipline, ReEnable
<1>3. TableDiscipline'
  BY DEF IndInv, TypeOK, TableDiscipline, ReEnable
<1>4. HoldingDiscipline' /\ VerdictDiscipline' /\ OwnAnswer'
  BY DEF IndInv, HoldingDiscipline, VerdictDiscipline, OwnAnswer, ReEnable
<1>. QED BY <1>1, <1>2, <1>3, <1>4 DEF IndInv

LEMMA StutterOK == ASSUME IndInv, UNCHANGED vars PROVE IndInv'
BY DEF IndInv, TypeOK, CountDiscipline, Used, TableDiscipline, HoldingDiscipline,
       VerdictDiscipline, OwnAnswer, vars, handlerVars

LEMMA InitOK == Init => IndInv
<1>. SUFFICES ASSUME Init PROVE IndInv
  OBVIOUS
<1>1. TypeOK
  BY SizeIsNatural DEF Init, TypeOK, Places, Pending, Kinds
<1>2. CountDiscipline
  <2>1. Used = {}
    BY DEF Init, Used
  <2>. QED BY <2>1, FS_EmptySet DEF Init, CountDiscipline
<1>3. TableDiscipline /\ HoldingDiscipline /\ VerdictDiscipline /\ OwnAnswer
  BY DEF Init, TableDiscipline, HoldingDiscipline, VerdictDiscipline, OwnAnswer, Pending
<1>. QED BY <1>1, <1>2, <1>3 DEF IndInv

LEMMA StepOK == IndInv /\ [Next]_vars => IndInv'
<1>. SUFFICES ASSUME IndInv, [Next]_vars PROVE IndInv'
  OBVIOUS
<1>1. CASE \E w \in Watchers, how \in {"fulfilled", "rejected"} : Settle(w, how)
  BY <1>1, SettleOK
<1>2. CASE \E w \in Watchers : Register(w) \/ RegisterFails(w)
  BY <1>2, RegisterOK, RegisterFailsOK
<1>3. CASE \E w \in Watchers, timed \in BOOLEAN : Attach(w, timed)
  BY <1>3, AttachOK
<1>4. CASE \E w \in Watchers : Tick(w) \/ Observe(w) \/ TimeOut(w) \/ EndCleanup(w)
  BY <1>4, TickOK, ObserveOK, TimeOutOK, EndCleanupOK
<1>5. CASE Dispose \/ ReEnable
  BY <1>5, DisposeOK, ReEnableOK
<1>6. CASE UNCHANGED vars
  BY <1>6, StutterOK
<1>. QED BY <1>1, <1>2, <1>3, <1>4, <1>5, <1>6 DEF Next

LEMMA Inductive == Spec => []IndInv
BY InitOK, StepOK, PTL DEF Spec

----------------------------------------------------------------------------
\* The watchers implement Completion: what their steps come to under the mapping.

\* The status of a watcher in Completion.
StatusOf(w) == IF verdict[w] # Pending THEN verdict[w].kind
               ELSE IF at[w] \in {"unused", "registering"} THEN "unused"
               ELSE "open"
Mapped == [w \in Watchers |-> StatusOf(w)]

\* A watcher that gets its verdict leaves the others as they are.
LEMMA VerdictMaps ==
  ASSUME IndInv, NEW w \in Watchers, NEW result, result # Pending,
         NEW p, at' = [at EXCEPT ![w] = p],
         verdict' = [verdict EXCEPT ![w] = result]
  PROVE  Mapped' = [Mapped EXCEPT ![w] = result.kind]
<1>1. ASSUME NEW v \in Watchers
      PROVE  Mapped'[v] = IF v = w THEN result.kind ELSE Mapped[v]
  BY DEF IndInv, TypeOK, Mapped, StatusOf, Pending
<1>. QED BY <1>1 DEF Mapped

LEMMA FailureMapsToRefuse ==
  ASSUME IndInv, NEW w \in Watchers,
         RegisterFails(w) \/ \E timed \in BOOLEAN : Attach(w, timed) /\ ~active
  PROVE  Answered!Refuse(w)
<1>. DEFINE error == [kind |-> "error", of |-> Nobody]
<1>1. /\ at[w] \in {"unused", "registering"} /\ active' = active
      /\ at' = [at EXCEPT ![w] = "done"] /\ verdict' = [verdict EXCEPT ![w] = error]
  BY DEF RegisterFails, Attach
<1>2. verdict[w] = Pending
  BY <1>1 DEF IndInv, VerdictDiscipline
<1>3. Mapped[w] = "unused"
  BY <1>1, <1>2 DEF Mapped, StatusOf
<1>4. Mapped' = [Mapped EXCEPT ![w] = "error"]
  <2>1. error # Pending /\ error.kind = "error"
    BY DEF Pending
  <2>. HIDE DEF error
  <2>. QED BY <1>1, <2>1, VerdictMaps
<1>. QED BY <1>1, <1>3, <1>4 DEF Mapped, StatusOf, Answered!Refuse

LEMMA AttachMapsToOpen ==
  ASSUME IndInv, NEW w \in Watchers, NEW timed \in BOOLEAN, Attach(w, timed), active
  PROVE  Answered!Open(w)
<1>1. /\ at[w] = "registering" /\ active' = active /\ verdict' = verdict
      /\ at' = [at EXCEPT ![w] = "waiting"]
  BY DEF Attach
<1>2. verdict[w] = Pending
  BY <1>1 DEF IndInv, VerdictDiscipline
<1>3. Mapped[w] = "unused"
  BY <1>1, <1>2 DEF Mapped, StatusOf
<1>4. Mapped' = [Mapped EXCEPT ![w] = "open"]
  <2>1. ASSUME NEW v \in Watchers
        PROVE  Mapped'[v] = IF v = w THEN "open" ELSE Mapped[v]
    BY <1>1, <1>2 DEF IndInv, TypeOK, Mapped, StatusOf
  <2>. QED BY <2>1 DEF Mapped
<1>. QED BY <1>1, <1>3, <1>4 DEF Mapped, StatusOf, Answered!Open

LEMMA CleanupMapsToAnswer ==
  ASSUME IndInv, NEW w \in Watchers, at[w] \in {"waiting", "polling"},
         verdict[w] = Pending, active' = active,
         NEW result, result.kind \in {"value", "error", "timeout"},
         StartCleanup(w, result)
  PROVE  Answered!Answer(w, result.kind)
<1>1. /\ at' = [at EXCEPT ![w] = "cleaning"]
      /\ verdict' = [verdict EXCEPT ![w] = result]
  BY DEF StartCleanup, UnlessCompleted
<1>2. Mapped[w] = "open"
  BY DEF Mapped, StatusOf
<1>3. result # Pending
  BY DEF Pending
<1>4. Mapped' = [Mapped EXCEPT ![w] = result.kind]
  BY <1>1, <1>3, VerdictMaps
<1>. QED BY <1>2, <1>4 DEF Mapped, StatusOf, Answered!Answer

LEMMA DisposeMapsToCancelAll ==
  ASSUME IndInv, Dispose
  PROVE  Answered!CancelAll
<1>1. ASSUME NEW w \in Watchers
      PROVE  Mapped'[w] = IF Mapped[w] = "open" THEN "cancelled" ELSE Mapped[w]
  <2>. USE DEF IndInv, TypeOK, HoldingDiscipline, VerdictDiscipline
  <2>1. CASE w \in onDispose
    <3>1. at[w] \in {"waiting", "polling"} /\ verdict[w] = Pending
      BY <2>1 DEF Dispose
    <3>. QED BY <2>1, <3>1 DEF Dispose, Mapped, StatusOf, Pending
  <2>2. CASE w \notin onDispose
    <3>1. at[w] \notin {"waiting", "polling"}
      BY <2>2 DEF Dispose
    <3>2. verdict'[w] = verdict[w] /\ at'[w] = at[w]
      BY <2>2, <3>1 DEF Dispose
    <3>3. Mapped[w] # "open"
      <4>1. at[w] \in Places
        OBVIOUS
      <4>2. verdict[w] # Pending => verdict[w].kind \in Kinds
        OBVIOUS
      <4>. QED BY <3>1, <4>1, <4>2 DEF Mapped, StatusOf, Places, Kinds
    <3>. QED BY <3>2, <3>3 DEF Mapped, StatusOf
  <2>. QED BY <2>1, <2>2
<1>. QED BY <1>1 DEF Dispose, Mapped, StatusOf, Answered!CancelAll

LEMMA OtherStepsStutter ==
  ASSUME IndInv,
         \/ \E w \in Watchers, how \in {"fulfilled", "rejected"} : Settle(w, how)
         \/ \E w \in Watchers : Register(w) \/ Tick(w) \/ EndCleanup(w)
         \/ \E w \in Watchers :
              /\ at[w] = "polling" /\ UNCHANGED <<verdict, active>>
              /\ \/ at' = [at EXCEPT ![w] = "waiting"]
                 \/ at' = [at EXCEPT ![w] = "done"] /\ verdict[w] # Pending
         \/ ReEnable
         \/ UNCHANGED vars
  PROVE  UNCHANGED Answered!vars
<1>1. active' = active /\ Mapped' = Mapped
  <2>1. CASE \/ \E w \in Watchers, how \in {"fulfilled", "rejected"} : Settle(w, how)
             \/ ReEnable
             \/ UNCHANGED vars
    BY <2>1 DEF Settle, ReEnable, vars, handlerVars, Mapped, StatusOf
  <2>2. ASSUME NEW w \in Watchers, Register(w)
        PROVE  active' = active /\ Mapped' = Mapped
    BY <2>2 DEF IndInv, TypeOK, Register, Mapped, StatusOf
  <2>3. ASSUME NEW w \in Watchers, Tick(w)
        PROVE  active' = active /\ Mapped' = Mapped
    <3>1. at[w] = "waiting"
      BY <2>3 DEF IndInv, HoldingDiscipline, Tick, Quiet
    <3>. QED BY <2>3, <3>1 DEF IndInv, TypeOK, Tick, handlerVars, Mapped, StatusOf
  <2>4. ASSUME NEW w \in Watchers, EndCleanup(w)
        PROVE  active' = active /\ Mapped' = Mapped
    BY <2>4 DEF IndInv, TypeOK, VerdictDiscipline, EndCleanup, Mapped, StatusOf
  <2>5. ASSUME NEW w \in Watchers,
               /\ at[w] = "polling" /\ UNCHANGED <<verdict, active>>
               /\ \/ at' = [at EXCEPT ![w] = "waiting"]
                  \/ at' = [at EXCEPT ![w] = "done"] /\ verdict[w] # Pending
        PROVE  active' = active /\ Mapped' = Mapped
    BY <2>5 DEF IndInv, TypeOK, Mapped, StatusOf
  <2>. QED BY <2>1, <2>2, <2>3, <2>4, <2>5
<1>. QED BY <1>1 DEF Mapped, StatusOf, Answered!vars

LEMMA ObserveMaps ==
  ASSUME IndInv, NEW w \in Watchers, Observe(w)
  PROVE  Answered!Next \/ UNCHANGED Answered!vars
<1>1. at[w] = "polling" /\ active' = active
  BY DEF Observe
<1>2. CASE StartCleanup(w, Answer(w)) /\ verdict[w] = Pending
  <2>1. PICK result \in [kind : {"value", "error", "timeout"}, of : {w, Nobody}] :
          result = Answer(w)
    BY <1>1, AnswerIsOwn
  <2>2. StartCleanup(w, result)
    BY <1>2, <2>1
  <2>3. Answered!Answer(w, result.kind)
    BY <1>1, <1>2, <2>2, CleanupMapsToAnswer
  <2>. QED BY <2>3 DEF Answered!Next, Answered!Answers
<1>3. CASE StartCleanup(w, Answer(w)) /\ verdict[w] # Pending
  <2>1. at' = [at EXCEPT ![w] = "done"] /\ verdict' = verdict
    BY <1>3 DEF StartCleanup, UnlessCompleted
  <2>. QED BY <1>1, <1>3, <2>1, OtherStepsStutter
<1>4. CASE at' = [at EXCEPT ![w] = "waiting"] /\ verdict' = verdict
  BY <1>1, <1>4, OtherStepsStutter
<1>. QED BY <1>2, <1>3, <1>4 DEF Observe

LEMMA TimeOutMaps ==
  ASSUME IndInv, NEW w \in Watchers, TimeOut(w)
  PROVE  Answered!Next
<1>. DEFINE result == [kind |-> "timeout", of |-> Nobody]
<1>1. at[w] = "waiting" /\ verdict[w] = Pending
  BY DEF IndInv, HoldingDiscipline, VerdictDiscipline, TimeOut, Quiet
<1>2. result.kind = "timeout" /\ StartCleanup(w, result) /\ active' = active
  BY DEF TimeOut
<1>3. Answered!Answer(w, "timeout")
  <2>. HIDE DEF result
  <2>. QED BY <1>1, <1>2, CleanupMapsToAnswer
<1>. QED BY <1>3 DEF Answered!Next, Answered!Answers

LEMMA StepMaps == IndInv /\ [Next]_vars => [Answered!Next]_(Answered!vars)
<1>. SUFFICES ASSUME IndInv, [Next]_vars
              PROVE  Answered!Next \/ UNCHANGED Answered!vars
  OBVIOUS
<1>1. CASE \/ \E w \in Watchers : RegisterFails(w)
           \/ ~active /\ \E w \in Watchers, timed \in BOOLEAN : Attach(w, timed)
  BY <1>1, FailureMapsToRefuse DEF Answered!Next
<1>2. CASE active /\ \E w \in Watchers, timed \in BOOLEAN : Attach(w, timed)
  BY <1>2, AttachMapsToOpen DEF Answered!Next
<1>3. CASE \E w \in Watchers : Observe(w)
  BY <1>3, ObserveMaps
<1>4. CASE \E w \in Watchers : TimeOut(w)
  BY <1>4, TimeOutMaps
<1>5. CASE Dispose
  BY <1>5, DisposeMapsToCancelAll DEF Answered!Next
<1>6. CASE \/ \E w \in Watchers, how \in {"fulfilled", "rejected"} : Settle(w, how)
           \/ \E w \in Watchers : Register(w) \/ Tick(w) \/ EndCleanup(w)
           \/ ReEnable
           \/ UNCHANGED vars
  BY <1>6, OtherStepsStutter
<1>. QED BY <1>1, <1>2, <1>3, <1>4, <1>5, <1>6 DEF Next

LEMMA InitMaps == Init => Answered!Init
BY DEF Init, Answered!Init

\* A step of Completion keeps its invariant.
LEMMA CompletionKept ==
  ASSUME Answered!TypeOK, Answered!NoneOpenWhenDown, [Answered!Next]_(Answered!vars)
  PROVE  (Answered!TypeOK /\ Answered!NoneOpenWhenDown)'
<1>. USE DEF Answered!TypeOK, Answered!NoneOpenWhenDown, Answered!Status, Answered!Answers
<1>1. CASE \E w \in Watchers : Answered!Open(w)
  BY <1>1 DEF Answered!Open
<1>2. CASE \E w \in Watchers : Answered!Refuse(w)
  BY <1>2 DEF Answered!Refuse
<1>3. CASE \E w \in Watchers, answer \in Answered!Answers : Answered!Answer(w, answer)
  BY <1>3 DEF Answered!Answer
<1>4. CASE Answered!CancelAll
  <2>1. Answered!TypeOK'
    BY <1>4 DEF Answered!CancelAll
  <2>2. Answered!NoneOpenWhenDown'
    BY <1>4 DEF Answered!CancelAll
  <2>. QED BY <2>1, <2>2
<1>5. CASE UNCHANGED Answered!vars
  BY <1>5 DEF Answered!vars
<1>. QED BY <1>1, <1>2, <1>3, <1>4, <1>5 DEF Answered!Next

LEMMA CompletionInvariant ==
  Answered!Spec => [](Answered!TypeOK /\ Answered!NoneOpenWhenDown)
<1>1. Answered!Init => Answered!TypeOK /\ Answered!NoneOpenWhenDown
  BY DEF Answered!Init, Answered!TypeOK, Answered!NoneOpenWhenDown, Answered!Status
<1>. QED BY <1>1, CompletionKept, PTL DEF Answered!Spec

----------------------------------------------------------------------------
\* Every variable keeps its type for any number of watchers; the table never
\* runs past the promises registered in it.
THEOREM TypeCorrect == Spec => []TypeOK
<1>1. IndInv => TypeOK
  BY DEF IndInv
<1>. QED BY <1>1, Inductive, PTL

\* Polling by index never gives a watcher the answer of another promise.
THEOREM AnswersAreOwn == Spec => []OwnAnswer
<1>1. IndInv => OwnAnswer
  BY DEF IndInv
<1>. QED BY <1>1, Inductive, PTL

\* A waiting watcher has its reference, its entry, its poll Timer and its dispose
\* callback.
THEOREM WaitersServed == Spec => []WaitersAreServed
<1>1. IndInv => WaitersAreServed
  BY DEF IndInv, WaitersAreServed, TableDiscipline, HoldingDiscipline
<1>. QED BY <1>1, Inductive, PTL

\* A completed watcher leaves no Timer, callback, reference or entry.
THEOREM NothingStays == Spec => []NothingLeftBehind
<1>1. IndInv => NothingLeftBehind
  BY NobodyAssumption
  DEF IndInv, NothingLeftBehind, TableDiscipline, HoldingDiscipline, NobodyAssumption
<1>. QED BY <1>1, Inductive, PTL

\* A watcher holds what it needs exactly as long as it waits.
THEOREM HoldingsCorrect == Spec => []HoldsWhileWaiting
BY WaitersServed, NothingStays, PTL DEF HoldsWhileWaiting

\* Of a settled promise, the timeout and dispose() one wins, for good, and nobody
\* waits for a runtime that is gone: the watchers implement Completion.
THEOREM RefinesCompletion == Spec => ImplementsCompletion
BY Inductive, InitMaps, StepMaps, PTL DEF Spec, ImplementsCompletion, Answered!Spec

\* When the runtime is disposed, no watcher of a promise waits any more: whoever was
\* registered has an answer or is cancelled.
THEOREM NobodyWaitsWhenDown == Spec => []Answered!NoneOpenWhenDown
BY RefinesCompletion, CompletionInvariant, PTL DEF ImplementsCompletion

\* The answer a caller of handlePromise got, a cancellation included, is never
\* replaced by a poll, a timeout or a dispose() that comes later.
THEOREM AnswersStay == Spec => Answered!AnswersAreFinal
<1>1. Answered!TypeOK /\ [Answered!Next]_(Answered!vars) =>
        [Answered!AnswersAreFinal!1]_(Answered!vars)
  <2>. SUFFICES ASSUME Answered!TypeOK, Answered!Next PROVE Answered!AnswersAreFinal!1
    OBVIOUS
  <2>. QED BY DEF Answered!TypeOK, Answered!Next, Answered!Open, Answered!Refuse,
                  Answered!Answer, Answered!CancelAll
<1>. QED
  BY <1>1, RefinesCompletion, CompletionInvariant, PTL
  DEF ImplementsCompletion, Answered!Spec, Answered!AnswersAreFinal
=============================================================================
