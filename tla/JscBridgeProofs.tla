-------------------------- MODULE JscBridgeProofs --------------------------
(***************************************************************************)
(* Proofs about JscBridge for any set of requests, objects and keys: types,*)
(* the agreement of promises and requests, the reference counts, and that  *)
(* the bridge implements Completion.                                       *)
(***************************************************************************)
EXTENDS JscBridge, FiniteSetTheorems, TLAPS

\* A request has its verdict exactly when it has been settled or refused.
VerdictDiscipline ==
  \A r \in Requests :
    /\ verdict[r] # "none" <=> at[r] \in {"settling", "done"}
    /\ promise[r] # "none" => at[r] \in {"open", "settling", "done"}

\* No request is pending in a disposed runtime.
NonePending == ~active => pending = {}

IndInv ==
  /\ TypeOK
  /\ PromisesMatchRequests
  /\ VerdictDiscipline
  /\ NonePending

\* The steps of the holders other than requests leave the requests alone.
HolderStep ==
  \/ \E k \in Keys, p \in Objects : SetLocal(k, p)
  \/ \E k \in Keys : RemoveLocal(k)
  \/ ClearLocal
  \/ \E p \in Objects : Retain(p) \/ Release(p)

LEMMA KeysOfFinite ==
  ASSUME NEW p
  PROVE  IsFiniteSet(KeysOf(p)) /\ Cardinality(KeysOf(p)) \in Nat
<1>1. KeysOf(p) \subseteq Keys
  BY DEF KeysOf
<1>. QED BY <1>1, FiniteAssumption, FS_Subset, FS_CardinalityType

\* Retaining and releasing keep counts natural.
LEMMA CountsStayNatural ==
  ASSUME NEW c \in [Pointers -> Nat], NEW p \in Pointers
  PROVE  Retained(c, p) \in [Pointers -> Nat] /\ Released(c, p) \in [Pointers -> Nat]
BY DEF Retained, Released

LEMMA HolderStepType ==
  ASSUME TypeOK, HolderStep
  PROVE  TypeOK' /\ UNCHANGED <<active, requestVars>>
<1>. USE DEF TypeOK, requestVars
<1>1. ASSUME NEW k \in Keys, NEW p \in Objects, SetLocal(k, p)
      PROVE  TypeOK' /\ UNCHANGED <<active, requestVars>>
  <2>1. Retained(count, p) \in [Pointers -> Nat]
    BY CountsStayNatural DEF Pointers
  <2>2. local[k] # Nothing => Released(Retained(count, p), local[k]) \in [Pointers -> Nat]
    BY <2>1, CountsStayNatural DEF Pointers
  <2>3. count' \in [Pointers -> Nat]
    BY <1>1, <2>1, <2>2 DEF SetLocal
  <2>. QED BY <1>1, <2>3 DEF SetLocal
<1>2. ASSUME NEW k \in Keys, RemoveLocal(k)
      PROVE  TypeOK' /\ UNCHANGED <<active, requestVars>>
  <2>1. count' \in [Pointers -> Nat]
    BY <1>2, CountsStayNatural DEF RemoveLocal, Pointers
  <2>. QED BY <1>2, <2>1 DEF RemoveLocal
<1>3. CASE ClearLocal
  <2>1. count' \in [Pointers -> Nat]
    BY <1>3, KeysOfFinite DEF ClearLocal
  <2>. QED BY <1>3, <2>1 DEF ClearLocal
<1>4. ASSUME NEW p \in Objects, Retain(p) \/ Release(p)
      PROVE  TypeOK' /\ UNCHANGED <<active, requestVars>>
  <2>. p \in Pointers
    BY DEF Pointers
  <2>1. count' \in [Pointers -> Nat]
    <3>1. count' = Retained(count, p) \/ count' = Released(count, p)
      BY <1>4 DEF Retain, Release
    <3>. QED BY <3>1, CountsStayNatural
  <2>2. held' \in [Objects -> 0 .. MaxHeld]
    BY <1>4, BoundsAssumption DEF Retain, Release, BoundsAssumption
  <2>. QED BY <1>4, <2>1, <2>2 DEF Retain, Release
<1>. QED BY <1>1, <1>2, <1>3, <1>4 DEF HolderStep

LEMMA HolderStepOK == ASSUME IndInv, HolderStep PROVE IndInv'
<1>1. TypeOK' /\ UNCHANGED <<active, requestVars>>
  BY HolderStepType DEF IndInv
<1>. QED
  BY <1>1 DEF IndInv, PromisesMatchRequests, VerdictDiscipline, NonePending,
              requestVars

LEMMA RequestStepOK ==
  ASSUME IndInv, NEW r \in Requests,
         Call(r) \/ CreatePending(r) \/ CallFails(r) \/ EndSettle(r)
  PROVE  IndInv'
<1>1. TypeOK'
  <2>. r \in Pointers /\ count \in [Pointers -> Nat]
    BY DEF IndInv, TypeOK, Pointers
  <2>1. count' \in [Pointers -> Nat]
    <3>1. count' = count \/ count' = Retained(count, r) \/ count' = Released(count, r)
      BY DEF Call, CreatePending, CallFails, EndSettle
    <3>. QED BY <3>1, CountsStayNatural
  <2>. QED
    BY <2>1 DEF IndInv, TypeOK, Call, CreatePending, CallFails, EndSettle,
                TimersFor, holderVars
<1>2. PromisesMatchRequests'
  <2>. USE DEF IndInv, TypeOK, PromisesMatchRequests, VerdictDiscipline
  <2>1. CASE Call(r)
    BY <2>1 DEF Call
  <2>2. CASE CreatePending(r)
    BY <2>2 DEF CreatePending, TimersFor
  <2>3. CASE CallFails(r)
    BY <2>3 DEF CallFails
  <2>4. CASE EndSettle(r)
    BY <2>4 DEF EndSettle
  <2>. QED BY <2>1, <2>2, <2>3, <2>4
<1>3. VerdictDiscipline' /\ NonePending'
  BY DEF IndInv, TypeOK, VerdictDiscipline, NonePending, Call, CreatePending,
         CallFails, EndSettle
<1>. QED BY <1>1, <1>2, <1>3 DEF IndInv

LEMMA SettleOK ==
  ASSUME IndInv, NEW r \in pending, NEW answer \in {"value", "error", "timeout"},
         Settle(r, answer), future' \in [Requests -> {"none", "running", "completed"}],
         UNCHANGED <<active, count, holderVars>>
  PROVE  IndInv'
<1>1. TypeOK'
  BY DEF IndInv, TypeOK, Settle, holderVars
<1>2. PromisesMatchRequests'
  BY DEF IndInv, TypeOK, PromisesMatchRequests, VerdictDiscipline, Settle
<1>3. VerdictDiscipline' /\ NonePending'
  BY DEF IndInv, TypeOK, PromisesMatchRequests, VerdictDiscipline, NonePending, Settle
<1>. QED BY <1>1, <1>2, <1>3 DEF IndInv

LEMMA FutureCompletesOK ==
  ASSUME IndInv, NEW r \in Requests, NEW answer \in {"value", "error"},
         FutureCompletes(r, answer)
  PROVE  IndInv'
<1>1. CASE r \in pending
  BY <1>1, SettleOK DEF FutureCompletes, Claimable, IndInv, TypeOK
<1>2. CASE r \notin pending
  BY <1>2 DEF FutureCompletes, Claimable, IndInv, TypeOK, PromisesMatchRequests,
              VerdictDiscipline, NonePending, holderVars
<1>. QED BY <1>1, <1>2

LEMMA TimeOutOK ==
  ASSUME IndInv, NEW r \in Requests, TimeOut(r)
  PROVE  IndInv'
<1>1. r \in pending
  BY DEF IndInv, PromisesMatchRequests, TimeOut
<1>. QED BY <1>1, SettleOK DEF TimeOut, Claimable, IndInv, TypeOK

LEMMA DisposeOK == ASSUME IndInv, Dispose PROVE IndInv'
<1>1. TypeOK'
  BY DEF IndInv, TypeOK, Dispose, Cancelled
<1>2. PromisesMatchRequests'
  BY DEF IndInv, TypeOK, PromisesMatchRequests, Dispose, Cancelled
<1>3. VerdictDiscipline' /\ NonePending'
  BY DEF IndInv, TypeOK, PromisesMatchRequests, VerdictDiscipline, NonePending,
         Dispose, Cancelled
<1>. QED BY <1>1, <1>2, <1>3 DEF IndInv

LEMMA StutterOK == ASSUME IndInv, UNCHANGED vars PROVE IndInv'
BY DEF IndInv, TypeOK, PromisesMatchRequests, VerdictDiscipline, NonePending,
       vars, requestVars, holderVars

LEMMA InitOK == Init => IndInv
<1>. SUFFICES ASSUME Init PROVE IndInv
  OBVIOUS
<1>1. TypeOK
  BY BoundsAssumption DEF BoundsAssumption, Init, TypeOK
<1>2. PromisesMatchRequests /\ VerdictDiscipline /\ NonePending
  BY DEF Init, PromisesMatchRequests, VerdictDiscipline, NonePending
<1>. QED BY <1>1, <1>2 DEF IndInv

LEMMA StepOK == IndInv /\ [Next]_vars => IndInv'
<1>. SUFFICES ASSUME IndInv, [Next]_vars PROVE IndInv'
  OBVIOUS
<1>1. CASE HolderStep
  BY <1>1, HolderStepOK
<1>2. CASE \E r \in Requests :
             Call(r) \/ CreatePending(r) \/ CallFails(r) \/ EndSettle(r)
  BY <1>2, RequestStepOK
<1>3. CASE \E r \in Requests, answer \in {"value", "error"} : FutureCompletes(r, answer)
  BY <1>3, FutureCompletesOK
<1>4. CASE \E r \in Requests : TimeOut(r)
  BY <1>4, TimeOutOK
<1>5. CASE Dispose
  BY <1>5, DisposeOK
<1>6. CASE UNCHANGED vars
  BY <1>6, StutterOK
<1>. QED BY <1>1, <1>2, <1>3, <1>4, <1>5, <1>6 DEF Next, HolderStep

LEMMA Inductive == Spec => []IndInv
BY InitOK, StepOK, PTL DEF Spec

----------------------------------------------------------------------------
\* The reference counts.

\* What a step of setLocalContextValue does to the number of keys of an object.
LEMMA KeysAfterSet ==
  ASSUME TypeOK, NEW k \in Keys, NEW v \in Objects \cup {Nothing},
         local' = [local EXCEPT ![k] = v], NEW q \in Objects
  PROVE  Cardinality(KeysOf(q))' =
           Cardinality(KeysOf(q))
             + (IF q = v /\ q # local[k] THEN 1 ELSE 0)
             - (IF q # v /\ q = local[k] THEN 1 ELSE 0)
<1>1. IsFiniteSet(KeysOf(q)) /\ Cardinality(KeysOf(q)) \in Nat
  BY KeysOfFinite
<1>2. CASE q = v
  <2>1. KeysOf(q)' = KeysOf(q) \cup {k}
    BY <1>2 DEF KeysOf, TypeOK
  <2>2. k \in KeysOf(q) <=> q = local[k]
    BY DEF KeysOf
  <2>3. Cardinality(KeysOf(q) \cup {k}) =
          IF k \in KeysOf(q) THEN Cardinality(KeysOf(q)) ELSE Cardinality(KeysOf(q)) + 1
    BY <1>1, FS_AddElement
  <2>. QED BY <1>1, <1>2, <2>1, <2>2, <2>3
<1>3. CASE q # v
  <2>1. KeysOf(q)' = KeysOf(q) \ {k}
    BY <1>3 DEF KeysOf, TypeOK
  <2>2. k \in KeysOf(q) <=> q = local[k]
    BY DEF KeysOf
  <2>3. Cardinality(KeysOf(q) \ {k}) =
          IF k \in KeysOf(q) THEN Cardinality(KeysOf(q)) - 1 ELSE Cardinality(KeysOf(q))
    BY <1>1, FS_RemoveElement
  <2>. QED BY <1>1, <1>3, <2>1, <2>2, <2>3
<1>. QED BY <1>2, <1>3

\* An object under a key is counted.
LEMMA UnderAKey ==
  ASSUME TypeOK, CountsMatchHolders, active, NEW k \in Keys, local[k] # Nothing
  PROVE  /\ local[k] \in Objects
         /\ count[local[k]] > 0
<1>1. local[k] \in Objects /\ k \in KeysOf(local[k])
  BY DEF TypeOK, KeysOf
<1>2. Cardinality(KeysOf(local[k])) \in Nat \ {0}
  BY <1>1, KeysOfFinite, FS_EmptySet
<1>3. held[local[k]] \in Nat
  BY <1>1, BoundsAssumption DEF TypeOK, BoundsAssumption
<1>. QED BY <1>1, <1>2, <1>3 DEF CountsMatchHolders

LEMMA SetLocalCounts ==
  ASSUME TypeOK, CountsMatchHolders, NEW k \in Keys, NEW p \in Objects, SetLocal(k, p)
  PROVE  CountsMatchHolders'
<1>1. /\ active /\ active' = active /\ held' = held /\ at' = at
      /\ local' = [local EXCEPT ![k] = p]
  BY DEF SetLocal, requestVars
<1>2. ASSUME NEW q \in Objects
      PROVE  count'[q] = count[q] + (IF q = p /\ q # local[k] THEN 1 ELSE 0)
                                  - (IF q # p /\ q = local[k] THEN 1 ELSE 0)
  <2>. count[q] \in Nat /\ count[p] \in Nat /\ count \in [Pointers -> Nat]
    BY DEF TypeOK, Pointers
  <2>1. CASE local[k] = Nothing
    BY <2>1, PointersAssumption
    DEF SetLocal, Retained, PointersAssumption, Pointers
  <2>2. CASE local[k] # Nothing
    <3>1. local[k] \in Objects /\ count[local[k]] > 0 /\ count[local[k]] \in Nat
      BY <1>1, <2>2, UnderAKey DEF TypeOK, Pointers
    <3>2. count' = Released(Retained(count, p), local[k])
      BY <2>2 DEF SetLocal
    <3>3. Retained(count, p)[local[k]] # 0
      BY <3>1 DEF Retained, Pointers
    <3>. QED BY <3>1, <3>2, <3>3 DEF Retained, Released, Pointers
  <2>. QED BY <2>1, <2>2
<1>3. ASSUME NEW r \in Requests PROVE count'[r] = count[r]
  <2>. r \notin Objects /\ r # p /\ count \in [Pointers -> Nat] /\ r \in Pointers
    BY PointersAssumption DEF PointersAssumption, TypeOK, Pointers
  <2>1. Retained(count, p)[r] = count[r] /\ Retained(count, p) \in [Pointers -> Nat]
    BY CountsStayNatural DEF Retained, Pointers
  <2>2. CASE local[k] = Nothing
    BY <2>1, <2>2 DEF SetLocal
  <2>3. CASE local[k] # Nothing
    <3>1. local[k] \in Objects /\ r # local[k]
      BY <2>3 DEF TypeOK
    <3>2. Released(Retained(count, p), local[k])[r] = Retained(count, p)[r]
      BY <2>1, <3>1 DEF Released
    <3>. QED BY <2>1, <2>3, <3>2 DEF SetLocal
  <2>. QED BY <2>2, <2>3
<1>4. ASSUME NEW q \in Objects
      PROVE  /\ Cardinality(KeysOf(q)) \in Nat /\ held[q] \in Nat /\ count[q] \in Nat
             /\ Cardinality(KeysOf(q))' =
                  Cardinality(KeysOf(q))
                    + (IF q = p /\ q # local[k] THEN 1 ELSE 0)
                    - (IF q # p /\ q = local[k] THEN 1 ELSE 0)
  <2>1. Cardinality(KeysOf(q)) \in Nat
    BY KeysOfFinite
  <2>2. held[q] \in Nat /\ count[q] \in Nat
    BY BoundsAssumption DEF TypeOK, Pointers, BoundsAssumption
  <2>3. Cardinality(KeysOf(q))' =
          Cardinality(KeysOf(q))
            + (IF q = p /\ q # local[k] THEN 1 ELSE 0)
            - (IF q # p /\ q = local[k] THEN 1 ELSE 0)
    <3>. p \in Objects \cup {Nothing}
      OBVIOUS
    <3>. QED BY <1>1, KeysAfterSet
  <2>. QED BY <2>1, <2>2, <2>3
<1>. QED BY <1>1, <1>2, <1>3, <1>4 DEF CountsMatchHolders

LEMMA RemoveLocalCounts ==
  ASSUME TypeOK, CountsMatchHolders, NEW k \in Keys, RemoveLocal(k)
  PROVE  CountsMatchHolders'
<1>1. /\ active /\ active' = active /\ held' = held /\ at' = at
      /\ local[k] # Nothing /\ local' = [local EXCEPT ![k] = Nothing]
  BY DEF RemoveLocal, requestVars
<1>2. local[k] \in Objects /\ count[local[k]] > 0
  BY <1>1, UnderAKey
<1>3. \A p \in Pointers : count'[p] = count[p] - (IF p = local[k] THEN 1 ELSE 0)
  BY <1>2 DEF RemoveLocal, Released, TypeOK, Pointers
<1>4. ASSUME NEW q \in Objects
      PROVE  Cardinality(KeysOf(q))' =
               Cardinality(KeysOf(q)) - (IF q = local[k] THEN 1 ELSE 0)
  <2>1. Nothing \in Objects \cup {Nothing} /\ q # Nothing
    BY PointersAssumption DEF PointersAssumption
  <2>2. Cardinality(KeysOf(q))' =
          Cardinality(KeysOf(q))
            + (IF q = Nothing /\ q # local[k] THEN 1 ELSE 0)
            - (IF q # Nothing /\ q = local[k] THEN 1 ELSE 0)
    BY <1>1, <2>1, KeysAfterSet
  <2>3. Cardinality(KeysOf(q)) \in Nat
    BY KeysOfFinite
  <2>. QED BY <2>1, <2>2, <2>3
<1>5. ASSUME NEW q \in Objects
      PROVE  /\ Cardinality(KeysOf(q)) \in Nat /\ held[q] \in Nat
             /\ count'[q] = Cardinality(KeysOf(q))' + held'[q]
  <2>1. Cardinality(KeysOf(q)) \in Nat /\ held[q] \in Nat
    BY KeysOfFinite, BoundsAssumption DEF TypeOK, BoundsAssumption
  <2>2. count[q] = Cardinality(KeysOf(q)) + held[q] /\ q \in Pointers
    BY <1>1 DEF CountsMatchHolders, Pointers
  <2>. QED BY <1>1, <1>3, <1>4, <2>1, <2>2
<1>6. \A r \in Requests : count'[r] = count[r]
  BY <1>2, <1>3, PointersAssumption DEF PointersAssumption, Pointers, TypeOK
<1>. QED BY <1>1, <1>5, <1>6 DEF CountsMatchHolders

LEMMA ClearLocalCounts ==
  ASSUME TypeOK, CountsMatchHolders, ClearLocal
  PROVE  CountsMatchHolders'
<1>1. /\ active' = active /\ held' = held /\ at' = at
      /\ local' = [k \in Keys |-> Nothing]
      /\ \A p \in Pointers : count'[p] = IF Cardinality(KeysOf(p)) >= count[p]
                                         THEN 0 ELSE count[p] - Cardinality(KeysOf(p))
  BY DEF ClearLocal, requestVars
<1>2. ASSUME NEW p \in Objects
      PROVE  count'[p] = IF active' THEN Cardinality(KeysOf(p))' + held'[p] ELSE 0
  <2>1. Cardinality(KeysOf(p))' = 0
    <3>1. KeysOf(p)' = {}
      BY <1>1, PointersAssumption DEF KeysOf, PointersAssumption
    <3>. QED BY <3>1, FS_EmptySet
  <2>2. Cardinality(KeysOf(p)) \in Nat /\ held[p] \in Nat /\ p \in Pointers
    BY KeysOfFinite, BoundsAssumption DEF TypeOK, BoundsAssumption, Pointers
  <2>3. count[p] = IF active THEN Cardinality(KeysOf(p)) + held[p] ELSE 0
    BY DEF CountsMatchHolders
  <2>. QED BY <1>1, <2>1, <2>2, <2>3
<1>3. ASSUME NEW r \in Requests PROVE count'[r] = count[r]
  <2>1. KeysOf(r) = {}
    BY PointersAssumption DEF KeysOf, PointersAssumption, TypeOK
  <2>2. Cardinality(KeysOf(r)) = 0 /\ r \in Pointers /\ count[r] \in Nat
    BY <2>1, FS_EmptySet DEF Pointers, TypeOK
  <2>. QED BY <1>1, <2>2
<1>. QED BY <1>1, <1>2, <1>3 DEF CountsMatchHolders

LEMMA HeldCounts ==
  ASSUME TypeOK, CountsMatchHolders, NEW p \in Objects, Retain(p) \/ Release(p)
  PROVE  CountsMatchHolders'
<1>1. UNCHANGED <<active, at, local>>
  BY DEF Retain, Release, requestVars
<1>2. p \in Pointers /\ count[p] \in Nat /\ held[p] \in Nat
  BY BoundsAssumption DEF BoundsAssumption, TypeOK, Pointers
<1>3. \A q : KeysOf(q)' = KeysOf(q)
  BY <1>1 DEF KeysOf
<1>4. Cardinality(KeysOf(p)) \in Nat
  BY KeysOfFinite
<1>5. \A r \in Requests : count'[r] = count[r]
  BY PointersAssumption
  DEF PointersAssumption, Retain, Release, Retained, Released, TypeOK, Pointers
<1>6. \A q \in Objects : q # p => count'[q] = count[q] /\ held'[q] = held[q]
  BY DEF Retain, Release, Retained, Released, TypeOK, Pointers
<1>7. count'[p] = IF active THEN Cardinality(KeysOf(p)) + held'[p] ELSE 0
  <2>1. count[p] = IF active THEN Cardinality(KeysOf(p)) + held[p] ELSE 0
    BY DEF CountsMatchHolders
  <2>2. CASE Retain(p)
    BY <1>2, <1>4, <2>1, <2>2 DEF Retain, Retained, TypeOK, Pointers
  <2>3. CASE Release(p)
    BY <1>2, <1>4, <2>1, <2>3 DEF Release, Released, TypeOK, Pointers
  <2>. QED BY <2>2, <2>3
<1>. QED BY <1>1, <1>3, <1>5, <1>6, <1>7 DEF CountsMatchHolders

\* Steps of the requests leave the other objects alone.
LEMMA RequestStepCounts ==
  ASSUME IndInv, CountsMatchHolders, NEW r \in Requests,
         \/ Call(r) \/ CreatePending(r) \/ CallFails(r) \/ EndSettle(r) \/ TimeOut(r)
         \/ \E answer \in {"value", "error"} : FutureCompletes(r, answer)
  PROVE  CountsMatchHolders'
<1>. r \in Pointers /\ r \notin Objects /\ count \in [Pointers -> Nat]
     /\ at \in [Requests -> {"unused", "calling", "open", "settling", "done"}]
  BY PointersAssumption DEF PointersAssumption, Pointers, IndInv, TypeOK
<1>1. UNCHANGED <<active, local, held>>
  BY DEF Call, CreatePending, CallFails, EndSettle, TimeOut, FutureCompletes,
         holderVars
<1>2. \A p : KeysOf(p)' = KeysOf(p)
  BY <1>1 DEF KeysOf
<1>3. count' = count \/ count' = Retained(count, r) \/ count' = Released(count, r)
  BY DEF Call, CreatePending, CallFails, EndSettle, TimeOut, FutureCompletes
<1>4. \A p \in Pointers : p # r => count'[p] = count[p]
  BY <1>3 DEF Retained, Released
<1>5. \A q \in Requests : q # r => at'[q] = at[q]
  BY DEF Call, CreatePending, CallFails, EndSettle, TimeOut, FutureCompletes,
         Settle, Claimable
<1>6. count'[r] = IF active /\ at'[r] \in {"open", "settling"} THEN 1 ELSE 0
  <2>1. count[r] = IF active /\ at[r] \in {"open", "settling"} THEN 1 ELSE 0
    BY DEF CountsMatchHolders
  <2>2. CASE Call(r) \/ CallFails(r)
    BY <2>1, <2>2 DEF Call, CallFails
  <2>3. CASE CreatePending(r)
    BY <2>1, <2>3 DEF CreatePending, Retained
  <2>4. CASE EndSettle(r)
    BY <2>1, <2>4 DEF EndSettle, Released
  <2>5. CASE TimeOut(r) \/ \E answer \in {"value", "error"} : FutureCompletes(r, answer)
    <3>1. r \in pending => at[r] = "open"
      BY DEF IndInv, PromisesMatchRequests
    <3>2. count' = count
      BY <2>5 DEF TimeOut, FutureCompletes
    <3>3. \/ at' = at
          \/ at[r] = "open" /\ at'[r] = "settling"
      BY <2>5, <3>1 DEF TimeOut, FutureCompletes, Settle, Claimable
    <3>. QED BY <2>1, <3>2, <3>3
  <2>. QED BY <2>2, <2>3, <2>4, <2>5
<1>. QED BY <1>1, <1>2, <1>4, <1>5, <1>6 DEF CountsMatchHolders, Pointers

LEMMA InitCounts == Init => CountsMatchHolders
<1>. SUFFICES ASSUME Init PROVE CountsMatchHolders
  OBVIOUS
<1>1. \A p \in Objects : KeysOf(p) = {}
  BY PointersAssumption DEF Init, KeysOf, PointersAssumption
<1>2. \A p \in Objects : Cardinality(KeysOf(p)) = 0
  BY <1>1, FS_EmptySet
<1>. QED BY <1>2 DEF Init, CountsMatchHolders, Pointers

LEMMA StepCounts ==
  IndInv /\ CountsMatchHolders /\ [Next]_vars => CountsMatchHolders'
<1>. SUFFICES ASSUME IndInv, CountsMatchHolders, [Next]_vars
              PROVE  CountsMatchHolders'
  OBVIOUS
<1>. TypeOK
  BY DEF IndInv
<1>1. CASE \E k \in Keys, p \in Objects : SetLocal(k, p)
  BY <1>1, SetLocalCounts
<1>2. CASE \E k \in Keys : RemoveLocal(k)
  BY <1>2, RemoveLocalCounts
<1>3. CASE ClearLocal
  BY <1>3, ClearLocalCounts
<1>4. CASE \E p \in Objects : Retain(p) \/ Release(p)
  BY <1>4, HeldCounts
<1>5. CASE \E r \in Requests :
             \/ Call(r) \/ CreatePending(r) \/ CallFails(r) \/ EndSettle(r) \/ TimeOut(r)
             \/ \E answer \in {"value", "error"} : FutureCompletes(r, answer)
  BY <1>5, RequestStepCounts
<1>6. CASE Dispose
  BY <1>6 DEF Dispose, CountsMatchHolders, Pointers
<1>7. CASE UNCHANGED vars
  BY <1>7 DEF vars, requestVars, holderVars, CountsMatchHolders, KeysOf
<1>. QED BY <1>1, <1>2, <1>3, <1>4, <1>5, <1>6, <1>7 DEF Next

----------------------------------------------------------------------------
\* The bridge implements Completion: what its steps come to under the mapping.

\* The status of a request in Completion.
StatusOf(r) == IF verdict[r] # "none" THEN verdict[r]
               ELSE IF at[r] = "open" THEN "open" ELSE "unused"
Mapped == [r \in Requests |-> StatusOf(r)]

LEMMA CreateMapsToOpen ==
  ASSUME IndInv, NEW r \in Requests, CreatePending(r)
  PROVE  Answered!Open(r)
<1>1. verdict[r] = "none" /\ at[r] = "calling" /\ active /\ active' = active
  BY DEF IndInv, VerdictDiscipline, TypeOK, CreatePending
<1>2. Mapped[r] = "unused"
  BY <1>1 DEF Mapped, StatusOf
<1>3. Mapped' = [Mapped EXCEPT ![r] = "open"]
  BY <1>1 DEF IndInv, TypeOK, CreatePending, Mapped, StatusOf
<1>. QED BY <1>1, <1>2, <1>3 DEF Mapped, StatusOf, Answered!Open

LEMMA FailureMapsToRefuse ==
  ASSUME IndInv, NEW r \in Requests, CallFails(r)
  PROVE  Answered!Refuse(r)
<1>1. verdict[r] = "none" /\ at[r] = "calling" /\ active' = active
  BY DEF IndInv, VerdictDiscipline, TypeOK, CallFails
<1>2. Mapped[r] = "unused"
  BY <1>1 DEF Mapped, StatusOf
<1>3. Mapped' = [Mapped EXCEPT ![r] = "error"]
  BY <1>1 DEF IndInv, TypeOK, CallFails, Mapped, StatusOf
<1>. QED BY <1>1, <1>2, <1>3 DEF Mapped, StatusOf, Answered!Refuse

LEMMA SettleMapsToAnswer ==
  ASSUME IndInv, NEW r \in pending, NEW answer \in {"value", "error", "timeout"},
         Settle(r, answer), active' = active
  PROVE  Answered!Answer(r, answer)
<1>1. r \in Requests /\ verdict[r] = "none" /\ at[r] = "open"
  BY DEF IndInv, VerdictDiscipline, TypeOK, PromisesMatchRequests
<1>2. Mapped[r] = "open"
  BY <1>1 DEF Mapped, StatusOf
<1>3. Mapped' = [Mapped EXCEPT ![r] = answer]
  BY <1>1 DEF IndInv, TypeOK, Settle, Mapped, StatusOf
<1>. QED BY <1>1, <1>2, <1>3 DEF Mapped, StatusOf, Answered!Answer

LEMMA DisposeMapsToCancelAll ==
  ASSUME IndInv, Dispose
  PROVE  Answered!CancelAll
<1>1. \A r \in Requests :
        r \in pending <=> verdict[r] = "none" /\ at[r] = "open"
  BY DEF IndInv, VerdictDiscipline, TypeOK, PromisesMatchRequests
<1>2. \A r \in Requests : r \in pending <=> Mapped[r] = "open"
  BY <1>1 DEF Mapped, StatusOf, IndInv, TypeOK
<1>3. Mapped' = [r \in Requests |-> IF Mapped[r] = "open" THEN "cancelled" ELSE Mapped[r]]
  <2>1. ASSUME NEW r \in Requests
        PROVE  Mapped'[r] = IF Mapped[r] = "open" THEN "cancelled" ELSE Mapped[r]
    <3>1. CASE r \in pending
      BY <1>2, <3>1 DEF Dispose, Cancelled, Mapped, StatusOf
    <3>2. CASE r \notin pending
      BY <1>2, <3>2 DEF Dispose, Cancelled, Mapped, StatusOf
    <3>. QED BY <3>1, <3>2
  <2>. QED BY <2>1 DEF Mapped
<1>. QED BY <1>3 DEF Dispose, Mapped, StatusOf, Answered!CancelAll

LEMMA OtherStepsStutter ==
  ASSUME IndInv,
         \/ HolderStep
         \/ \E r \in Requests : Call(r) \/ EndSettle(r)
         \/ \E r \in Requests : r \notin pending /\ TimeOut(r)
         \/ \E r \in Requests, answer \in {"value", "error"} :
              r \notin pending /\ FutureCompletes(r, answer)
         \/ UNCHANGED vars
  PROVE  UNCHANGED Answered!vars
<1>1. Mapped' = Mapped /\ active' = active
  <2>1. CASE HolderStep
    BY <2>1, HolderStepType DEF IndInv, requestVars, Mapped, StatusOf
  <2>2. ASSUME NEW r \in Requests, Call(r) \/ EndSettle(r)
        PROVE  Mapped' = Mapped /\ active' = active
    BY <2>2 DEF IndInv, TypeOK, VerdictDiscipline, Call, EndSettle, Mapped, StatusOf
  <2>3. ASSUME NEW r \in Requests, r \notin pending, TimeOut(r)
        PROVE  Mapped' = Mapped /\ active' = active
    BY <2>3 DEF TimeOut, Claimable, Mapped, StatusOf
  <2>4. ASSUME NEW r \in Requests, NEW answer \in {"value", "error"},
               r \notin pending, FutureCompletes(r, answer)
        PROVE  Mapped' = Mapped /\ active' = active
    BY <2>4 DEF FutureCompletes, Claimable, Mapped, StatusOf
  <2>5. CASE UNCHANGED vars
    BY <2>5 DEF vars, requestVars, Mapped, StatusOf
  <2>. QED BY <2>1, <2>2, <2>3, <2>4, <2>5
<1>. QED BY <1>1 DEF Mapped, StatusOf, Answered!vars

LEMMA StepMaps == IndInv /\ [Next]_vars => [Answered!Next]_(Answered!vars)
<1>. SUFFICES ASSUME IndInv, [Next]_vars
              PROVE  Answered!Next \/ UNCHANGED Answered!vars
  OBVIOUS
<1>1. CASE \E r \in Requests : CreatePending(r)
  BY <1>1, CreateMapsToOpen DEF Answered!Next
<1>2. CASE \E r \in Requests : CallFails(r)
  BY <1>2, FailureMapsToRefuse DEF Answered!Next
<1>3. ASSUME NEW r \in pending, NEW answer \in {"value", "error"},
             FutureCompletes(r, answer)
      PROVE  Answered!Next
  <2>1. r \in Requests /\ Settle(r, answer) /\ active' = active
    BY <1>3 DEF FutureCompletes, Claimable, IndInv, TypeOK
  <2>. QED BY <2>1, SettleMapsToAnswer DEF Answered!Next, Answered!Answers
<1>4. ASSUME NEW r \in pending, TimeOut(r)
      PROVE  Answered!Next
  <2>1. r \in Requests /\ Settle(r, "timeout") /\ active' = active
    BY <1>4 DEF TimeOut, Claimable, IndInv, TypeOK
  <2>. QED BY <2>1, SettleMapsToAnswer DEF Answered!Next, Answered!Answers
<1>5. CASE Dispose
  BY <1>5, DisposeMapsToCancelAll DEF Answered!Next
<1>6. CASE \/ HolderStep
           \/ \E r \in Requests : Call(r) \/ EndSettle(r)
           \/ \E r \in Requests : r \notin pending /\ TimeOut(r)
           \/ \E r \in Requests, answer \in {"value", "error"} :
                r \notin pending /\ FutureCompletes(r, answer)
           \/ UNCHANGED vars
  BY <1>6, OtherStepsStutter
<1>. QED BY <1>1, <1>2, <1>3, <1>4, <1>5, <1>6 DEF Next, HolderStep

LEMMA InitMaps == Init => Answered!Init
BY DEF Init, Answered!Init

\* A step of Completion keeps its invariant.
LEMMA CompletionKept ==
  ASSUME Answered!TypeOK, Answered!NoneOpenWhenDown, [Answered!Next]_(Answered!vars)
  PROVE  (Answered!TypeOK /\ Answered!NoneOpenWhenDown)'
<1>. USE DEF Answered!TypeOK, Answered!NoneOpenWhenDown, Answered!Status, Answered!Answers
<1>1. CASE \E r \in Requests : Answered!Open(r)
  BY <1>1 DEF Answered!Open
<1>2. CASE \E r \in Requests : Answered!Refuse(r)
  BY <1>2 DEF Answered!Refuse
<1>3. CASE \E r \in Requests, answer \in Answered!Answers : Answered!Answer(r, answer)
  BY <1>3 DEF Answered!Answer
<1>4. CASE Answered!CancelAll
  <2>1. Answered!TypeOK'
    BY <1>4 DEF Answered!CancelAll
  <2>2. Answered!NoneOpenWhenDown'
    BY <1>4 DEF Answered!CancelAll
  <2>. QED BY <2>1, <2>2
<1>5. CASE UNCHANGED Answered!vars
  BY <1>5 DEF Answered!vars
<1>. QED BY <1>1, <1>2, <1>3, <1>4, <1>5 DEF Answered!Next

LEMMA CompletionInvariant ==
  Answered!Spec => [](Answered!TypeOK /\ Answered!NoneOpenWhenDown)
<1>1. Answered!Init => Answered!TypeOK /\ Answered!NoneOpenWhenDown
  BY DEF Answered!Init, Answered!TypeOK, Answered!NoneOpenWhenDown, Answered!Status
<1>. QED BY <1>1, CompletionKept, PTL DEF Answered!Spec

----------------------------------------------------------------------------
\* Every variable keeps its type for any number of requests, objects and keys;
\* no count of _protectedValues becomes negative.
THEOREM TypeCorrect == Spec => []TypeOK
<1>1. IndInv => TypeOK
  BY DEF IndInv
<1>. QED BY <1>1, Inductive, PTL

\* A deferred request of the bridge is pending, timed and unsettled, or claimed
\* and settled as it was answered, at every moment.
THEOREM PromisesCorrect == Spec => []PromisesMatchRequests
<1>1. IndInv => PromisesMatchRequests
  BY DEF IndInv
<1>. QED BY <1>1, Inductive, PTL

\* _protectedValues counts the holders of every JavaScript object exactly.
THEOREM CountsCorrect == Spec => []CountsMatchHolders
BY Inductive, InitCounts, StepCounts, PTL DEF Spec

\* Of a timeout, a late answer and dispose() one wins, for good, and no deferred
\* request outlives the runtime: the bridge implements Completion.
THEOREM RefinesCompletion == Spec => ImplementsCompletion
BY Inductive, InitMaps, StepMaps, PTL DEF Spec, ImplementsCompletion, Answered!Spec

\* When the JavaScriptCore runtime is disposed, no deferred request is pending.
THEOREM NobodyWaitsWhenDown == Spec => []Answered!NoneOpenWhenDown
BY RefinesCompletion, CompletionInvariant, PTL DEF ImplementsCompletion

\* A deferred request is settled once: neither a late future nor its timeout nor
\* dispose() answers it again.
THEOREM AnswersStay == Spec => Answered!AnswersAreFinal
<1>1. Answered!TypeOK /\ [Answered!Next]_(Answered!vars) =>
        [Answered!AnswersAreFinal!1]_(Answered!vars)
  <2>. SUFFICES ASSUME Answered!TypeOK, Answered!Next PROVE Answered!AnswersAreFinal!1
    OBVIOUS
  <2>. QED BY DEF Answered!TypeOK, Answered!Next, Answered!Open, Answered!Refuse,
                  Answered!Answer, Answered!CancelAll
<1>. QED
  BY <1>1, RefinesCompletion, CompletionInvariant, PTL
  DEF ImplementsCompletion, Answered!Spec, Answered!AnswersAreFinal
=============================================================================
