------------------------ MODULE RuntimeTimersProofs ------------------------
(***************************************************************************)
(* Proofs that the properties of RuntimeTimers hold for any number of      *)
(* timers, contexts and jobs.                                              *)
(***************************************************************************)
EXTENDS RuntimeTimers, TLAPS

\* Ids are handed out in order, and one id has one entry.
IdsDiscipline ==
  /\ \A c \in callbacks \cup starting : c.id < timerCount
  /\ \A c, d \in callbacks \cup starting : c.id = d.id => c = d
  /\ \A id \in failed : id < timerCount

\* A delay is converted while JavaScript runs, for an entry that is there or was
\* cleared in the middle; an id has a Timer only once its delay is a number.
StartDiscipline ==
  /\ starting # {} => InJs
  /\ \A c \in starting : c.id \notin failed /\ (c \in callbacks \/ c.id \in cleared)
  /\ Active => \A t \in armed :
                 t.id < timerCount /\ t.id \notin failed /\ ~Starting(t.id)

\* JavaScript runs, jobs wait and an active runtime has timers only in an
\* initialised context; only the drain of dispose() runs in one that is not active.
ContextDiscipline ==
  /\ InJs \/ jobs > 0 \/ callbacks # {} \/ failed # {} \/ (Active /\ armed # {})
       => Initialised
  /\ lifecycle = "disposing" => running = "closing"
  /\ lifecycle = "disposed" => running = "idle" /\ ~engine

\* What dispose() cannot cancel was created after it began.
LateDiscipline == ~Active => \A t \in armed : t.late \/ t \in registered
SurvivorsLate  == lifecycle = "disposed" => registered = {}

IndInv ==
  /\ TypeOK
  /\ TimersMatchCallbacks
  /\ IdsDiscipline
  /\ StartDiscipline
  /\ ContextDiscipline
  /\ LateDiscipline
  /\ SurvivorsLate

----------------------------------------------------------------------------
LEMMA InitOK == Init => IndInv
<1>. SUFFICES ASSUME Init PROVE IndInv
  OBVIOUS
<1>1. TypeOK
  <2>1. jobs \in 0 .. MaxJobs /\ session \in 1 .. MaxSessions
        /\ timerCount \in 0 .. MaxTimers
    BY BoundsAssumption DEF Init
  <2>. QED BY <2>1 DEF Init, TypeOK
<1>2. TimersMatchCallbacks
  BY Zenon DEF Init, TimersMatchCallbacks
<1>3. IdsDiscipline /\ StartDiscipline /\ ContextDiscipline /\ LateDiscipline /\ SurvivorsLate
  BY DEF Init, IdsDiscipline, StartDiscipline, ContextDiscipline, LateDiscipline,
         SurvivorsLate, InJs, Initialised
<1>. QED BY <1>1, <1>2, <1>3 DEF IndInv

\* Under the invariant a context has an engine with its globals or nothing at
\* all, so preparing it loses no entry and leaves no stale timer behind.
LEMMA EnsureEngineOK ==
  ASSUME IndInv, Active, EnsureEngine
  PROVE  /\ Globals = callbacks
         /\ engine' = TRUE /\ needsInit' = FALSE
         /\ jobs' \in 0 .. MaxJobs
         /\ session' \in 1 .. MaxSessions
         /\ timerCount' \in 0 .. MaxTimers
         /\ callbacks # {} \/ armed # {} \/ failed # {} \/ starting # {}
              => session' = session /\ timerCount' = timerCount
BY BoundsAssumption
DEF IndInv, TypeOK, StartDiscipline, ContextDiscipline, EnsureEngine, Globals,
    Ready, Initialised, engineVars, Active

LEMMA EvaluateOK == ASSUME IndInv, Evaluate PROVE IndInv'
<1>1. /\ callbacks' = callbacks
      /\ callbacks # {} \/ armed # {} \/ failed # {} \/ starting # {}
           => session' = session /\ timerCount' = timerCount
      /\ engine' = TRUE /\ needsInit' = FALSE
      /\ jobs' \in 0 .. MaxJobs /\ session' \in 1 .. MaxSessions
      /\ timerCount' \in 0 .. MaxTimers
      /\ UNCHANGED <<lifecycle, armed, registered, records, starting, failed, cleared>>
      /\ running' = "script"
  BY EnsureEngineOK DEF Evaluate, startVars
<1>2. TypeOK'
  BY <1>1 DEF IndInv, TypeOK
<1>3. TimersMatchCallbacks'
  <2>1. \A id : Starting(id)' = Starting(id)
    BY <1>1 DEF Starting
  <2>. QED
    BY <1>1, <2>1 DEF IndInv, TimersMatchCallbacks, TimerFor, Active
<1>4. IdsDiscipline' /\ StartDiscipline'
  BY <1>1 DEF IndInv, IdsDiscipline, StartDiscipline, Starting, Active, InJs
<1>5. ContextDiscipline' /\ LateDiscipline' /\ SurvivorsLate'
  BY <1>1 DEF IndInv, ContextDiscipline, LateDiscipline, SurvivorsLate, Evaluate,
              Active, InJs, Initialised
<1>. QED BY <1>2, <1>3, <1>4, <1>5 DEF IndInv

LEMMA BareEngineOK == ASSUME IndInv, BareEngine PROVE IndInv'
<1>1. /\ UNCHANGED <<lifecycle, running, timerCount, needsInit, jobs, session, callbacks,
                     armed, registered, records, starting, failed, cleared>>
      /\ engine' = TRUE /\ Active /\ ~InJs /\ ~Initialised
  BY DEF BareEngine, timerVars, startVars, Ready
<1>2. callbacks = {} /\ failed = {} /\ armed = {} /\ starting = {} /\ jobs = 0
  BY <1>1 DEF IndInv, TypeOK, ContextDiscipline, StartDiscipline
<1>. QED
  BY <1>1, <1>2
  DEF IndInv, TypeOK, TimersMatchCallbacks, TimerFor, IdsDiscipline, StartDiscipline,
      ContextDiscipline, LateDiscipline, SurvivorsLate, Active, InJs, Starting,
      Initialised

\* Steps that touch neither the timers nor their entries and keep the context.
LEMMA QuietStepOK ==
  ASSUME IndInv, TypeOK', UNCHANGED <<timerVars, timerCount, session, engine, needsInit>>,
         ContextDiscipline', UNCHANGED lifecycle, starting # {} => InJs'
  PROVE  IndInv'
<1>1. UNCHANGED <<callbacks, armed, registered, records, starting, failed, cleared>>
  BY DEF timerVars, startVars
<1>2. TimersMatchCallbacks'
  <2>1. \A id : Starting(id)' = Starting(id)
    BY <1>1 DEF Starting
  <2>. QED
    BY <1>1, <2>1 DEF IndInv, TimersMatchCallbacks, TimerFor, Active
<1>3. IdsDiscipline' /\ StartDiscipline'
  BY <1>1 DEF IndInv, IdsDiscipline, StartDiscipline, Starting, Active
<1>4. LateDiscipline' /\ SurvivorsLate'
  BY <1>1 DEF IndInv, LateDiscipline, SurvivorsLate, Active
<1>. QED BY <1>2, <1>3, <1>4 DEF IndInv

LEMMA QuietOK ==
  ASSUME IndInv, QueueJob \/ ScriptEnd \/ Dispatch \/ NextJob \/ DrainEnd
  PROVE  IndInv'
<1>1. TypeOK'
  BY BoundsAssumption
  DEF IndInv, TypeOK, QueueJob, ScriptEnd, Dispatch, NextJob, DrainEnd,
      engineVars, timerVars, startVars
<1>2. ContextDiscipline'
  BY DEF IndInv, TypeOK, ContextDiscipline, QueueJob, ScriptEnd, Dispatch,
         NextJob, DrainEnd, engineVars, timerVars, startVars, InJs, Ready,
         Initialised, Active
<1>3. UNCHANGED <<timerVars, timerCount, session, engine, needsInit, lifecycle>>
  BY DEF QueueJob, ScriptEnd, Dispatch, NextJob, DrainEnd, engineVars, timerVars
<1>4. starting # {} => InJs'
  BY DEF IndInv, StartDiscipline, QueueJob, ScriptEnd, Dispatch, NextJob, DrainEnd,
         timerVars, startVars, InJs
<1>. QED BY <1>1, <1>2, <1>3, <1>4, QuietStepOK

LEMMA StoreTimerOK ==
  ASSUME IndInv, NEW interval \in BOOLEAN, StoreTimer(interval)
  PROVE  IndInv'
<1>. DEFINE entry == [id |-> timerCount, interval |-> interval]
<1>1. /\ callbacks' = callbacks \cup {entry}
      /\ starting' = starting \cup {entry}
      /\ timerCount' = timerCount + 1 /\ timerCount < MaxTimers
      /\ UNCHANGED <<lifecycle, running, engine, needsInit, jobs, session, armed,
                     registered, records, failed, cleared>>
      /\ InJs
  BY DEF StoreTimer, engineVars, FreshId
<1>2. timerCount \in TimerId /\ timerCount' \in 0 .. MaxTimers /\ timerCount \in Nat
  BY <1>1, BoundsAssumption DEF BoundsAssumption, IndInv, TypeOK, TimerId
<1>3. entry \in Entry
  BY <1>2 DEF Entry
<1>4. TypeOK'
  BY <1>1, <1>2, <1>3 DEF IndInv, TypeOK
<1>5. \A id : Starting(id)' <=> Starting(id) \/ id = timerCount
  <2>1. entry \in starting' /\ entry.id = timerCount /\ starting \subseteq starting'
        /\ \A c \in starting' : c \in starting \/ c.id = timerCount
    BY <1>1
  <2>. QED BY <2>1 DEF Starting
<1>6. /\ \A c \in callbacks \cup starting : c.id # timerCount /\ c.id \in Nat
      /\ timerCount \notin failed
  BY <1>2 DEF IndInv, TypeOK, IdsDiscipline, Entry, TimerId
<1>7. Active => \A t \in armed : t.id # timerCount /\ t.id \in Nat
  <2>1. \A t \in armed : t.id \in Nat
    BY DEF IndInv, TypeOK, Timer, TimerId
  <2>. QED BY <1>2, <2>1 DEF IndInv, StartDiscipline
<1>8. TimersMatchCallbacks'
  <2>. SUFFICES ASSUME Active PROVE TimersMatchCallbacks'
    BY <1>1 DEF TimersMatchCallbacks, Active
  <2>1. \A c : TimerFor(c)' = TimerFor(c) /\ TimerFor(c).id = c.id
    BY <1>1 DEF TimerFor
  <2>2. TimerFor(entry) \notin armed
    BY <1>7, <2>1
  <2>3. \A c \in callbacks' :
          TimerFor(c)' \in armed' <=> c.id \notin failed' /\ ~Starting(c.id)'
    BY <1>1, <1>5, <1>6, <2>1, <2>2 DEF IndInv, TimersMatchCallbacks
  <2>. QED BY <1>1, <2>3 DEF IndInv, TimersMatchCallbacks
<1>9. IdsDiscipline'
  <2>1. \A c \in callbacks' \cup starting' : c.id < timerCount'
    BY <1>1, <1>2, <1>6 DEF IndInv, IdsDiscipline
  <2>2. \A c, d \in callbacks' \cup starting' : c.id = d.id => c = d
    BY <1>1, <1>6 DEF IndInv, IdsDiscipline
  <2>3. \A id \in failed' : id < timerCount'
    BY <1>1, <1>2 DEF IndInv, TypeOK, IdsDiscipline, TimerId
  <2>. QED BY <2>1, <2>2, <2>3 DEF IdsDiscipline
<1>10. StartDiscipline'
  <2>1. \A c \in starting' : c.id \notin failed' /\ (c \in callbacks' \/ c.id \in cleared')
    BY <1>1, <1>6 DEF IndInv, StartDiscipline
  <2>2. Active => \A t \in armed :
                    t.id < timerCount + 1 /\ t.id \notin failed /\ ~Starting(t.id)'
    BY <1>2, <1>5, <1>7 DEF IndInv, StartDiscipline
  <2>. QED BY <1>1, <2>1, <2>2 DEF StartDiscipline, InJs, Active
<1>11. ContextDiscipline' /\ LateDiscipline' /\ SurvivorsLate'
  BY <1>1 DEF IndInv, ContextDiscipline, LateDiscipline, SurvivorsLate, Active, InJs,
              Initialised, StartDiscipline
<1>. QED BY <1>4, <1>8, <1>9, <1>10, <1>11 DEF IndInv

LEMMA StartTimerOK ==
  ASSUME IndInv, NEW c \in starting, StartTimer(c)
  PROVE  IndInv'
<1>. DEFINE timer == [session |-> session, id |-> c.id,
                      interval |-> c.interval, late |-> ~Active]
<1>1. /\ armed' = armed \cup {timer}
      /\ records' = {r \in records : r.id # c.id} \cup {timer}
      /\ registered' = IF Active THEN registered \cup {timer} ELSE registered
      /\ starting' = starting \ {c}
      /\ UNCHANGED <<lifecycle, running, engine, needsInit, jobs, session, timerCount,
                     callbacks, failed, cleared>>
  BY DEF StartTimer, engineVars
<1>2. InJs /\ Initialised /\ lifecycle # "disposed" /\ c \in Entry
  BY DEF IndInv, TypeOK, StartDiscipline, ContextDiscipline, InJs
<1>3. TypeOK'
  <2>1. timer \in Timer
    BY <1>2 DEF IndInv, TypeOK, Entry, Timer, Active
  <2>. QED BY <1>1, <2>1 DEF IndInv, TypeOK
<1>4. \A id : Starting(id)' <=> Starting(id) /\ id # c.id
  BY <1>1 DEF IndInv, IdsDiscipline, Starting
<1>5. Starting(c.id) /\ c.id \notin failed /\ c.id < timerCount
  BY DEF IndInv, StartDiscipline, IdsDiscipline, Starting
<1>6. TimersMatchCallbacks'
  <2>. SUFFICES ASSUME Active PROVE TimersMatchCallbacks'
    BY <1>1 DEF TimersMatchCallbacks, Active
  <2>1. \A t \in armed : t.id # c.id
    BY <1>5 DEF IndInv, StartDiscipline
  <2>2. armed' = armed \cup {timer} /\ registered' = armed' /\ records' = armed'
    BY <1>1, <2>1 DEF IndInv, TimersMatchCallbacks
  <2>3. \A t, u \in armed' : t.id = u.id => t = u
    BY <2>1, <2>2 DEF IndInv, TimersMatchCallbacks
  <2>4. ASSUME NEW d \in callbacks
        PROVE  TimerFor(d)' \in armed' <=> d.id \notin failed' /\ ~Starting(d.id)'
    <3>1. TimerFor(d)' = TimerFor(d) /\ TimerFor(d).id = d.id
      BY <1>1 DEF TimerFor
    <3>2. CASE d.id = c.id
      <4>1. d = c
        BY <3>2 DEF IndInv, IdsDiscipline
      <4>2. TimerFor(d) = timer
        BY <4>1 DEF TimerFor
      <4>. QED BY <1>1, <1>4, <1>5, <2>2, <3>1, <3>2, <4>2
    <3>3. CASE d.id # c.id
      <4>1. TimerFor(d) # timer
        BY <3>1, <3>3
      <4>. QED BY <1>1, <1>4, <2>2, <3>1, <3>3, <4>1 DEF IndInv, TimersMatchCallbacks
    <3>. QED BY <3>2, <3>3
  <2>5. timer.id \notin cleared => [id |-> timer.id, interval |-> timer.interval] \in callbacks
    <3>1. c = [id |-> c.id, interval |-> c.interval]
      BY <1>2 DEF Entry
    <3>. QED BY <3>1 DEF IndInv, StartDiscipline
  <2>6. \A t \in armed' :
          /\ t.session = session /\ ~t.late
          /\ t.id \notin cleared => [id |-> t.id, interval |-> t.interval] \in callbacks
    <3>1. timer.session = session /\ ~timer.late
      OBVIOUS
    <3>. HIDE DEF timer
    <3>. QED BY <2>2, <2>5, <3>1, Zenon DEF IndInv, TimersMatchCallbacks
  <2>7. \A t \in armed' :
          /\ t.session = session' /\ ~t.late
          /\ t.id \notin cleared' => [id |-> t.id, interval |-> t.interval] \in callbacks'
    BY <1>1, <2>6
  <2>8. \A d \in callbacks' :
          TimerFor(d)' \in armed' <=> d.id \notin failed' /\ ~Starting(d.id)'
    BY <1>1, <2>4
  <2>. QED BY <2>2, <2>3, <2>7, <2>8 DEF TimersMatchCallbacks
<1>7. IdsDiscipline'
  BY <1>1 DEF IndInv, IdsDiscipline
<1>8. StartDiscipline'
  <2>1. Active => \A t \in armed' :
                    t.id < timerCount /\ t.id \notin failed /\ ~Starting(t.id)'
    BY <1>1, <1>4, <1>5 DEF IndInv, StartDiscipline
  <2>. QED BY <1>1, <1>2, <2>1 DEF IndInv, StartDiscipline, InJs, Active
<1>9. ContextDiscipline' /\ LateDiscipline' /\ SurvivorsLate'
  <2>1. ~Active => timer.late
    OBVIOUS
  <2>2. LateDiscipline'
    BY <1>1, <2>1 DEF IndInv, LateDiscipline, Active
  <2>. QED
    BY <1>1, <1>2, <2>2 DEF IndInv, ContextDiscipline, SurvivorsLate, InJs, Initialised
<1>. QED BY <1>3, <1>6, <1>7, <1>8, <1>9 DEF IndInv

LEMMA DelayThrowsOK ==
  ASSUME IndInv, NEW c \in starting, DelayThrows(c)
  PROVE  IndInv'
<1>1. /\ starting' = starting \ {c}
      /\ failed' = failed \cup {c.id}
      /\ UNCHANGED <<lifecycle, running, engine, needsInit, jobs, session, timerCount,
                     callbacks, armed, registered, records, cleared>>
  BY DEF DelayThrows, engineVars
<1>2. InJs /\ Initialised /\ c \in Entry /\ c.id < timerCount /\ Starting(c.id)
  BY DEF IndInv, TypeOK, StartDiscipline, ContextDiscipline, IdsDiscipline, InJs, Starting
<1>3. TypeOK'
  BY <1>1, <1>2 DEF IndInv, TypeOK, Entry
<1>4. \A id : Starting(id)' <=> Starting(id) /\ id # c.id
  BY <1>1 DEF IndInv, IdsDiscipline, Starting
<1>5. \A d : TimerFor(d)' = TimerFor(d)
  BY <1>1 DEF TimerFor
<1>6. TimersMatchCallbacks'
  <2>1. \A id : id \notin failed' /\ ~Starting(id)' <=> id \notin failed /\ ~Starting(id)
    BY <1>1, <1>2, <1>4
  <2>. QED BY <1>1, <1>5, <2>1 DEF IndInv, TimersMatchCallbacks, Active
<1>7. IdsDiscipline'
  BY <1>1, <1>2 DEF IndInv, IdsDiscipline
<1>8. StartDiscipline'
  <2>1. \A d \in starting' : d.id # c.id
    BY <1>1 DEF IndInv, IdsDiscipline
  <2>2. Active => \A t \in armed :
                    t.id < timerCount /\ t.id \notin failed' /\ ~Starting(t.id)'
    BY <1>1, <1>2, <1>4 DEF IndInv, StartDiscipline
  <2>. QED BY <1>1, <1>2, <2>1, <2>2 DEF IndInv, StartDiscipline, InJs, Active
<1>9. ContextDiscipline' /\ LateDiscipline' /\ SurvivorsLate'
  BY <1>1, <1>2 DEF IndInv, ContextDiscipline, LateDiscipline, SurvivorsLate, Active, InJs,
              Initialised
<1>. QED BY <1>3, <1>6, <1>7, <1>8, <1>9 DEF IndInv

LEMMA ClearTimerOK ==
  ASSUME IndInv, NEW id \in TimerId, ClearTimer(id)
  PROVE  IndInv'
<1>. DEFINE cancelled == {r \in records : r.id = id}
<1>1. /\ callbacks' = {c \in callbacks : c.id # id}
      /\ records' = records \ cancelled
      /\ registered' = registered \ cancelled
      /\ armed' = armed \ cancelled
      /\ cleared' = cleared \cup {c.id : c \in {d \in starting : d.id = id}}
      /\ UNCHANGED <<lifecycle, running, engine, needsInit, jobs, session, timerCount,
                     starting, failed>>
  BY DEF ClearTimer, engineVars
<1>2. TypeOK'
  BY <1>1 DEF IndInv, TypeOK, Entry
<1>3. \A i : Starting(i)' = Starting(i)
  BY <1>1 DEF Starting
<1>4. TimersMatchCallbacks'
  <2>. SUFFICES ASSUME Active PROVE TimersMatchCallbacks'
    BY <1>1 DEF TimersMatchCallbacks, Active
  <2>1. \A c : TimerFor(c)' = TimerFor(c) /\ TimerFor(c).id = c.id
    BY <1>1 DEF TimerFor
  <2>2. /\ armed' = {t \in armed : t.id # id}
        /\ registered' = armed' /\ records' = armed'
    BY <1>1 DEF IndInv, TimersMatchCallbacks
  <2>3. \A c \in callbacks' :
          TimerFor(c)' \in armed' <=> c.id \notin failed' /\ ~Starting(c.id)'
    BY <1>1, <1>3, <2>1, <2>2 DEF IndInv, TimersMatchCallbacks
  <2>4. \A t \in armed' :
          /\ t.session = session /\ ~t.late
          /\ t.id \notin cleared' => [id |-> t.id, interval |-> t.interval] \in callbacks'
    BY <1>1, <2>2 DEF IndInv, TimersMatchCallbacks
  <2>. QED BY <1>1, <2>2, <2>3, <2>4 DEF IndInv, TimersMatchCallbacks
<1>5. IdsDiscipline'
  BY <1>1 DEF IndInv, IdsDiscipline
<1>6. StartDiscipline'
  BY <1>1, <1>3 DEF IndInv, StartDiscipline, Active, InJs
<1>7. ContextDiscipline' /\ LateDiscipline' /\ SurvivorsLate'
  BY <1>1 DEF IndInv, ContextDiscipline, LateDiscipline, SurvivorsLate, Active, InJs,
              Initialised
<1>. QED BY <1>2, <1>4, <1>5, <1>6, <1>7 DEF IndInv

LEMMA FireOK ==
  ASSUME IndInv, NEW t \in armed, Fire(t)
  PROVE  IndInv'
<1>. USE DEF Consumed
<1>0. /\ UNCHANGED <<lifecycle, starting, failed, cleared>> /\ Expire(t) /\ ~InJs
      /\ starting = {}
  BY DEF Fire, startVars, IndInv, StartDiscipline
<1>1. CASE ~Active
  <2>1. UNCHANGED <<running, timerCount, engine, needsInit, jobs, session, callbacks>>
    BY <1>1 DEF Fire, engineVars
  <2>2. /\ armed' \subseteq armed /\ registered' \subseteq registered
        /\ records' \subseteq records
        /\ registered' = registered \cap armed' /\ records' \subseteq armed'
    BY <1>0 DEF Expire, IndInv, TypeOK
  <2>3. TypeOK' /\ TimersMatchCallbacks'
    BY <1>0, <1>1, <2>1, <2>2 DEF IndInv, TypeOK, TimersMatchCallbacks, Active
  <2>4. IdsDiscipline' /\ StartDiscipline'
    BY <1>0, <1>1, <2>1 DEF IndInv, IdsDiscipline, StartDiscipline, Active
  <2>5. ContextDiscipline' /\ LateDiscipline' /\ SurvivorsLate'
    BY <1>0, <1>1, <2>1, <2>2 DEF IndInv, ContextDiscipline, LateDiscipline,
                SurvivorsLate, Active, InJs, Initialised
  <2>. QED BY <2>3, <2>4, <2>5 DEF IndInv
<1>2. CASE Active
  <2>1. EnsureEngine
    BY <1>2 DEF Fire
  <2>2. /\ Globals = callbacks
        /\ engine' = TRUE /\ needsInit' = FALSE
        /\ jobs' \in 0 .. MaxJobs /\ session' \in 1 .. MaxSessions
        /\ timerCount' \in 0 .. MaxTimers
        /\ session' = session /\ timerCount' = timerCount
    BY <1>2, <2>1, EnsureEngineOK
  <2>3. /\ callbacks' = callbacks \ {d \in callbacks : d.id = t.id /\ ~d.interval}
        /\ running' \in {"idle", "script"}
    BY <1>2, <2>2 DEF Fire
  <2>4. \A d \in callbacks : d.id = t.id => TimerFor(d) = t /\ d.interval = t.interval
    <3>1. SUFFICES ASSUME NEW d \in callbacks, d.id = t.id
                   PROVE  TimerFor(d) = t /\ d.interval = t.interval
      OBVIOUS
    <3>2. TimerFor(d).id = d.id /\ TimerFor(d).interval = d.interval
      BY DEF TimerFor
    <3>3. t.id \notin failed /\ ~Starting(t.id)
      BY <1>2 DEF IndInv, StartDiscipline
    <3>4. TimerFor(d) \in armed
      BY <1>2, <3>1, <3>3 DEF IndInv, TimersMatchCallbacks
    <3>. QED BY <1>2, <3>1, <3>2, <3>4 DEF IndInv, TimersMatchCallbacks
  <2>5. callbacks' = {d \in callbacks : d.id # t.id \/ t.interval}
    BY <2>3, <2>4
  <2>6. armed' = {u \in armed : u.id # t.id \/ t.interval}
        /\ registered' = armed' /\ records' = armed'
    <3>1. \A u \in armed : u.id = t.id => u = t
      BY <1>2 DEF IndInv, TimersMatchCallbacks
    <3>. QED BY <1>0, <1>2, <3>1 DEF Expire, IndInv, TimersMatchCallbacks
  <2>7. \A d : TimerFor(d)' = TimerFor(d) /\ TimerFor(d).id = d.id
    BY <2>2 DEF TimerFor
  <2>8. \A id : Starting(id)' = Starting(id)
    BY <1>0 DEF Starting
  <2>9. TimersMatchCallbacks'
    <3>1. \A d \in callbacks' :
            TimerFor(d)' \in armed' <=> d.id \notin failed' /\ ~Starting(d.id)'
      BY <1>0, <1>2, <2>5, <2>6, <2>7, <2>8 DEF IndInv, TimersMatchCallbacks
    <3>2. \A u \in armed' :
            /\ u.session = session /\ ~u.late
            /\ u.id \notin cleared => [id |-> u.id, interval |-> u.interval] \in callbacks'
      BY <1>2, <2>5, <2>6 DEF IndInv, TimersMatchCallbacks
    <3>. QED BY <1>0, <1>2, <2>2, <2>6, <3>1, <3>2 DEF IndInv, TimersMatchCallbacks
  <2>10. TypeOK'
    BY <1>0, <2>2, <2>3, <2>6 DEF IndInv, TypeOK
  <2>11. IdsDiscipline' /\ StartDiscipline'
    BY <1>0, <1>2, <2>2, <2>3, <2>6, <2>8
    DEF IndInv, IdsDiscipline, StartDiscipline, Active
  <2>12. ContextDiscipline' /\ LateDiscipline' /\ SurvivorsLate'
    BY <1>0, <1>2, <2>2 DEF IndInv, ContextDiscipline, LateDiscipline, SurvivorsLate,
          Active, InJs, Initialised
  <2>. QED BY <2>9, <2>10, <2>11, <2>12 DEF IndInv
<1>. QED BY <1>1, <1>2

LEMMA FreeEngineOK ==
  ASSUME IndInv, NEW lc, lc = lifecycle \/ (Active /\ lc = "disposing"),
         FreeEngine(lc), starting = {}
  PROVE  IndInv'
<1>. USE DEF Cancelled
<1>0. starting' = {} /\ failed' = {} /\ cleared' = {} /\ callbacks' = {}
  BY DEF FreeEngine
<1>1. TypeOK'
  <2>1. needsInit' \in BOOLEAN /\ engine' \in BOOLEAN
    BY DEF FreeEngine
  <2>2. lifecycle' \in {"active", "disposing", "disposed"} /\ running' = "idle"
    BY DEF FreeEngine, IndInv, TypeOK
  <2>3. jobs' \in 0 .. MaxJobs
    BY BoundsAssumption DEF BoundsAssumption, FreeEngine
  <2>. QED BY <1>0, <2>1, <2>2, <2>3 DEF IndInv, TypeOK, FreeEngine
<1>2. Active' => Active
  BY DEF FreeEngine, Active
<1>3. Active => armed' = {} /\ registered' = {} /\ records' = {}
  BY DEF FreeEngine, IndInv, TimersMatchCallbacks
<1>4. TimersMatchCallbacks'
  BY <1>0, <1>2, <1>3 DEF TimersMatchCallbacks
<1>5. LateDiscipline'
  BY <1>3 DEF FreeEngine, IndInv, LateDiscipline
<1>6. IdsDiscipline' /\ StartDiscipline'
  BY <1>0, <1>2, <1>3 DEF IdsDiscipline, StartDiscipline
<1>7. ContextDiscipline' /\ SurvivorsLate'
  BY <1>0, <1>2, <1>3 DEF FreeEngine, ContextDiscipline, SurvivorsLate, InJs
<1>. QED BY <1>1, <1>4, <1>5, <1>6, <1>7 DEF IndInv

LEMMA StartCloseOK ==
  ASSUME IndInv, NEW lc, lc = lifecycle \/ (Active /\ lc = "disposing"),
         ~InJs, StartClose(lc)
  PROVE  IndInv'
<1>1. CASE FreeEngine(lc)
  <2>1. starting = {}
    BY DEF IndInv, StartDiscipline
  <2>. QED BY <1>1, <2>1, FreeEngineOK
<1>2. CASE /\ jobs > 0 /\ lifecycle' = lc /\ running' = "closing" /\ jobs' = jobs - 1
           /\ UNCHANGED <<timerCount, engine, needsInit, session, timerVars>>
  <2>0. UNCHANGED <<callbacks, armed, registered, records, starting, failed, cleared>>
        /\ starting = {}
    BY <1>2 DEF timerVars, startVars, IndInv, StartDiscipline
  <2>1. TypeOK'
    BY <1>2, <2>0, BoundsAssumption
    DEF BoundsAssumption, IndInv, TypeOK, Active
  <2>2. TimersMatchCallbacks'
    <3>1. \A id : Starting(id)' = Starting(id)
      BY <2>0 DEF Starting
    <3>. QED
      BY <1>2, <2>0, <3>1 DEF IndInv, TimersMatchCallbacks, TimerFor, Active
  <2>3. lifecycle # "disposed"
    BY <1>2 DEF IndInv, ContextDiscipline, Initialised
  <2>4. LateDiscipline'
    BY <1>2, <2>0 DEF IndInv, TimersMatchCallbacks, LateDiscipline, Active
  <2>5. IdsDiscipline' /\ StartDiscipline'
    BY <1>2, <2>0 DEF IndInv, IdsDiscipline, StartDiscipline, Starting, Active
  <2>6. ContextDiscipline' /\ SurvivorsLate'
    BY <1>2, <2>0, <2>3 DEF IndInv, ContextDiscipline, SurvivorsLate, Active, InJs,
                  Initialised
  <2>. QED BY <2>1, <2>2, <2>4, <2>5, <2>6 DEF IndInv
<1>. QED BY <1>1, <1>2 DEF StartClose

LEMMA CloseOK == ASSUME IndInv, Close \/ Dispose \/ CloseEnd PROVE IndInv'
<1>1. CASE Close
  BY <1>1, StartCloseOK DEF Close
<1>2. CASE Dispose
  BY <1>2, StartCloseOK DEF Dispose
<1>3. CASE CloseEnd
  BY <1>3, FreeEngineOK DEF CloseEnd
<1>. QED BY <1>1, <1>2, <1>3

LEMMA StepOK == IndInv /\ [Next]_vars => IndInv'
<1>. SUFFICES ASSUME IndInv, [Next]_vars PROVE IndInv'
  OBVIOUS
<1>1. CASE Evaluate
  BY <1>1, EvaluateOK
<1>2. CASE BareEngine
  BY <1>2, BareEngineOK
<1>3. CASE \E interval \in BOOLEAN : StoreTimer(interval)
  BY <1>3, StoreTimerOK
<1>9. CASE \E c \in starting : StartTimer(c) \/ DelayThrows(c)
  BY <1>9, StartTimerOK, DelayThrowsOK
<1>4. CASE \E id \in TimerId : ClearTimer(id)
  BY <1>4, ClearTimerOK
<1>5. CASE QueueJob \/ ScriptEnd \/ Dispatch \/ NextJob \/ DrainEnd
  BY <1>5, QuietOK
<1>6. CASE \E t \in armed : Fire(t)
  BY <1>6, FireOK
<1>7. CASE Close \/ Dispose \/ CloseEnd
  BY <1>7, CloseOK
<1>8. CASE UNCHANGED vars
  <2>1. UNCHANGED <<timerVars, timerCount, engineVars, lifecycle, running>>
    BY <1>8 DEF vars
  <2>2. TypeOK' /\ ContextDiscipline'
    BY <2>1 DEF IndInv, TypeOK, ContextDiscipline, InJs, Initialised, timerVars,
                startVars, engineVars, Active
  <2>3. starting # {} => InJs'
    BY <2>1 DEF IndInv, StartDiscipline, InJs
  <2>. QED BY <2>1, <2>2, <2>3, QuietStepOK DEF engineVars
<1>. QED BY <1>1, <1>2, <1>3, <1>4, <1>5, <1>6, <1>7, <1>8, <1>9 DEF Next

LEMMA Inductive == Spec => []IndInv
BY InitOK, StepOK, PTL DEF Spec

----------------------------------------------------------------------------
\* Every variable keeps its type, for every bound (type invariant of the model
\* of quickjs_runtime2.dart and javascript_runtime.dart).
THEOREM TypeCorrect == Spec => []TypeOK
<1>1. IndInv => TypeOK
  BY DEF IndInv
<1>. QED BY <1>1, Inductive, PTL

\* The JavaScript timer table and the Dart timers of an active runtime agree in
\* every reachable state, across firings, clears, drains and close(), but for the
\* entries whose delay is still converted or could not be.
THEOREM TimersCorrect == Spec => []TimersMatchCallbacks
<1>1. IndInv => TimersMatchCallbacks
  BY DEF IndInv
<1>. QED BY <1>1, Inductive, PTL

\* dispose() cancels every Timer but those its own drain created.
THEOREM DisposeCancelsEarlierTimers == Spec => []OnlyLateTimersSurvive
<1>1. IndInv => OnlyLateTimersSurvive
  BY DEF IndInv, LateDiscipline, SurvivorsLate, OnlyLateTimersSurvive, Active
<1>. QED BY <1>1, Inductive, PTL

\* The Timers follow the lifecycle: matched while the runtime is active, and only
\* the late ones left when it is disposed.
THEOREM TimersFollowLifecycle == Spec => []TimersMatchLifecycle
BY TimersCorrect, DisposeCancelsEarlierTimers, PTL DEF TimersMatchLifecycle

\* evaluate, timers and drains only run user code in an initialised context.
THEOREM GlobalsBeforeScripts == Spec => []ScriptsSeeGlobals
<1>1. IndInv => ScriptsSeeGlobals
  <2>. SUFFICES ASSUME IndInv PROVE ScriptsSeeGlobals
    OBVIOUS
  <2>1. InJs => Initialised
    BY DEF IndInv, ContextDiscipline
  <2>. QED BY <2>1 DEF IndInv, ContextDiscipline, ScriptsSeeGlobals
<1>. QED BY <1>1, Inductive, PTL

\* Disposal is terminal: nothing that happens after it touches the engine.
THEOREM DisposedStaysDisposed == Spec => DisposalIsTerminal
<1>1. ASSUME IndInv, [Next]_vars, lifecycle = "disposed"
      PROVE  lifecycle' = "disposed" /\ ~engine' /\ running' = "idle"
  <2>1. ~engine /\ running = "idle" /\ ~InJs /\ ~Active /\ ~Initialised /\ jobs = 0
    BY <1>1 DEF IndInv, TypeOK, ContextDiscipline, InJs, Active, Initialised
  <2>2. CASE \E t \in armed : Fire(t)
    BY <1>1, <2>1, <2>2 DEF Fire, engineVars
  <2>3. CASE Close
    BY <1>1, <2>1, <2>3 DEF Close, StartClose, FreeEngine
  <2>4. CASE UNCHANGED vars
    BY <1>1, <2>1, <2>4 DEF vars, engineVars
  <2>5. starting = {}
    BY <1>1, <2>1 DEF IndInv, StartDiscipline
  <2>. QED
    BY <1>1, <2>1, <2>2, <2>3, <2>4, <2>5
    DEF Next, Evaluate, BareEngine, StoreTimer, ClearTimer, QueueJob, Ready,
        ScriptEnd, Dispatch, NextJob, DrainEnd, Dispose, CloseEnd
<1>2. IndInv /\ [Next]_vars =>
        [lifecycle = "disposed" =>
           lifecycle' = "disposed" /\ ~engine' /\ running' = "idle"]_vars
  BY <1>1
<1>. QED BY <1>2, Inductive, PTL DEF Spec, DisposalIsTerminal

\* A handle of setTimeout never names a second timer of the same context.
THEOREM HandlesAreUnique == Spec => IdsAreNotReused
<1>1. ASSUME IndInv, [Next]_vars, session' = session, NEW c \in callbacks'
      PROVE  c \in callbacks \/ c.id >= timerCount
  <2>1. timerCount \in Nat
    BY <1>1 DEF IndInv, TypeOK
  <2>2. CASE \E interval \in BOOLEAN : StoreTimer(interval)
    BY <1>1, <2>1, <2>2 DEF StoreTimer, FreshId
  <2>7. CASE \E d \in starting : StartTimer(d) \/ DelayThrows(d)
    BY <1>1, <2>7 DEF StartTimer, DelayThrows
  <2>3. CASE \E t \in armed : Fire(t)
    BY <1>1, <2>3 DEF Fire, Globals
  <2>4. CASE Evaluate \/ BareEngine \/ QueueJob \/ ScriptEnd \/ Dispatch
             \/ NextJob \/ DrainEnd \/ \E id \in TimerId : ClearTimer(id)
    BY <1>1, <2>4 DEF Evaluate, Globals, BareEngine, QueueJob, ScriptEnd, Dispatch,
         NextJob, DrainEnd, ClearTimer, timerVars
  <2>5. CASE Close \/ Dispose \/ CloseEnd
    BY <1>1, <2>5 DEF Close, Dispose, CloseEnd, StartClose, FreeEngine, timerVars
  <2>6. CASE UNCHANGED vars
    BY <1>1, <2>6 DEF vars, timerVars
  <2>. QED BY <1>1, <2>2, <2>3, <2>4, <2>5, <2>6, <2>7 DEF Next
<1>2. IndInv /\ [Next]_vars =>
        [session' = session =>
           \A c \in callbacks' : c \in callbacks \/ c.id >= timerCount]_vars
  BY <1>1
<1>. QED BY <1>2, Inductive, PTL DEF Spec, IdsAreNotReused
=============================================================================
