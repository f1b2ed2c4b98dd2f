---------------------------- MODULE EngineProofs ----------------------------
(***************************************************************************)
(* Proofs about the two sides of the engine.  Its time limit               *)
(* (ExecutionTimeout) is neither cut short nor overrun, for any limit,     *)
(* polling interval, depth of nesting and length of the job queue.  Its    *)
(* promises (QjsPromise) are decided by one authority, run their reactions *)
(* in order and pass rejections on, for any promises and any number of     *)
(* resolving functions, reactions and jobs.                                *)
(***************************************************************************)
EXTENDS ExecutionTimeout, QjsPromise, SequenceTheorems, TLAPS

----------------------------------------------------------------------------
(* The time limit. *)


\* No entry that set the deadline is younger than it: that is why it can share it.
GoodStack(s, l) ==
  /\ s \in Seq(Entries) /\ Len(s) <= Depth
  /\ \A i \in 1 .. Len(s) : s[i].kind # "inspect" => s[i].age + l >= Timeout

\* The steps since the deadline passed are steps towards the next poll.
OverIsPolled ==
  /\ left > 0 => over = 0
  /\ over + counter <= Polls

LimitInv ==
  /\ LimitTypeOK
  /\ GoodStack(stack, left)
  /\ OverIsPolled

----------------------------------------------------------------------------
(* What becomes of a stack. *)

LEMMA NonEmpty ==
  ASSUME NEW S, NEW s \in Seq(S), s # <<>>
  PROVE  Len(s) \in Nat \ {0} /\ Len(s) \in 1 .. Len(s) /\ s[Len(s)] \in S
<1>1. Len(s) \in Nat \ {0}
  BY EmptySeq
<1>2. Len(s) \in 1 .. Len(s)
  BY <1>1
<1>. QED BY <1>1, <1>2, ElementOfSeq

LEMMA PoppedStack ==
  ASSUME NEW s, NEW l \in Nat, GoodStack(s, l), s # <<>>
  PROVE  /\ GoodStack(SubSeq(s, 1, Len(s) - 1), l)
         /\ Len(SubSeq(s, 1, Len(s) - 1)) = Len(s) - 1
<1>. DEFINE t == SubSeq(s, 1, Len(s) - 1)
<1>1. s \in Seq(Entries) /\ Len(s) \in Nat \ {0}
  BY NonEmpty DEF GoodStack
<1>2. \A i \in 1 .. Len(s) - 1 : s[i] \in Entries
  BY <1>1, ElementOfSeq
<1>3. /\ t \in Seq(Entries)
      /\ Len(t) = Len(s) - 1
      /\ \A i \in 1 .. Len(s) - 1 : t[i] = s[i]
  <2>1. /\ t \in Seq(Entries)
        /\ Len(t) = IF 1 <= Len(s) - 1 THEN Len(s) - 1 - 1 + 1 ELSE 0
        /\ \A i \in 1 .. Len(s) - 1 - 1 + 1 : t[i] = s[1 + i - 1]
    BY <1>1, <1>2, SubSeqProperties
  <2>2. PICK n \in Nat \ {0} : n = Len(s)
    BY <1>1
  <2>3. (IF 1 <= n - 1 THEN n - 1 - 1 + 1 ELSE 0) = n - 1
    OBVIOUS
  <2>4. n - 1 - 1 + 1 = n - 1 /\ \A i \in 1 .. n - 1 : 1 + i - 1 = i
    OBVIOUS
  <2>. HIDE DEF t
  <2>. QED BY <2>1, <2>2, <2>3, <2>4
<1>4. Len(t) <= Depth
  BY <1>1, <1>3, BoundsAssumption DEF GoodStack
<1>5. \A i \in 1 .. Len(t) : t[i].kind # "inspect" => t[i].age + l >= Timeout
  BY <1>1, <1>3 DEF GoodStack
<1>. QED BY <1>3, <1>4, <1>5 DEF GoodStack

\* A frame that is replaced by one of the same age and kind.
LEMMA ReplacedTop ==
  ASSUME NEW s, NEW l \in Nat, GoodStack(s, l), s # <<>>,
         NEW f \in Entries, f.age = s[Len(s)].age, f.kind = s[Len(s)].kind
  PROVE  /\ GoodStack([s EXCEPT ![Len(s)] = f], l)
         /\ Len([s EXCEPT ![Len(s)] = f]) = Len(s)
         /\ [s EXCEPT ![Len(s)] = f][Len(s)] = f
<1>. DEFINE t == [s EXCEPT ![Len(s)] = f]
<1>1. s \in Seq(Entries) /\ Len(s) \in 1 .. Len(s)
  BY NonEmpty DEF GoodStack
<1>2. /\ t \in Seq(Entries) /\ Len(t) = Len(s)
      /\ \A j \in 1 .. Len(s) : t[j] = IF j = Len(s) THEN f ELSE s[j]
  BY <1>1, ExceptSeq
<1>3. \A i \in 1 .. Len(s) : t[i].age = s[i].age /\ t[i].kind = s[i].kind
  BY <1>2
<1>. QED BY <1>1, <1>2, <1>3 DEF GoodStack

\* The flags of the innermost entry.
LEMMA FlaggedTop ==
  ASSUME NEW s, NEW l \in Nat, GoodStack(s, l), s # <<>>, NEW b \in BOOLEAN
  PROVE  /\ GoodStack([s EXCEPT ![Len(s)].inJob = b], l)
         /\ Len([s EXCEPT ![Len(s)].inJob = b]) = Len(s)
         /\ [s EXCEPT ![Len(s)].inJob = b][Len(s)].inJob = b
         /\ GoodStack([s EXCEPT ![Len(s)].inDart = b], l)
         /\ Len([s EXCEPT ![Len(s)].inDart = b]) = Len(s)
<1>1. s[Len(s)] \in Entries
  BY NonEmpty DEF GoodStack
<1>2. PICK f : f = [s[Len(s)] EXCEPT !.inJob = b]
  OBVIOUS
<1>3. f \in Entries /\ f.age = s[Len(s)].age /\ f.kind = s[Len(s)].kind /\ f.inJob = b
  BY <1>1, <1>2 DEF Entries
<1>4. [s EXCEPT ![Len(s)].inJob = b] = [s EXCEPT ![Len(s)] = f]
  BY <1>2
<1>5. PICK g : g = [s[Len(s)] EXCEPT !.inDart = b]
  OBVIOUS
<1>6. g \in Entries /\ g.age = s[Len(s)].age /\ g.kind = s[Len(s)].kind
  BY <1>1, <1>5 DEF Entries
<1>7. [s EXCEPT ![Len(s)].inDart = b] = [s EXCEPT ![Len(s)] = g]
  BY <1>5
<1>8. /\ GoodStack([s EXCEPT ![Len(s)] = f], l)
      /\ Len([s EXCEPT ![Len(s)] = f]) = Len(s)
      /\ [s EXCEPT ![Len(s)] = f][Len(s)] = f
  BY <1>3, ReplacedTop
<1>9. /\ GoodStack([s EXCEPT ![Len(s)] = g], l)
      /\ Len([s EXCEPT ![Len(s)] = g]) = Len(s)
  BY <1>6, ReplacedTop
<1>. QED BY <1>3, <1>4, <1>7, <1>8, <1>9

\* Where JavaScript runs, its end leaves a good stack.
LEMMA EndedStack ==
  ASSUME LimitInv, Running
  PROVE  GoodStack(Ended, left)
<1>1. stack # <<>> /\ GoodStack(stack, left) /\ left \in Nat
  BY TimeoutAssumption DEF LimitInv, LimitTypeOK, Running
<1>2. GoodStack([stack EXCEPT ![Len(stack)].inJob = FALSE], left)
  BY <1>1, FlaggedTop
<1>3. GoodStack(Pop, left)
  BY <1>1, PoppedStack DEF Pop
<1>. QED BY <1>2, <1>3 DEF Ended

----------------------------------------------------------------------------
(* The invariant. *)

LEMMA LimitInitOK == LimitInit => LimitInv
<1>. SUFFICES ASSUME LimitInit PROVE LimitInv
  OBVIOUS
<1>1. stack \in Seq(Entries) /\ Len(stack) = 0
  BY EmptySeq DEF LimitInit
<1>2. LimitTypeOK
  BY <1>1, TimeoutAssumption, BoundsAssumption DEF LimitInit, LimitTypeOK
<1>3. GoodStack(stack, left)
  BY <1>1, BoundsAssumption DEF GoodStack
<1>4. OverIsPolled
  BY TimeoutAssumption DEF LimitInit, OverIsPolled
<1>. QED BY <1>2, <1>3, <1>4 DEF LimitInv

\* Any step that leaves the clocks alone and a good stack.
LEMMA OnlyStack ==
  ASSUME LimitInv, UNCHANGED <<left, counter, over>>, GoodStack(stack', left),
         queue' \in 0 .. MaxJobs, spent' \in 0 .. MaxSpent
  PROVE  LimitInv'
BY DEF LimitInv, LimitTypeOK, GoodStack, OverIsPolled

LEMMA SpendOK == ASSUME LimitInv, Spend PROVE spent' \in 0 .. MaxSpent
BY BoundsAssumption DEF LimitInv, LimitTypeOK, Spend

LEMMA EnterOK == ASSUME LimitInv, NEW kind \in EntryKinds, Enter(kind) PROVE LimitInv'
<1>. DEFINE f == [kind |-> kind, age |-> 0, inJob |-> FALSE, inDart |-> FALSE]
<1>1. f \in Entries /\ stack \in Seq(Entries) /\ Len(stack) \in Nat
  BY TimeoutAssumption, LenProperties DEF Entries, LimitInv, LimitTypeOK
<1>2. /\ stack' \in Seq(Entries) /\ Len(stack') = Len(stack) + 1
      /\ \A i \in 1 .. Len(stack) + 1 :
           stack'[i] = IF i <= Len(stack) THEN stack[i] ELSE f
  BY <1>1, AppendProperties DEF Enter
<1>3. /\ left' = (IF kind = "inspect" THEN left ELSE Timeout)
      /\ over' = (IF left' > 0 THEN 0 ELSE over)
      /\ counter' = counter /\ queue' = queue
  BY DEF Enter, Fresh
<1>4. \A i \in 1 .. Len(stack') : stack'[i] \in Entries
  BY <1>2, ElementOfSeq
<1>5. \A i \in 1 .. Len(stack') : stack'[i].age \in Nat
  BY <1>4, TimeoutAssumption DEF Entries
<1>6. \A i \in 1 .. Len(stack) : stack[i].kind # "inspect" => stack[i].age + left >= Timeout
  BY DEF LimitInv, GoodStack
<1>7. \A i \in 1 .. Len(stack') : stack'[i].kind # "inspect" => stack'[i].age + left' >= Timeout
  <2>1. CASE kind = "inspect"
    <3>1. f.kind = "inspect" /\ left' = left
      BY <1>3, <2>1
    <3>. HIDE DEF f
    <3>. QED BY <1>1, <1>2, <1>6, <3>1
  <2>2. CASE kind # "inspect"
    BY <1>3, <1>5, <2>2, TimeoutAssumption
  <2>. QED BY <2>1, <2>2
<1>8. Len(stack') <= Depth
  BY <1>1, <1>2, BoundsAssumption DEF Enter
<1>9. GoodStack(stack, left)'
  BY <1>2, <1>7, <1>8 DEF GoodStack
<1>10. spent' \in 0 .. MaxSpent
  BY SpendOK DEF Enter, LimitInv, LimitTypeOK
<1>11. /\ left \in 0 .. Timeout /\ counter \in 1 .. Polls /\ over \in 0 .. Polls
       /\ over + counter <= Polls /\ (left > 0 => over = 0)
  BY DEF LimitInv, LimitTypeOK, OverIsPolled
<1>12. left' \in 0 .. Timeout /\ over' \in 0 .. Polls
  BY <1>3, <1>11, TimeoutAssumption
<1>13. LimitTypeOK'
  BY <1>3, <1>9, <1>10, <1>12 DEF LimitInv, LimitTypeOK, GoodStack
<1>14. OverIsPolled'
  BY <1>3, <1>11, TimeoutAssumption DEF OverIsPolled
<1>. QED BY <1>9, <1>13, <1>14 DEF LimitInv

LEMMA ChannelOK == ASSUME LimitInv, CallChannel \/ HandlerReturns PROVE LimitInv'
<1>1. stack # <<>> /\ GoodStack(stack, left) /\ left \in Nat
  BY TimeoutAssumption DEF LimitInv, LimitTypeOK, CallChannel, Running, HandlerReturns
<1>2. PICK b \in BOOLEAN : stack' = [stack EXCEPT ![Len(stack)].inDart = b]
  BY DEF CallChannel, HandlerReturns
<1>3. GoodStack(stack', left)
  BY <1>1, <1>2, FlaggedTop
<1>. QED BY <1>3, OnlyStack DEF CallChannel, HandlerReturns, LimitInv, LimitTypeOK

LEMMA QueueJobOK == ASSUME LimitInv, QueueJob PROVE LimitInv'
<1>1. queue' \in 0 .. MaxJobs
  BY BoundsAssumption DEF LimitInv, LimitTypeOK, QueueJob
<1>2. GoodStack(stack', left)
  BY DEF LimitInv, QueueJob
<1>3. spent' \in 0 .. MaxSpent
  BY SpendOK DEF QueueJob
<1>. QED BY <1>1, <1>2, <1>3, OnlyStack DEF QueueJob

LEMMA NextJobOK == ASSUME LimitInv, NextJob PROVE LimitInv'
<1>1. stack # <<>> /\ GoodStack(stack, left) /\ left \in Nat
  BY TimeoutAssumption DEF LimitInv, LimitTypeOK, NextJob
<1>2. GoodStack(stack', left)
  <2>1. GoodStack([stack EXCEPT ![Len(stack)].inJob = TRUE], left)
    BY <1>1, FlaggedTop
  <2>2. GoodStack(Pop, left)
    BY <1>1, PoppedStack DEF Pop
  <2>. QED BY <2>1, <2>2 DEF NextJob
<1>3. queue' \in 0 .. MaxJobs
  BY BoundsAssumption DEF LimitInv, LimitTypeOK, NextJob
<1>. QED BY <1>2, <1>3, OnlyStack DEF NextJob, LimitInv, LimitTypeOK

LEMMA ReturnOK == ASSUME LimitInv, Return PROVE LimitInv'
<1>1. GoodStack(stack', left)
  BY EndedStack DEF Return
<1>. QED BY <1>1, OnlyStack DEF Return, LimitInv, LimitTypeOK

\* Before the poll there is room for the step.
LEMMA StepOK == ASSUME LimitInv, Step PROVE LimitInv'
<1>1. /\ left \in Nat /\ counter \in 1 .. Polls /\ over \in 0 .. Polls
      /\ over + counter <= Polls /\ (left > 0 => over = 0) /\ Polls \in Nat \ {0}
  BY TimeoutAssumption DEF LimitInv, LimitTypeOK, OverIsPolled
<1>2. counter' \in 1 .. Polls /\ over' \in 0 .. Polls /\ OverIsPolled'
  <2>1. CASE counter > 1
    BY <1>1, <2>1 DEF Step, OverIsPolled
  <2>2. CASE ~(counter > 1)
    BY <1>1, <2>2 DEF Step, OverIsPolled, Reload, Expired
  <2>. QED BY <2>1, <2>2
<1>3. UNCHANGED <<left, stack, queue, spent>>
  BY DEF Step
<1>. QED BY <1>2, <1>3 DEF LimitInv, LimitTypeOK, GoodStack

\* A poll after the deadline starts both counts anew.
LEMMA PollOK == ASSUME LimitInv, Interrupt \/ JobFails \/ Swallow PROVE LimitInv'
<1>1. Poll /\ Running
  BY DEF Interrupt, JobFails, Swallow, Poll
<1>2. stack # <<>> /\ GoodStack(stack, left) /\ left \in Nat
  BY <1>1, TimeoutAssumption DEF LimitInv, LimitTypeOK, Running
<1>3. GoodStack(stack', left)
  <2>1. CASE Interrupt
    BY <1>1, <2>1, EndedStack DEF Interrupt
  <2>2. CASE JobFails
    BY <1>2, <2>2, PoppedStack DEF JobFails, Pop
  <2>3. CASE Swallow
    BY <1>2, <2>3 DEF Swallow
  <2>. QED BY <2>1, <2>2, <2>3
<1>4. counter' = Polls /\ over' = 0 /\ UNCHANGED <<left, queue, spent>>
  BY <1>1 DEF Poll, Reload
<1>5. GoodStack(stack, left)'
  BY <1>3, <1>4 DEF GoodStack
<1>6. LimitTypeOK' /\ OverIsPolled'
  BY <1>4, <1>5, TimeoutAssumption DEF LimitInv, LimitTypeOK, GoodStack, OverIsPolled
<1>. QED BY <1>5, <1>6 DEF LimitInv

\* The entries grow old as the deadline comes near.
LEMMA TickOK == ASSUME LimitInv, Tick PROVE LimitInv'
<1>. DEFINE Older(f) == [f EXCEPT !.age = IF @ = Timeout THEN @ ELSE @ + 1]
<1>1. stack \in Seq(Entries) /\ Len(stack) \in Nat /\ DOMAIN stack = 1 .. Len(stack)
  BY LenProperties DEF LimitInv, LimitTypeOK
<1>2. \A f \in Entries : /\ Older(f) \in Entries
                        /\ f.age \in 0 .. Timeout
                        /\ Older(f).kind = f.kind
                        /\ Older(f).age = IF f.age = Timeout THEN Timeout ELSE f.age + 1
  BY TimeoutAssumption DEF Entries
<1>3. stack' = [i \in 1 .. Len(stack) |-> Older(stack[i])]
  BY <1>1 DEF Tick
<1>4. \A i \in 1 .. Len(stack) : stack[i] \in Entries
  BY <1>1, ElementOfSeq
<1>5. stack' \in [1 .. Len(stack) -> Entries]
  BY <1>2, <1>3, <1>4
<1>6. stack' \in Seq(Entries) /\ Len(stack') = Len(stack)
  BY <1>1, <1>5, SeqDef
<1>7. left \in 0 .. Timeout /\ left' = (IF left = 0 THEN 0 ELSE left - 1)
  BY DEF Tick, LimitInv, LimitTypeOK
<1>8. \A i \in 1 .. Len(stack) :
        stack'[i].kind # "inspect" => stack'[i].age + left' >= Timeout
  <2>. SUFFICES ASSUME NEW i \in 1 .. Len(stack), stack'[i].kind # "inspect"
                PROVE  stack'[i].age + left' >= Timeout
    OBVIOUS
  <2>0. stack[i].kind # "inspect"
    BY <1>2, <1>3, <1>4
  <2>1. stack[i].age + left >= Timeout /\ stack[i].age \in 0 .. Timeout
    BY <1>2, <1>4, <2>0 DEF LimitInv, GoodStack
  <2>2. stack'[i].age = IF stack[i].age = Timeout THEN Timeout ELSE stack[i].age + 1
    <3>1. stack'[i] = Older(stack[i])
      BY <1>3
    <3>. QED BY <1>2, <1>4, <3>1
  <2>. QED BY <1>7, <2>1, <2>2, TimeoutAssumption
<1>9. GoodStack(stack, left)'
  BY <1>6, <1>8 DEF LimitInv, LimitTypeOK, GoodStack
<1>10. OverIsPolled'
  BY <1>7, TimeoutAssumption DEF LimitInv, OverIsPolled, Tick
<1>11. LimitTypeOK'
  BY <1>6, <1>7, TimeoutAssumption DEF LimitInv, LimitTypeOK, Tick
<1>. QED BY <1>9, <1>10, <1>11 DEF LimitInv

LEMMA LimitNextOK == LimitInv /\ [LimitNext]_limitVars => LimitInv'
<1>. SUFFICES ASSUME LimitInv, [LimitNext]_limitVars PROVE LimitInv'
  OBVIOUS
<1>1. CASE UNCHANGED limitVars
  BY <1>1 DEF limitVars, LimitInv, LimitTypeOK, GoodStack, OverIsPolled
<1>2. CASE LimitNext
  BY <1>2, EnterOK, ChannelOK, QueueJobOK, NextJobOK, ReturnOK, StepOK, PollOK,
     TickOK DEF LimitNext
<1>. QED BY <1>1, <1>2

LEMMA LimitInvariance == LimitSpec => []LimitInv
<1>. QED BY LimitInitOK, LimitNextOK, PTL DEF LimitSpec

----------------------------------------------------------------------------
(* The theorems. *)

\* The variables of the time limit keep their types; no nesting is deeper than
\* its bound.
THEOREM LimitTypeCorrect == LimitSpec => []LimitTypeOK
<1>1. LimitInv => LimitTypeOK
  BY DEF LimitInv
<1>. QED BY <1>1, LimitInvariance, PTL

\* Once the deadline of the runtime has passed, whichever entry set it, fewer than
\* one polling interval of steps go by without an interrupt, which ends the entry,
\* its job, or an async function or executor in it (js_poll_interrupts).
THEOREM InterruptsArePrompt == LimitSpec => []InterruptIsPrompt
<1>1. LimitInv => InterruptIsPrompt
  BY TimeoutAssumption DEF LimitInv, LimitTypeOK, OverIsPolled, InterruptIsPrompt
<1>. QED BY <1>1, LimitInvariance, PTL

\* Nested entries share the deadline of the runtime, and each that sets it (jsEval,
\* jsCall, jsJSONStringify, a drain) has its full time before an interrupt strikes
\* in it; those that inspect a value have no time of their own.
THEOREM EverybodyHasFullTime == LimitSpec => NobodyIsCutShort
<1>. DEFINE Full == Top.kind = "inspect" \/ Top.age = Timeout
<1>1. ASSUME LimitInv, Interrupt \/ JobFails \/ Swallow
      PROVE  Full
  <2>1. left = 0 /\ stack # <<>> /\ stack \in Seq(Entries)
    BY <1>1 DEF Interrupt, JobFails, Swallow, Poll, Expired, Running, LimitInv, LimitTypeOK
  <2>2. Len(stack) \in 1 .. Len(stack) /\ stack[Len(stack)] \in Entries
    BY <2>1, NonEmpty
  <2>3. Top.age \in 0 .. Timeout /\ (Top.kind # "inspect" => Top.age + left >= Timeout)
    BY <1>1, <2>2 DEF Top, Entries, LimitInv, GoodStack
  <2>. QED BY <2>1, <2>3, TimeoutAssumption
<1>2. LimitInv /\ [LimitNext]_limitVars
        => [(Interrupt \/ JobFails \/ Swallow) => Full]_limitVars
  BY <1>1
<1>. QED BY <1>2, LimitInvariance, PTL DEF LimitSpec, NobodyIsCutShort

----------------------------------------------------------------------------
(* Promises and jobs. *)

\* The jobs of a queue that will give a promise to a thenable.
Thenable(j, p) == j.type = "thenable" /\ j.promise = p
NoDue(q, p)    == \A i \in 1 .. Len(q) : ~Thenable(q[i], p)
OneDue(q, p)   ==
  \E i \in 1 .. Len(q) :
    Thenable(q[i], p) /\ \A k \in 1 .. Len(q) : Thenable(q[k], p) => k = i

\* Pairs that something refers to have been made; c counts the pairs made.
Made(f, c)           == f[2] <= c[f[1]]
MadeReactions(s, c)  == \A i \in 1 .. Len(s) : Made(s[i].to, c)
MadeJobs(q, c)       == \A i \in 1 .. Len(q) : q[i].type = "reaction" => Made(q[i].reaction.to, c)

References ==
  /\ \A f \in held \cup resolved : Made(f, pairs)
  /\ \A p \in Promises : MadeReactions(reactions[p], pairs)
  /\ MadeJobs(jobs, pairs)
  /\ running.type = "handler" => Made(running.reaction.to, pairs)
  /\ running.type = "then" => Made(running.to, pairs)

\* No promise has more pairs than its bound.
Bounded(c) == c \in [Promises -> Nat] /\ \A p \in Promises : c[p] <= MaxPairs[p]

\* A promise gets another pair only when those before are used up.
OnlyTheLast ==
  \A p \in Promises, n \in Nat \ {0} : n < pairs[p] => <<p, n>> \in resolved

\* The last pair decides, or a job that will make one more.
Last(p) == <<p, pairs[p]>>

Authority ==
  \A p \in Promises :
    /\ state[p] = "unborn" <=> pairs[p] = 0
    /\ state[p] = "pending" =>
         \/ Last(p) \notin resolved /\ NoDue(jobs, p)
         \/ Last(p) \in resolved /\ OneDue(jobs, p) /\ pairs[p] < MaxPairs[p]
    /\ state[p] # "pending" =>
         (pairs[p] > 0 => Last(p) \in resolved) /\ NoDue(jobs, p)

IndInv == TypeOK /\ References /\ OnlyTheLast /\ Authority

----------------------------------------------------------------------------
(* Queues. *)

LEMMA ConcatQueues ==
  ASSUME NEW q \in Seq(Jobs), NEW r \in Seq(Jobs)
  PROVE  /\ q \o r \in Seq(Jobs)
         /\ \A p : NoDue(q, p) /\ NoDue(r, p) => NoDue(q \o r, p)
         /\ \A p : OneDue(q, p) /\ NoDue(r, p) => OneDue(q \o r, p)
         /\ \A p : NoDue(q, p) /\ OneDue(r, p) => OneDue(q \o r, p)
         /\ \A c : MadeJobs(q, c) /\ MadeJobs(r, c) => MadeJobs(q \o r, c)
<1>1. PICK m \in Nat, n \in Nat : m = Len(q) /\ n = Len(r)
  BY LenProperties
<1>2. PICK s \in Seq(Jobs) : s = q \o r
  BY ConcatProperties
<1>3. /\ Len(s) = m + n
      /\ \A i \in 1 .. m + n : s[i] = IF i <= m THEN q[i] ELSE r[i - m]
  BY <1>1, <1>2, ConcatProperties
<1>4. \A i \in 1 .. m : i \in 1 .. m + n /\ s[i] = q[i]
  BY <1>3
<1>5. \A i \in 1 .. n : i + m \in 1 .. m + n /\ s[i + m] = r[i]
  BY <1>3
<1>6. \A i \in 1 .. m + n : i \in 1 .. m \/ (i - m \in 1 .. n /\ i = (i - m) + m)
  OBVIOUS
<1>. DEFINE Comes(x) == (\E k \in 1 .. m : x = q[k]) \/ (\E k \in 1 .. n : x = r[k])
<1>0. \A i \in 1 .. m + n : Comes(s[i])
  BY <1>4, <1>5, <1>6
<1>. HIDE DEF Comes
<1>7. ASSUME NEW p, NoDue(q, p), NoDue(r, p) PROVE NoDue(s, p)
  <2>1. \A x : Comes(x) => ~Thenable(x, p)
    BY <1>1, <1>7 DEF NoDue, Comes
  <2>. QED BY <1>0, <1>3, <2>1 DEF NoDue
<1>8. ASSUME NEW p, OneDue(q, p), NoDue(r, p) PROVE OneDue(s, p)
  <2>1. PICK i \in 1 .. m : /\ Thenable(q[i], p)
                            /\ \A k \in 1 .. m : Thenable(q[k], p) => k = i
    BY <1>1, <1>8 DEF OneDue
  <2>2. i \in 1 .. Len(s) /\ Thenable(s[i], p)
    BY <1>3, <1>4, <2>1
  <2>3. ASSUME NEW k \in 1 .. Len(s), Thenable(s[k], p) PROVE k = i
    <3>1. CASE k \in 1 .. m
      BY <1>4, <2>1, <2>3, <3>1
    <3>2. CASE k \notin 1 .. m
      <4>1. k - m \in 1 .. n /\ s[k] = r[k - m]
        BY <1>3, <1>5, <1>6, <2>3, <3>2
      <4>2. ~Thenable(r[k - m], p)
        BY <1>1, <1>8, <4>1 DEF NoDue
      <4>. QED BY <2>3, <4>1, <4>2
    <3>. QED BY <3>1, <3>2
  <2>. QED BY <2>2, <2>3 DEF OneDue
<1>9. ASSUME NEW p, NoDue(q, p), OneDue(r, p) PROVE OneDue(s, p)
  <2>1. PICK i \in 1 .. n : /\ Thenable(r[i], p)
                            /\ \A k \in 1 .. n : Thenable(r[k], p) => k = i
    BY <1>1, <1>9 DEF OneDue
  <2>2. i + m \in 1 .. Len(s) /\ Thenable(s[i + m], p)
    BY <1>3, <1>5, <2>1
  <2>3. ASSUME NEW k \in 1 .. Len(s), Thenable(s[k], p) PROVE k = i + m
    <3>1. k \notin 1 .. m
      BY <1>1, <1>4, <1>9, <2>3 DEF NoDue
    <3>2. k - m \in 1 .. n /\ k = (k - m) + m
      BY <1>3, <1>6, <3>1
    <3>3. Thenable(r[k - m], p)
      BY <1>5, <2>3, <3>2
    <3>. QED BY <2>1, <3>2, <3>3
  <2>. QED BY <2>2, <2>3 DEF OneDue
<1>10. ASSUME NEW c, MadeJobs(q, c), MadeJobs(r, c) PROVE MadeJobs(s, c)
  <2>1. \A x : Comes(x) /\ x.type = "reaction" => Made(x.reaction.to, c)
    BY <1>1, <1>10 DEF MadeJobs, Comes
  <2>. QED BY <1>0, <1>3, <2>1 DEF MadeJobs
<1>. QED BY <1>2, <1>7, <1>8, <1>9, <1>10

LEMMA TailQueue ==
  ASSUME NEW q \in Seq(Jobs), q # <<>>
  PROVE  /\ Tail(q) \in Seq(Jobs) /\ Head(q) \in Jobs
         /\ \A p : ~Thenable(Head(q), p) /\ NoDue(q, p) => NoDue(Tail(q), p)
         /\ \A p : ~Thenable(Head(q), p) /\ OneDue(q, p) => OneDue(Tail(q), p)
         /\ \A p : Thenable(Head(q), p) /\ OneDue(q, p) => NoDue(Tail(q), p)
         /\ \A p : Thenable(Head(q), p) => ~NoDue(q, p)
         /\ \A c : MadeJobs(q, c) => MadeJobs(Tail(q), c)
         /\ \A c : MadeJobs(q, c) /\ Head(q).type = "reaction" => Made(Head(q).reaction.to, c)
<1>1. PICK n \in Nat \ {0} : n = Len(q)
  BY EmptySeq
<1>2. PICK s \in Seq(Jobs) : s = Tail(q)
  BY HeadTailProperties
<1>3. Len(s) = n - 1 /\ \A i \in 1 .. n - 1 : s[i] = q[i + 1]
  BY <1>1, <1>2, HeadTailProperties
<1>4. 1 \in 1 .. n /\ Head(q) = q[1] /\ Head(q) \in Jobs
  BY HeadTailProperties
<1>5. \A i \in 1 .. n - 1 : i + 1 \in 1 .. n /\ i + 1 # 1
  OBVIOUS
<1>6. \A i \in 1 .. n : i = 1 \/ (i - 1 \in 1 .. n - 1 /\ i = (i - 1) + 1)
  OBVIOUS
<1>7. ASSUME NEW p, ~Thenable(Head(q), p), NoDue(q, p) PROVE NoDue(s, p)
  BY <1>1, <1>3, <1>5, <1>7 DEF NoDue
<1>8. ASSUME NEW p, ~Thenable(Head(q), p), OneDue(q, p) PROVE OneDue(s, p)
  <2>1. PICK i \in 1 .. n : /\ Thenable(q[i], p)
                            /\ \A k \in 1 .. n : Thenable(q[k], p) => k = i
    BY <1>1, <1>8 DEF OneDue
  <2>2. i - 1 \in 1 .. n - 1 /\ i = (i - 1) + 1
    BY <1>4, <1>6, <1>8, <2>1
  <2>3. Thenable(s[i - 1], p)
    BY <1>3, <2>1, <2>2
  <2>4. ASSUME NEW k \in 1 .. n - 1, Thenable(s[k], p) PROVE k = i - 1
    <3>1. k + 1 = i
      BY <1>3, <1>5, <2>1, <2>4
    <3>. QED BY <3>1
  <2>. QED BY <1>3, <2>2, <2>3, <2>4 DEF OneDue
<1>9. ASSUME NEW p, Thenable(Head(q), p), OneDue(q, p) PROVE NoDue(s, p)
  <2>1. \A k \in 1 .. n : Thenable(q[k], p) => k = 1
    BY <1>1, <1>4, <1>9 DEF OneDue
  <2>. QED BY <1>3, <1>5, <2>1 DEF NoDue
<1>10. ASSUME NEW p, Thenable(Head(q), p) PROVE ~NoDue(q, p)
  BY <1>1, <1>4, <1>10 DEF NoDue
<1>11. ASSUME NEW c, MadeJobs(q, c) PROVE MadeJobs(s, c)
  BY <1>1, <1>3, <1>5, <1>11 DEF MadeJobs
<1>12. ASSUME NEW c, MadeJobs(q, c), Head(q).type = "reaction"
       PROVE  Made(Head(q).reaction.to, c)
  BY <1>1, <1>4, <1>12 DEF MadeJobs
<1>. QED BY <1>2, <1>4, <1>7, <1>8, <1>9, <1>10, <1>11, <1>12

----------------------------------------------------------------------------
(* Records and counts. *)

LEMMA JobTypes ==
  ASSUME NEW j \in Jobs
  PROVE  /\ j.type \in {"reaction", "thenable"}
         /\ j.type = "reaction" =>
              j.on \in Promises /\ j.reaction \in Reactions /\ j.reject \in BOOLEAN
         /\ j.type = "thenable" =>
              j.promise \in Promises /\ j.of \in Promises \cup {"foreign"}
BY DEF Jobs

LEMMA SingletonQueue ==
  ASSUME NEW j \in Jobs
  PROVE  <<j>> \in Seq(Jobs) /\ Len(<<j>>) = 1 /\ <<j>>[1] = j
OBVIOUS

LEMMA SingleReaction ==
  ASSUME NEW r \in Reactions
  PROVE  <<r>> \in Seq(Reactions) /\ Len(<<r>>) = 1 /\ <<r>>[1] = r
OBVIOUS

LEMMA FrameTypes ==
  ASSUME NEW f \in Frames
  PROVE  /\ f.type = "handler" => f.reaction \in Reactions
         /\ f.type = "then" => f.to \in Pairs
BY DEF Frames

LEMMA ReactionTypes ==
  ASSUME NEW r \in Reactions
  PROVE  r.to \in Pairs
BY DEF Reactions

\* What has been made stays made.
LEMMA MadeStays ==
  ASSUME NEW c \in [Promises -> Nat], NEW d \in [Promises -> Nat],
         \A p \in Promises : c[p] <= d[p]
  PROVE  /\ \A f \in Pairs : Made(f, c) => Made(f, d)
         /\ \A s \in Seq(Reactions) : MadeReactions(s, c) => MadeReactions(s, d)
         /\ \A q \in Seq(Jobs) : MadeJobs(q, c) => MadeJobs(q, d)
<1>1. \A f \in Pairs : f[1] \in Promises /\ f[2] \in Nat
  BY DEF Pairs
<1>2. ASSUME NEW f \in Pairs, Made(f, c) PROVE Made(f, d)
  <2>1. PICK n \in Nat, m \in Nat, k \in Nat : n = f[2] /\ m = c[f[1]] /\ k = d[f[1]]
    BY <1>1
  <2>2. n <= m /\ m <= k
    BY <1>1, <1>2, <2>1 DEF Made
  <2>. QED BY <2>1, <2>2 DEF Made
<1>3. ASSUME NEW s \in Seq(Reactions), MadeReactions(s, c) PROVE MadeReactions(s, d)
  <2>1. \A i \in 1 .. Len(s) : s[i] \in Reactions
    BY ElementOfSeq
  <2>. QED BY <1>2, <1>3, <2>1, ReactionTypes DEF MadeReactions
<1>4. ASSUME NEW q \in Seq(Jobs), MadeJobs(q, c) PROVE MadeJobs(q, d)
  <2>1. \A i \in 1 .. Len(q) : q[i] \in Jobs
    BY ElementOfSeq
  <2>2. \A i \in 1 .. Len(q) : q[i].type = "reaction" => q[i].reaction.to \in Pairs
    BY <2>1, JobTypes, ReactionTypes
  <2>. QED BY <1>2, <1>4, <2>2 DEF MadeJobs
<1>. QED BY <1>2, <1>3, <1>4

LEMMA PairsTypes ==
  ASSUME TypeOK
  PROVE  pairs \in [Promises -> Nat]
BY PairsAssumption DEF TypeOK

\* Reactions become jobs that are no thenables'.
LEMMA ReactionJobsOK ==
  ASSUME NEW rs \in Seq(Reactions), NEW p \in Promises, NEW reject \in BOOLEAN
  PROVE  /\ ReactionJobs(p, rs, reject) \in Seq(Jobs)
         /\ \A x : NoDue(ReactionJobs(p, rs, reject), x)
         /\ \A c : MadeReactions(rs, c) => MadeJobs(ReactionJobs(p, rs, reject), c)
<1>. DEFINE Job(r) == [type |-> "reaction", on |-> p, reaction |-> r, reject |-> reject]
<1>1. \A r \in Reactions : Job(r) \in Jobs
  BY DEF Jobs
<1>2. Len(rs) \in Nat /\ DOMAIN rs = 1 .. Len(rs) /\ \A i \in 1 .. Len(rs) : rs[i] \in Reactions
  BY LenProperties, ElementOfSeq
<1>3. PICK q : q = ReactionJobs(p, rs, reject)
  OBVIOUS
<1>4. q = [i \in 1 .. Len(rs) |-> Job(rs[i])]
  BY <1>2, <1>3 DEF ReactionJobs
<1>5. q \in [1 .. Len(rs) -> Jobs]
  BY <1>1, <1>2, <1>4
<1>6. q \in Seq(Jobs) /\ Len(q) = Len(rs)
  BY <1>2, <1>5, SeqDef
<1>7. \A i \in 1 .. Len(rs) : q[i].type = "reaction" /\ q[i].reaction = rs[i]
  BY <1>4
<1>8. \A x : NoDue(q, x)
  BY <1>6, <1>7 DEF NoDue, Thenable
<1>9. \A c : MadeReactions(rs, c) => MadeJobs(q, c)
  BY <1>6, <1>7 DEF MadeReactions, MadeJobs
<1>. QED BY <1>3, <1>6, <1>8, <1>9

----------------------------------------------------------------------------
(* Settling, resolving and attaching. *)

\* A queue that is as good as the job queue.
QueueOK(q) ==
  /\ q \in Seq(Jobs) /\ MadeJobs(q, pairs)
  /\ \A p : NoDue(jobs, p) => NoDue(q, p)
  /\ \A p : OneDue(jobs, p) => OneDue(q, p)

LEMMA JobsAreOK == ASSUME IndInv PROVE QueueOK(jobs)
BY DEF IndInv, TypeOK, References, QueueOK

LEMMA TailIsOK ==
  ASSUME IndInv, jobs # <<>>, Head(jobs).type = "reaction"
  PROVE  QueueOK(Tail(jobs))
<1>1. jobs \in Seq(Jobs) /\ MadeJobs(jobs, pairs)
  BY DEF IndInv, TypeOK, References
<1>2. \A p : ~Thenable(Head(jobs), p)
  BY DEF Thenable
<1>. QED BY <1>1, <1>2, TailQueue DEF QueueOK

LEMMA SettleOK ==
  ASSUME IndInv, NEW p \in Promises, state[p] = "pending", NEW reject \in BOOLEAN,
         NEW todo, QueueOK(todo), Settle(p, reject, todo)
  PROVE  /\ \E s \in {"fulfilled", "rejected"} : state' = [state EXCEPT ![p] = s]
         /\ QueueOK(jobs')
         /\ reactions' \in [Promises -> Seq(Reactions)]
         /\ \A x \in Promises : MadeReactions(reactions'[x], pairs)
         /\ reported' \subseteq Promises
<1>1. /\ reactions \in [Promises -> Seq(Reactions)]
      /\ reactions[p] \in Seq(Reactions) /\ MadeReactions(reactions[p], pairs)
  BY DEF IndInv, TypeOK, References
<1>2. PICK new \in Seq(Jobs) : /\ new = ReactionJobs(p, reactions[p], reject)
                               /\ \A x : NoDue(new, x)
                               /\ MadeJobs(new, pairs)
  BY <1>1, ReactionJobsOK
<1>3. jobs' = todo \o new /\ reactions' = [reactions EXCEPT ![p] = <<>>]
  BY <1>2 DEF Settle, Enqueued
<1>4. todo \in Seq(Jobs)
  BY DEF QueueOK
<1>5. QueueOK(jobs')
  BY <1>2, <1>3, <1>4, ConcatQueues DEF QueueOK
<1>6. <<>> \in Seq(Reactions) /\ MadeReactions(<<>>, pairs)
  BY EmptySeq DEF MadeReactions
<1>7. /\ reactions' \in [Promises -> Seq(Reactions)]
      /\ \A x \in Promises : MadeReactions(reactions'[x], pairs)
  BY <1>1, <1>3, <1>6 DEF IndInv, References
<1>8. reported' \subseteq Promises
  BY DEF Settle, IndInv, TypeOK
<1>9. \E s \in {"fulfilled", "rejected"} : state' = [state EXCEPT ![p] = s]
  BY DEF Settle
<1>. QED BY <1>5, <1>7, <1>8, <1>9

\* A pair that is not spent is the last of a pending promise for which no thenable
\* is due: so it has the authority, and gives it away for good or to one job.
LEMMA ResolveOK ==
  ASSUME IndInv, NEW f \in Pairs, Made(f, pairs), NEW reject \in BOOLEAN,
         NEW with \in Resolutions,
         Fits(f, reject, with),
         NEW todo, QueueOK(todo), Resolve(f, reject, with, todo), pairs' = pairs
  PROVE  /\ state' \in [Promises -> {"unborn", "pending", "fulfilled", "rejected"}]
         /\ resolved' \subseteq Pairs /\ \A g \in resolved' : Made(g, pairs)
         /\ jobs' \in Seq(Jobs) /\ MadeJobs(jobs', pairs)
         /\ reactions' \in [Promises -> Seq(Reactions)]
         /\ \A x \in Promises : MadeReactions(reactions'[x], pairs)
         /\ reported' \subseteq Promises
         /\ OnlyTheLast' /\ Authority'
<1>1. CASE Spent(f)
  <2>1. jobs' = todo /\ UNCHANGED <<state, reactions, reported, resolved>>
    BY <1>1 DEF Resolve
  <2>2. OnlyTheLast' /\ Authority'
    BY <2>1 DEF IndInv, OnlyTheLast, Authority, QueueOK, Last
  <2>. QED BY <2>1, <2>2 DEF IndInv, TypeOK, References, QueueOK
<1>2. CASE ~Spent(f)
  <2>1. PICK p \in Promises, n \in Nat \ {0} : p = f[1] /\ n = f[2] /\ f = <<p, n>>
    BY DEF Pairs
  <2>2. f \notin resolved /\ resolved' = resolved \cup {f}
    BY <1>2 DEF Spent, Resolve
  <2>3. pairs[p] \in Nat /\ n = pairs[p]
    <3>1. pairs[p] \in Nat /\ n <= pairs[p]
      BY <2>1, PairsTypes DEF IndInv, Made
    <3>2. ~(n < pairs[p])
      BY <2>1, <2>2 DEF IndInv, OnlyTheLast
    <3>. QED BY <3>1, <3>2
  <2>4. Last(p) = f /\ pairs[p] > 0
    BY <2>1, <2>3 DEF Last
  <2>5. state[p] = "pending" /\ NoDue(jobs, p)
    BY <2>2, <2>4 DEF IndInv, Authority
  <2>6. resolved' \subseteq Pairs /\ \A g \in resolved' : Made(g, pairs)
    BY <2>2 DEF IndInv, TypeOK, References
  <2>7. OnlyTheLast'
    BY <2>2 DEF IndInv, OnlyTheLast
  <2>8. \A x \in Promises : x # p => (Last(x) \in resolved' <=> Last(x) \in resolved)
    BY <2>1, <2>2 DEF Last
  <2>9. Last(p) \in resolved'
    BY <2>2, <2>4
  <2>10. CASE \E b \in BOOLEAN : Settle(p, b, todo)
    <3>1. PICK b \in BOOLEAN : Settle(p, b, todo)
      BY <2>10
    <3>2. /\ \E s \in {"fulfilled", "rejected"} : state' = [state EXCEPT ![p] = s]
          /\ QueueOK(jobs')
          /\ reactions' \in [Promises -> Seq(Reactions)]
          /\ \A x \in Promises : MadeReactions(reactions'[x], pairs)
          /\ reported' \subseteq Promises
      BY <2>5, <3>1, SettleOK
    <3>3. /\ state' \in [Promises -> {"unborn", "pending", "fulfilled", "rejected"}]
          /\ state'[p] \in {"fulfilled", "rejected"}
          /\ \A x \in Promises : x # p => state'[x] = state[x]
      BY <3>2 DEF IndInv, TypeOK
    <3>4. \A x : (NoDue(jobs, x) => NoDue(jobs', x)) /\ (OneDue(jobs, x) => OneDue(jobs', x))
      BY <3>2 DEF QueueOK
    <3>5. Authority'
      <4>. SUFFICES ASSUME NEW x \in Promises
                    PROVE  /\ state'[x] = "unborn" <=> pairs[x] = 0
                           /\ state'[x] = "pending" =>
                                \/ Last(x) \notin resolved' /\ NoDue(jobs', x)
                                \/ Last(x) \in resolved' /\ OneDue(jobs', x) /\ pairs[x] < MaxPairs[x]
                           /\ state'[x] # "pending" =>
                                (pairs[x] > 0 => Last(x) \in resolved') /\ NoDue(jobs', x)
        BY DEF Authority, Last
      <4>1. CASE x = p
        BY <2>3, <2>4, <2>5, <2>9, <3>3, <3>4, <4>1
      <4>2. CASE x # p
        BY <2>8, <3>3, <3>4, <4>2 DEF IndInv, Authority
      <4>. QED BY <4>1, <4>2
    <3>. QED BY <2>6, <2>7, <3>2, <3>3, <3>5 DEF QueueOK
  <2>11. CASE ~(\E b \in BOOLEAN : Settle(p, b, todo))
    <3>. DEFINE job == [type |-> "thenable", promise |-> p, of |-> with]
    <3>1. /\ ~reject /\ with \notin {"plain", p, "hostile"}
          /\ jobs' = todo \o <<job>>
          /\ UNCHANGED <<state, reactions, reported>>
      BY <1>2, <2>1, <2>11 DEF Resolve, Enqueued
    <3>2. with \in Promises \cup {"foreign"} /\ pairs[p] < MaxPairs[p]
      BY <2>1, <2>3, <3>1 DEF Resolutions, Fits
    <3>0. job \in Jobs
      BY <3>2 DEF Jobs
    <3>3. PICK new \in Seq(Jobs) : new = <<job>> /\ Len(new) = 1 /\ new[1] = job
      <4>. HIDE DEF job
      <4>. QED BY <3>0, SingletonQueue
    <3>4. OneDue(new, p) /\ (\A x : x # p => NoDue(new, x)) /\ MadeJobs(new, pairs)
      BY <3>3 DEF OneDue, NoDue, Thenable, MadeJobs
    <3>5. todo \in Seq(Jobs) /\ NoDue(todo, p)
      BY <2>5 DEF QueueOK
    <3>6. jobs' = todo \o new
      BY <3>1, <3>3
    <3>. HIDE DEF job
    <3>7. jobs' \in Seq(Jobs) /\ MadeJobs(jobs', pairs) /\ OneDue(jobs', p)
      BY <3>4, <3>5, <3>6, ConcatQueues DEF QueueOK
    <3>8. \A x \in Promises :
            x # p => /\ NoDue(jobs, x) => NoDue(jobs', x)
                     /\ OneDue(jobs, x) => OneDue(jobs', x)
      BY <3>4, <3>5, <3>6, ConcatQueues DEF QueueOK
    <3>9. Authority'
      <4>. SUFFICES ASSUME NEW x \in Promises
                    PROVE  /\ state[x] = "unborn" <=> pairs[x] = 0
                           /\ state[x] = "pending" =>
                                \/ Last(x) \notin resolved' /\ NoDue(jobs', x)
                                \/ Last(x) \in resolved' /\ OneDue(jobs', x) /\ pairs[x] < MaxPairs[x]
                           /\ state[x] # "pending" =>
                                (pairs[x] > 0 => Last(x) \in resolved') /\ NoDue(jobs', x)
        BY <3>1 DEF Authority, Last
      <4>1. CASE x = p
        BY <2>3, <2>4, <2>5, <2>9, <3>2, <3>7, <4>1
      <4>2. CASE x # p
        <5>1. /\ state[x] = "unborn" <=> pairs[x] = 0
              /\ state[x] = "pending" =>
                   \/ Last(x) \notin resolved /\ NoDue(jobs, x)
                   \/ Last(x) \in resolved /\ OneDue(jobs, x) /\ pairs[x] < MaxPairs[x]
              /\ state[x] # "pending" =>
                   (pairs[x] > 0 => Last(x) \in resolved) /\ NoDue(jobs, x)
          BY DEF IndInv, Authority
        <5>2. Last(x) \in resolved' <=> Last(x) \in resolved
          BY <2>8, <4>2
        <5>3. (NoDue(jobs, x) => NoDue(jobs', x)) /\ (OneDue(jobs, x) => OneDue(jobs', x))
          BY <3>8, <4>2
        <5>. QED BY <5>1, <5>2, <5>3
      <4>. QED BY <4>1, <4>2
    <3>. QED BY <2>6, <2>7, <3>1, <3>7, <3>9 DEF IndInv, TypeOK, References
  <2>. QED BY <2>10, <2>11
<1>. QED BY <1>1, <1>2

LEMMA AttachOK ==
  ASSUME IndInv, NEW p \in Promises, NEW r \in Reactions, NEW todo \in Seq(Jobs),
         NEW c \in [Promises -> Nat], \A x \in Promises : pairs[x] <= c[x],
         Made(r.to, c), MadeJobs(todo, c), Attach(p, r, todo)
  PROVE  /\ jobs' \in Seq(Jobs) /\ MadeJobs(jobs', c)
         /\ \A x : NoDue(todo, x) => NoDue(jobs', x)
         /\ \A x : OneDue(todo, x) => OneDue(jobs', x)
         /\ reactions' \in [Promises -> Seq(Reactions)]
         /\ \A x \in Promises : MadeReactions(reactions'[x], c)
         /\ handled' \subseteq Promises
         /\ attached' \in [Promises -> Seq(Reactions)]
<1>1. /\ reactions \in [Promises -> Seq(Reactions)]
      /\ attached \in [Promises -> Seq(Reactions)]
      /\ handled' \subseteq Promises
  BY DEF IndInv, TypeOK, Attach
<1>2. \A x \in Promises : reactions[x] \in Seq(Reactions) /\ MadeReactions(reactions[x], c)
  <2>1. pairs \in [Promises -> Nat] /\ \A x \in Promises : MadeReactions(reactions[x], pairs)
    BY PairsTypes DEF IndInv, References
  <2>. QED BY <1>1, <2>1, MadeStays
<1>3. attached' \in [Promises -> Seq(Reactions)]
  <2>1. Append(attached[p], r) \in Seq(Reactions)
    BY <1>1, AppendProperties
  <2>. QED BY <1>1, <2>1 DEF Attach
<1>4. CASE state[p] = "pending"
  <2>1. PICK n \in Nat : n = Len(reactions[p])
    BY <1>2, LenProperties
  <2>2. PICK s \in Seq(Reactions) : s = Append(reactions[p], r)
    BY <1>2, AppendProperties
  <2>3. Len(s) = n + 1 /\ \A i \in 1 .. n + 1 : s[i] = IF i <= n THEN reactions[p][i] ELSE r
    BY <1>2, <2>1, <2>2, AppendProperties
  <2>4. MadeReactions(s, c)
    <3>. SUFFICES ASSUME NEW i \in 1 .. n + 1 PROVE Made(s[i].to, c)
      BY <2>3 DEF MadeReactions
    <3>1. CASE i <= n
      <4>1. i \in 1 .. Len(reactions[p]) /\ s[i] = reactions[p][i]
        BY <2>1, <2>3, <3>1
      <4>. QED BY <1>2, <4>1 DEF MadeReactions
    <3>2. CASE ~(i <= n)
      BY <2>3, <3>2
    <3>. QED BY <3>1, <3>2
  <2>5. jobs' = todo /\ reactions' = [reactions EXCEPT ![p] = s]
    BY <1>4, <2>2 DEF Attach
  <2>6. /\ reactions' \in [Promises -> Seq(Reactions)]
        /\ \A x \in Promises : MadeReactions(reactions'[x], c)
    BY <1>1, <1>2, <2>4, <2>5
  <2>. QED BY <1>1, <1>3, <2>5, <2>6
<1>5. CASE state[p] # "pending"
  <2>1. PICK b \in BOOLEAN : b = (state[p] = "rejected")
    OBVIOUS
  <2>2. PICK one \in Seq(Reactions) : one = <<r>> /\ Len(one) = 1 /\ one[1] = r
    BY SingleReaction
  <2>3. MadeReactions(one, c)
    BY <2>2 DEF MadeReactions
  <2>4. PICK new \in Seq(Jobs) : /\ new = ReactionJobs(p, one, b)
                                 /\ \A x : NoDue(new, x)
                                 /\ MadeJobs(new, c)
    BY <2>3, ReactionJobsOK
  <2>5. jobs' = todo \o new /\ reactions' = reactions
    BY <1>5, <2>1, <2>2, <2>4 DEF Attach, Enqueued
  <2>. QED BY <1>1, <1>2, <1>3, <2>4, <2>5, ConcatQueues
<1>. QED BY <1>4, <1>5

\* What held, resolved and the JavaScript that runs refer to stays made.
LEMMA RestStays ==
  ASSUME IndInv, pairs' \in [Promises -> Nat], \A x \in Promises : pairs[x] <= pairs'[x]
  PROVE  /\ \A f \in held \cup resolved : Made(f, pairs')
         /\ \A x \in Promises : MadeReactions(reactions[x], pairs')
         /\ MadeJobs(jobs, pairs')
         /\ running.type = "handler" => Made(running.reaction.to, pairs')
         /\ running.type = "then" => Made(running.to, pairs')
<1>1. pairs \in [Promises -> Nat]
  BY PairsTypes DEF IndInv
<1>2. /\ held \cup resolved \subseteq Pairs /\ running \in Frames /\ jobs \in Seq(Jobs)
      /\ \A x \in Promises : reactions[x] \in Seq(Reactions)
  BY DEF IndInv, TypeOK
<1>3. /\ \A f \in Pairs : Made(f, pairs) => Made(f, pairs')
      /\ \A s \in Seq(Reactions) : MadeReactions(s, pairs) => MadeReactions(s, pairs')
      /\ \A q \in Seq(Jobs) : MadeJobs(q, pairs) => MadeJobs(q, pairs')
  BY <1>1, MadeStays
<1>4. \A f \in held \cup resolved : Made(f, pairs')
  BY <1>2, <1>3 DEF IndInv, References
<1>5. \A x \in Promises : MadeReactions(reactions[x], pairs')
  BY <1>2, <1>3 DEF IndInv, References
<1>6. MadeJobs(jobs, pairs')
  BY <1>2, <1>3 DEF IndInv, References
<1>7. running.type = "handler" => Made(running.reaction.to, pairs')
  BY <1>2, <1>3, FrameTypes, ReactionTypes DEF IndInv, References
<1>8. running.type = "then" => Made(running.to, pairs')
  BY <1>2, <1>3, FrameTypes DEF IndInv, References
<1>. QED BY <1>4, <1>5, <1>6, <1>7, <1>8

\* A new promise has one pair, which has the authority.
LEMMA MakeOK ==
  ASSUME IndInv, NEW p \in Promises, Make(p), resolved' = resolved,
         \A x : NoDue(jobs, x) => NoDue(jobs', x),
         \A x : OneDue(jobs, x) => OneDue(jobs', x)
  PROVE  /\ state' \in [Promises -> {"unborn", "pending", "fulfilled", "rejected"}]
         /\ Bounded(pairs')
         /\ pairs' \in [Promises -> Nat]
         /\ \A x \in Promises : pairs[x] <= pairs'[x]
         /\ <<p, 1>> \in Pairs /\ Made(<<p, 1>>, pairs')
         /\ OnlyTheLast' /\ Authority'
<1>1. pairs \in [Promises -> Nat] /\ Bounded(pairs) /\ pairs[p] = 0
  BY PairsTypes DEF Bounded, IndInv, TypeOK, Authority, Make
<1>2. pairs' = [pairs EXCEPT ![p] = 1] /\ 1 \in 1 .. MaxPairs[p] /\ 1 <= MaxPairs[p]
  BY PairsAssumption DEF Make
<1>3. /\ Bounded(pairs') /\ pairs' \in [Promises -> Nat]
      /\ pairs'[p] = 1 /\ \A x \in Promises : x # p => pairs'[x] = pairs[x]
  BY <1>1, <1>2 DEF Bounded
<1>4. \A x \in Promises : pairs[x] <= pairs'[x]
  <2>. TAKE x \in Promises
  <2>1. CASE x = p BY <1>1, <1>3, <2>1
  <2>2. CASE x # p BY <1>1, <1>3, <2>2
  <2>. QED BY <2>1, <2>2
<1>5. <<p, 1>> \in Pairs /\ Made(<<p, 1>>, pairs')
  BY <1>2, <1>3 DEF Pairs, Made
<1>6. <<p, 1>> \notin resolved
  BY <1>1 DEF IndInv, References, Made
<1>7. /\ state' \in [Promises -> {"unborn", "pending", "fulfilled", "rejected"}]
      /\ state[p] = "unborn" /\ state'[p] = "pending"
      /\ \A x \in Promises : x # p => state'[x] = state[x]
  BY DEF IndInv, TypeOK, Make
<1>8. OnlyTheLast'
  BY <1>3 DEF IndInv, OnlyTheLast
<1>9. NoDue(jobs', p)
  BY <1>7 DEF IndInv, Authority
<1>10. Authority'
  <2>. SUFFICES ASSUME NEW x \in Promises
                PROVE  /\ state'[x] = "unborn" <=> pairs'[x] = 0
                       /\ state'[x] = "pending" =>
                            \/ <<x, pairs'[x]>> \notin resolved /\ NoDue(jobs', x)
                            \/ /\ <<x, pairs'[x]>> \in resolved
                               /\ OneDue(jobs', x) /\ pairs'[x] < MaxPairs[x]
                       /\ state'[x] # "pending" =>
                            (pairs'[x] > 0 => <<x, pairs'[x]>> \in resolved) /\ NoDue(jobs', x)
    BY DEF Authority, Last
  <2>1. CASE x = p
    BY <1>3, <1>6, <1>7, <1>9, <2>1
  <2>2. CASE x # p
    <3>1. pairs'[x] = pairs[x] /\ state'[x] = state[x]
      BY <1>3, <1>7, <2>2
    <3>. QED BY <3>1 DEF IndInv, Authority, Last
  <2>. QED BY <2>1, <2>2
<1>. QED BY <1>3, <1>4, <1>5, <1>7, <1>8, <1>10

----------------------------------------------------------------------------
(* Every step. *)

LEMMA InitOK == Init => IndInv
<1>. SUFFICES ASSUME Init PROVE IndInv
  OBVIOUS
<1>1. Len(<<>>) = 0 /\ <<>> \in Seq(Reactions) /\ <<>> \in Seq(Jobs)
  BY EmptySeq
<1>2. TypeOK
  BY <1>1, PairsAssumption DEF Init, TypeOK, None, Frames
<1>3. References
  BY <1>1 DEF Init, References, MadeReactions, MadeJobs, None
<1>4. OnlyTheLast
  BY DEF Init, OnlyTheLast
<1>5. \A p : NoDue(jobs, p)
  <2>1. jobs = <<>> /\ 1 .. 0 = {}
    BY DEF Init
  <2>2. 1 .. Len(jobs) = {}
    BY <1>1, <2>1
  <2>. QED BY <2>2 DEF NoDue
<1>6. \A p \in Promises : state[p] = "unborn" /\ pairs[p] = 0
  BY DEF Init
<1>7. Authority
  <2>. SUFFICES ASSUME NEW p \in Promises
                PROVE  /\ state[p] = "unborn" <=> pairs[p] = 0
                       /\ state[p] # "pending" /\ ~(pairs[p] > 0) /\ NoDue(jobs, p)
    BY DEF Authority
  <2>. QED BY <1>5, <1>6
<1>. QED BY <1>2, <1>3, <1>4, <1>7 DEF IndInv

\* JavaScript starts or ends.
LEMMA FrameOK ==
  ASSUME IndInv, UNCHANGED <<state, pairs, resolved, held, reactions, handled, jobs, reported,
                             attached, started>>, running' \in {None, Script}
  PROVE  IndInv'
<1>1. TypeOK'
  BY DEF IndInv, TypeOK, None, Script, Frames
<1>2. References'
  BY DEF IndInv, References, None, Script
<1>3. OnlyTheLast' /\ Authority'
  BY DEF IndInv, OnlyTheLast, Authority, Last
<1>. QED BY <1>1, <1>2, <1>3 DEF IndInv

LEMMA NewPromiseOK ==
  ASSUME IndInv, NEW p \in Promises, NewPromise(p)
  PROVE  IndInv'
<1>1. /\ Make(p) /\ held' = held \cup {<<p, 1>>}
      /\ UNCHANGED <<resolved, reactions, handled, jobs, running, reported, attached, started>>
  BY DEF NewPromise
<1>2. /\ state' \in [Promises -> {"unborn", "pending", "fulfilled", "rejected"}]
      /\ Bounded(pairs')
      /\ pairs' \in [Promises -> Nat]
      /\ \A x \in Promises : pairs[x] <= pairs'[x]
      /\ <<p, 1>> \in Pairs /\ Made(<<p, 1>>, pairs')
      /\ OnlyTheLast' /\ Authority'
  BY <1>1, MakeOK
<1>3. /\ \A f \in held \cup resolved : Made(f, pairs')
      /\ \A x \in Promises : MadeReactions(reactions[x], pairs')
      /\ MadeJobs(jobs, pairs')
      /\ running.type = "handler" => Made(running.reaction.to, pairs')
      /\ running.type = "then" => Made(running.to, pairs')
  BY <1>2, RestStays
<1>4. TypeOK'
  BY <1>1, <1>2 DEF IndInv, TypeOK, Bounded
<1>5. References'
  BY <1>1, <1>2, <1>3 DEF References
<1>. QED BY <1>2, <1>4, <1>5 DEF IndInv

LEMMA ThenOK ==
  ASSUME IndInv, NEW p \in Promises, NEW q \in Promises, NEW kind \in Kinds, Then(p, q, kind)
  PROVE  IndInv'
<1>. DEFINE r == [kind |-> kind, to |-> <<q, 1>>]
<1>1. /\ Make(q) /\ Attach(p, r, jobs)
      /\ UNCHANGED <<resolved, held, running, reported, started>>
  BY DEF Then
<1>2. jobs \in Seq(Jobs)
  BY DEF IndInv, TypeOK
<1>3. /\ <<q, 1>> \in Pairs /\ pairs \in [Promises -> Nat] /\ pairs[q] = 0
      /\ pairs' = [pairs EXCEPT ![q] = 1]
  BY <1>1, PairsAssumption, PairsTypes DEF IndInv, Authority, Make, Pairs
<1>4. r \in Reactions /\ r.to = <<q, 1>>
  BY <1>3 DEF Reactions
<1>. HIDE DEF r
<1>5. /\ pairs' \in [Promises -> Nat] /\ Made(r.to, pairs')
      /\ \A x \in Promises : pairs[x] <= pairs'[x]
  <2>1. pairs' \in [Promises -> Nat] /\ pairs'[q] = 1
    BY <1>3
  <2>2. \A x \in Promises : x # q => pairs'[x] = pairs[x] /\ pairs[x] \in Nat
    BY <1>3
  <2>. QED BY <1>3, <1>4, <2>1, <2>2 DEF Made
<1>6. /\ \A f \in held \cup resolved : Made(f, pairs')
      /\ MadeJobs(jobs, pairs')
      /\ running.type = "handler" => Made(running.reaction.to, pairs')
      /\ running.type = "then" => Made(running.to, pairs')
  BY <1>5, RestStays
<1>7. /\ jobs' \in Seq(Jobs) /\ MadeJobs(jobs', pairs')
      /\ \A x : NoDue(jobs, x) => NoDue(jobs', x)
      /\ \A x : OneDue(jobs, x) => OneDue(jobs', x)
      /\ reactions' \in [Promises -> Seq(Reactions)]
      /\ \A x \in Promises : MadeReactions(reactions'[x], pairs')
      /\ handled' \subseteq Promises
      /\ attached' \in [Promises -> Seq(Reactions)]
  <2>1. PICK c \in [Promises -> Nat] : c = pairs'
    BY <1>5
  <2>2. \A x \in Promises : pairs[x] <= c[x]
    BY <1>5, <2>1
  <2>3. Made(r.to, c) /\ MadeJobs(jobs, c)
    BY <1>5, <1>6, <2>1
  <2>4. /\ jobs' \in Seq(Jobs) /\ MadeJobs(jobs', c)
        /\ \A x : NoDue(jobs, x) => NoDue(jobs', x)
        /\ \A x : OneDue(jobs, x) => OneDue(jobs', x)
        /\ reactions' \in [Promises -> Seq(Reactions)]
        /\ \A x \in Promises : MadeReactions(reactions'[x], c)
        /\ handled' \subseteq Promises
        /\ attached' \in [Promises -> Seq(Reactions)]
    BY <1>1, <1>2, <1>4, <2>2, <2>3, AttachOK
  <2>. QED BY <2>1, <2>4
<1>8. /\ state' \in [Promises -> {"unborn", "pending", "fulfilled", "rejected"}]
      /\ Bounded(pairs')
      /\ OnlyTheLast' /\ Authority'
  BY <1>1, <1>7, MakeOK
<1>9. TypeOK'
  BY <1>1, <1>7, <1>8 DEF IndInv, TypeOK, Bounded
<1>10. References'
  BY <1>1, <1>6, <1>7 DEF References
<1>. QED BY <1>8, <1>9, <1>10 DEF IndInv

\* A pair is called, by whoever and with whatever rest of the job queue.
LEMMA CallOK ==
  ASSUME IndInv, NEW f \in Pairs, Made(f, pairs), NEW reject \in BOOLEAN,
         NEW with \in Resolutions,
         Fits(f, reject, with),
         NEW todo, QueueOK(todo), Resolve(f, reject, with, todo),
         UNCHANGED <<pairs, held, handled, attached>>,
         running' \in {running, None},
         started' \in [Promises -> Seq(Reactions)]
  PROVE  IndInv'
<1>1. /\ state' \in [Promises -> {"unborn", "pending", "fulfilled", "rejected"}]
      /\ resolved' \subseteq Pairs /\ \A g \in resolved' : Made(g, pairs)
      /\ jobs' \in Seq(Jobs) /\ MadeJobs(jobs', pairs)
      /\ reactions' \in [Promises -> Seq(Reactions)]
      /\ \A x \in Promises : MadeReactions(reactions'[x], pairs)
      /\ reported' \subseteq Promises
      /\ OnlyTheLast' /\ Authority'
  BY ResolveOK
<1>2. running' \in Frames
  BY DEF IndInv, TypeOK, None, Frames
<1>3. TypeOK'
  BY <1>1, <1>2 DEF IndInv, TypeOK
<1>4. /\ running'.type = "handler" => Made(running'.reaction.to, pairs)
      /\ running'.type = "then" => Made(running'.to, pairs)
  BY DEF IndInv, References, None
<1>5. References'
  BY <1>1, <1>4 DEF IndInv, References
<1>. QED BY <1>1, <1>3, <1>5 DEF IndInv

LEMMA CallSettlerOK ==
  ASSUME IndInv, NEW f \in held, NEW reject \in BOOLEAN, NEW with \in Resolutions,
         CallSettler(f, reject, with)
  PROVE  IndInv'
<1>1. f \in Pairs /\ Made(f, pairs) /\ started \in [Promises -> Seq(Reactions)]
  BY DEF IndInv, TypeOK, References
<1>2. QueueOK(jobs)
  BY JobsAreOK
<1>3. /\ Fits(f, reject, with)
      /\ Resolve(f, reject, with, jobs)
      /\ UNCHANGED <<pairs, held, handled, running, attached, started>>
  BY DEF CallSettler
<1>. QED BY <1>1, <1>2, <1>3, CallOK

LEMMA HandlerEndsOK ==
  ASSUME IndInv, NEW reject \in BOOLEAN, NEW with \in Resolutions, HandlerEnds(reject, with)
  PROVE  IndInv'
<1>1. running.type = "handler" /\ running \in Frames
  BY DEF HandlerEnds, IndInv, TypeOK
<1>2. PICK f \in Pairs : f = running.reaction.to
  BY <1>1, FrameTypes, ReactionTypes
<1>3. Made(f, pairs) /\ started \in [Promises -> Seq(Reactions)]
  BY <1>1, <1>2 DEF IndInv, TypeOK, References
<1>4. QueueOK(jobs)
  BY JobsAreOK
<1>5. /\ Fits(f, reject, with)
      /\ Resolve(f, reject, with, jobs) /\ running' = None
      /\ UNCHANGED <<pairs, held, handled, attached, started>>
  BY <1>2 DEF HandlerEnds
<1>. QED BY <1>3, <1>4, <1>5, CallOK

LEMMA ThenEndsOK ==
  ASSUME IndInv, NEW throws \in BOOLEAN, ThenEnds(throws)
  PROVE  IndInv'
<1>1. CASE throws
  <2>1. running.type = "then" /\ running \in Frames
    BY DEF ThenEnds, IndInv, TypeOK
  <2>2. PICK f \in Pairs : f = running.to
    BY <2>1, FrameTypes
  <2>3. Made(f, pairs) /\ started \in [Promises -> Seq(Reactions)]
    BY <2>1, <2>2 DEF IndInv, TypeOK, References
  <2>4. QueueOK(jobs)
    BY JobsAreOK
  <2>5. /\ Resolve(f, TRUE, "plain", jobs) /\ running' = None
        /\ UNCHANGED <<pairs, held, handled, attached, started>>
    BY <1>1, <2>2 DEF ThenEnds
  <2>6. "plain" \in Resolutions
    BY DEF Resolutions
  <2>. QED BY <2>3, <2>4, <2>5, <2>6, CallOK DEF Fits
<1>2. CASE ~throws
  BY <1>2, FrameOK DEF ThenEnds
<1>. QED BY <1>1, <1>2

LEMMA AwaitOK ==
  ASSUME IndInv, NEW p \in Promises, Await(p)
  PROVE  IndInv'
<1>1. running.type = "handler" /\ running \in Frames
  BY DEF Await, IndInv, TypeOK
<1>2. PICK r \in Reactions : r = running.reaction
  BY <1>1, FrameTypes
<1>3. /\ Attach(p, r, jobs) /\ running' = None
      /\ UNCHANGED <<state, pairs, resolved, held, reported, started>>
  BY <1>2 DEF Await
<1>4. /\ jobs \in Seq(Jobs) /\ MadeJobs(jobs, pairs) /\ Made(r.to, pairs)
      /\ pairs \in [Promises -> Nat]
  BY <1>1, <1>2, PairsTypes DEF IndInv, TypeOK, References
<1>5. \A x \in Promises : pairs[x] <= pairs[x]
  BY <1>4
<1>6. /\ jobs' \in Seq(Jobs) /\ MadeJobs(jobs', pairs)
      /\ \A x : NoDue(jobs, x) => NoDue(jobs', x)
      /\ \A x : OneDue(jobs, x) => OneDue(jobs', x)
      /\ reactions' \in [Promises -> Seq(Reactions)]
      /\ \A x \in Promises : MadeReactions(reactions'[x], pairs)
      /\ handled' \subseteq Promises
      /\ attached' \in [Promises -> Seq(Reactions)]
  BY <1>3, <1>4, <1>5, AttachOK
<1>7. TypeOK'
  BY <1>3, <1>6 DEF IndInv, TypeOK, None, Frames
<1>8. References'
  BY <1>3, <1>6 DEF IndInv, References, None
<1>9. OnlyTheLast'
  BY <1>3 DEF IndInv, OnlyTheLast
<1>10. Authority'
  BY <1>3, <1>6 DEF IndInv, Authority, Last
<1>. QED BY <1>7, <1>8, <1>9, <1>10 DEF IndInv

LEMMA RunReactionOK ==
  ASSUME IndInv, NEW with \in Resolutions, RunReaction(with)
  PROVE  IndInv'
<1>1. PICK job \in Jobs : job = Head(jobs) /\ job.type = "reaction"
  BY TailQueue DEF RunReaction, IndInv, TypeOK
<1>2. PICK r \in Reactions, p \in Promises, b \in BOOLEAN :
        r = job.reaction /\ p = job.on /\ b = job.reject
  BY <1>1, JobTypes
<1>3. jobs # <<>> /\ QueueOK(Tail(jobs))
  BY <1>1, TailIsOK DEF RunReaction
<1>4. r.to \in Pairs /\ Made(r.to, pairs)
  BY <1>1, <1>2, <1>3, TailQueue, ReactionTypes DEF IndInv, TypeOK, References
<1>5. started' \in [Promises -> Seq(Reactions)]
  <2>1. started \in [Promises -> Seq(Reactions)]
    BY DEF IndInv, TypeOK
  <2>2. Append(started[p], r) \in Seq(Reactions)
    BY <2>1, AppendProperties
  <2>3. started' = [started EXCEPT ![p] = Append(started[p], r)]
    BY <1>1, <1>2 DEF RunReaction
  <2>. QED BY <2>1, <2>2, <2>3
<1>6. CASE Handles(r.kind, b)
  <2>1. /\ running' = [type |-> "handler", reaction |-> r] /\ jobs' = Tail(jobs)
        /\ UNCHANGED <<state, pairs, resolved, held, reactions, handled, reported, attached>>
    BY <1>1, <1>2, <1>6 DEF RunReaction
  <2>2. TypeOK'
    <3>1. running' \in Frames
      BY <2>1 DEF Frames
    <3>2. jobs' \in Seq(Jobs)
      BY <1>3, <2>1 DEF QueueOK
    <3>. QED BY <1>5, <2>1, <3>1, <3>2 DEF IndInv, TypeOK
  <2>3. References'
    BY <1>3, <1>4, <2>1 DEF IndInv, References, QueueOK
  <2>4. OnlyTheLast'
    BY <2>1 DEF IndInv, OnlyTheLast
  <2>5. Authority'
    BY <1>3, <2>1 DEF IndInv, Authority, QueueOK, Last
  <2>. QED BY <2>2, <2>3, <2>4, <2>5 DEF IndInv
<1>7. CASE ~Handles(r.kind, b)
  <2>1. /\ Fits(r.to, b, with) /\ Resolve(r.to, b, with, Tail(jobs))
        /\ UNCHANGED <<pairs, held, handled, attached, running>>
    BY <1>1, <1>2, <1>7 DEF RunReaction
  <2>. QED BY <1>3, <1>4, <1>5, <2>1, CallOK
<1>. QED BY <1>6, <1>7

\* The job hands the authority over its promise to a new pair.
LEMMA RunThenableOK ==
  ASSUME IndInv, RunThenable
  PROVE  IndInv'
<1>1. jobs \in Seq(Jobs) /\ jobs # <<>> /\ pairs \in [Promises -> Nat]
  BY PairsTypes DEF RunThenable, IndInv, TypeOK
<1>2. PICK job \in Jobs : job = Head(jobs) /\ job.type = "thenable"
  BY <1>1, TailQueue DEF RunThenable
<1>3. PICK p \in Promises : p = job.promise
  BY <1>2, JobTypes
<1>4. PICK new : new = <<p, pairs[p] + 1>>
  OBVIOUS
<1>5. PICK rest \in Seq(Jobs) : rest = Tail(jobs)
  BY <1>1, TailQueue
<1>6. Thenable(Head(jobs), p) /\ \A x : x # p => ~Thenable(Head(jobs), x)
  BY <1>2, <1>3 DEF Thenable
<1>7. state[p] = "pending" /\ Last(p) \in resolved /\ OneDue(jobs, p) /\ pairs[p] < MaxPairs[p]
  BY <1>1, <1>6, TailQueue DEF IndInv, Authority
<1>8. /\ NoDue(rest, p)
      /\ \A x : x # p => /\ NoDue(jobs, x) => NoDue(rest, x)
                         /\ OneDue(jobs, x) => OneDue(rest, x)
  BY <1>1, <1>5, <1>6, <1>7, TailQueue
<1>9. PICK n \in Nat : n = pairs[p] /\ n + 1 \in 1 .. MaxPairs[p] /\ n + 1 <= MaxPairs[p]
  BY <1>1, <1>7, PairsAssumption
<1>10. /\ pairs' = [pairs EXCEPT ![p] = n + 1]
       /\ UNCHANGED <<state, resolved, reported, started>>
  BY <1>2, <1>3, <1>9 DEF RunThenable
<1>11. /\ pairs' \in [Promises -> Nat] /\ Bounded(pairs')
       /\ pairs'[p] = n + 1 /\ \A x \in Promises : x # p => pairs'[x] = pairs[x]
  BY <1>1, <1>9, <1>10 DEF IndInv, TypeOK, Bounded
<1>12. \A x \in Promises : pairs[x] <= pairs'[x]
  <2>. TAKE x \in Promises
  <2>1. CASE x = p BY <1>9, <1>11, <2>1
  <2>2. CASE x # p BY <1>1, <1>11, <2>2
  <2>. QED BY <2>1, <2>2
<1>13. new \in Pairs /\ Made(new, pairs') /\ new \notin resolved /\ new = <<p, n + 1>>
  <2>1. new = <<p, n + 1>> /\ new \in Pairs
    BY <1>4, <1>9 DEF Pairs
  <2>2. Made(new, pairs') /\ ~Made(new, pairs)
    BY <1>9, <1>11, <2>1 DEF Made
  <2>. QED BY <2>1, <2>2 DEF IndInv, References
<1>14. /\ \A f \in held \cup resolved : Made(f, pairs')
       /\ \A x \in Promises : MadeReactions(reactions[x], pairs')
       /\ MadeJobs(jobs, pairs')
       /\ running.type = "handler" => Made(running.reaction.to, pairs')
       /\ running.type = "then" => Made(running.to, pairs')
  BY <1>11, <1>12, RestStays
<1>15. MadeJobs(rest, pairs')
  BY <1>1, <1>5, <1>14, TailQueue
<1>16. OnlyTheLast'
  <2>. SUFFICES ASSUME NEW x \in Promises, NEW m \in Nat \ {0}, m < pairs'[x]
                PROVE  <<x, m>> \in resolved
    BY <1>10 DEF OnlyTheLast
  <2>1. CASE x = p /\ m < n
    BY <1>9, <2>1 DEF IndInv, OnlyTheLast
  <2>2. CASE x = p /\ ~(m < n)
    <3>1. m = n
      BY <1>11, <2>2
    <3>. QED BY <1>7, <1>9, <2>2, <3>1 DEF Last
  <2>3. CASE x # p
    BY <1>11, <2>3 DEF IndInv, OnlyTheLast
  <2>. QED BY <2>1, <2>2, <2>3
<1>17. ASSUME \A x : NoDue(rest, x) => NoDue(jobs', x),
              \A x : OneDue(rest, x) => OneDue(jobs', x)
       PROVE  Authority'
  <2>. SUFFICES ASSUME NEW x \in Promises
                PROVE  /\ state[x] = "unborn" <=> pairs'[x] = 0
                       /\ state[x] = "pending" =>
                            \/ <<x, pairs'[x]>> \notin resolved /\ NoDue(jobs', x)
                            \/ /\ <<x, pairs'[x]>> \in resolved
                               /\ OneDue(jobs', x) /\ pairs'[x] < MaxPairs[x]
                       /\ state[x] # "pending" =>
                            (pairs'[x] > 0 => <<x, pairs'[x]>> \in resolved) /\ NoDue(jobs', x)
    BY <1>10 DEF Authority, Last
  <2>1. CASE x = p
    <3>1. state[x] = "pending" /\ pairs'[x] = n + 1 /\ n + 1 # 0
      BY <1>7, <1>11, <2>1
    <3>2. <<x, pairs'[x]>> \notin resolved /\ NoDue(jobs', x)
      BY <1>8, <1>13, <1>17, <2>1, <3>1
    <3>. QED BY <3>1, <3>2
  <2>2. CASE x # p
    <3>1. pairs'[x] = pairs[x]
      BY <1>11, <2>2
    <3>2. (NoDue(jobs, x) => NoDue(jobs', x)) /\ (OneDue(jobs, x) => OneDue(jobs', x))
      BY <1>8, <1>17, <2>2
    <3>. QED BY <3>1, <3>2 DEF IndInv, Authority, Last
  <2>. QED BY <2>1, <2>2
<1>18. CASE job.of = "foreign"
  <2>1. /\ running' = [type |-> "then", to |-> new] /\ held' = held \cup {new}
        /\ jobs' = rest /\ UNCHANGED <<reactions, handled, attached>>
    BY <1>2, <1>3, <1>4, <1>5, <1>18 DEF RunThenable, NewPair
  <2>2. TypeOK'
    <3>1. running' \in Frames
      BY <1>13, <2>1 DEF Frames
    <3>. QED BY <1>10, <1>11, <1>13, <2>1, <3>1 DEF IndInv, TypeOK, Bounded
  <2>3. References'
    BY <1>10, <1>13, <1>14, <1>15, <2>1 DEF References
  <2>4. Authority'
    BY <1>17, <2>1
  <2>. QED BY <1>16, <2>2, <2>3, <2>4 DEF IndInv
<1>19. CASE job.of # "foreign"
  <2>. DEFINE r == [kind |-> "follow", to |-> new]
  <2>1. PICK q \in Promises : q = job.of
    BY <1>2, <1>19, JobTypes
  <2>2. Attach(q, r, rest) /\ UNCHANGED <<running, held>>
    BY <1>2, <1>3, <1>4, <1>5, <1>19, <2>1 DEF RunThenable, Follower, NewPair
  <2>3. r \in Reactions /\ r.to = new
    BY <1>13 DEF Reactions, Kinds
  <2>. HIDE DEF r
  <2>4. PICK c \in [Promises -> Nat] : c = pairs'
    BY <1>11
  <2>5. (\A x \in Promises : pairs[x] <= c[x]) /\ Made(r.to, c) /\ MadeJobs(rest, c)
    BY <1>12, <1>13, <1>15, <2>3, <2>4
  <2>6. /\ jobs' \in Seq(Jobs) /\ MadeJobs(jobs', c)
        /\ \A x : NoDue(rest, x) => NoDue(jobs', x)
        /\ \A x : OneDue(rest, x) => OneDue(jobs', x)
        /\ reactions' \in [Promises -> Seq(Reactions)]
        /\ \A x \in Promises : MadeReactions(reactions'[x], c)
        /\ handled' \subseteq Promises
        /\ attached' \in [Promises -> Seq(Reactions)]
    BY <2>2, <2>3, <2>5, AttachOK
  <2>7. TypeOK'
    BY <1>10, <1>11, <2>2, <2>6 DEF IndInv, TypeOK, Bounded
  <2>8. References'
    BY <1>10, <1>14, <2>2, <2>4, <2>6 DEF References
  <2>9. Authority'
    BY <1>17, <2>6
  <2>. QED BY <1>16, <2>7, <2>8, <2>9 DEF IndInv
<1>. QED BY <1>18, <1>19

LEMMA NextOK ==
  ASSUME IndInv, [Next]_vars
  PROVE  IndInv'
<1>1. CASE StartScript \/ ScriptEnds
  BY <1>1, FrameOK DEF StartScript, ScriptEnds
<1>2. CASE \E with \in Resolutions : RunReaction(with)
  BY <1>2, RunReactionOK
<1>3. CASE RunThenable BY <1>3, RunThenableOK
<1>4. CASE \E p \in Promises : NewPromise(p) \/ Await(p)
  BY <1>4, NewPromiseOK, AwaitOK
<1>5. CASE \E p, q \in Promises, kind \in Kinds \ {"follow"} : Then(p, q, kind)
  BY <1>5, ThenOK
<1>6. CASE \E reject \in BOOLEAN, with \in Resolutions, f \in held : CallSettler(f, reject, with)
  BY <1>6, CallSettlerOK
<1>7. CASE \E reject \in BOOLEAN, with \in Resolutions : HandlerEnds(reject, with)
  BY <1>7, HandlerEndsOK
<1>8. CASE \E throws \in BOOLEAN : ThenEnds(throws)
  BY <1>8, ThenEndsOK
<1>9. CASE UNCHANGED vars
  <2>1. TypeOK' /\ References'
    BY <1>9 DEF IndInv, TypeOK, References, vars
  <2>2. OnlyTheLast' /\ Authority'
    BY <1>9 DEF IndInv, OnlyTheLast, Authority, Last, vars
  <2>. QED BY <2>1, <2>2 DEF IndInv
<1>. QED BY <1>1, <1>2, <1>3, <1>4, <1>5, <1>6, <1>7, <1>8, <1>9 DEF Next

\* The inductive invariant holds in every state.
LEMMA Invariance == Spec => []IndInv
<1>1. IndInv /\ [Next]_vars => IndInv'
  BY NextOK
<1>. QED BY InitOK, <1>1, PTL DEF Spec

----------------------------------------------------------------------------
(* Results. *)

\* The state of the engine's promises, pairs, reactions and jobs has its types.
THEOREM TypeCorrect == Spec => []TypeOK
<1>1. IndInv => TypeOK
  BY DEF IndInv
<1>. QED BY Invariance, <1>1, PTL

\* One authority decides about a pending promise and none about a settled one:
\* the pair given out last, unless it is used up by a thenable, whose job will
\* then give out the next.
LEMMA AuthorityIsOne == IndInv => OneAuthority
<1>. SUFFICES ASSUME IndInv, NEW p \in Promises
              PROVE  IF state[p] = "pending"
                     THEN \/ Due(p) = {} /\ \E n \in Open(p) : Open(p) = {n}
                          \/ Open(p) = {} /\ \E i \in Due(p) : Due(p) = {i}
                     ELSE Open(p) = {} /\ Due(p) = {}
  BY DEF OneAuthority
<1>1. pairs[p] \in Nat
  BY PairsTypes DEF IndInv, TypeOK
<1>2. DOMAIN jobs = 1 .. Len(jobs)
  BY LenProperties DEF IndInv, TypeOK
<1>3. Open(p) \subseteq {pairs[p]}
  <2>. SUFFICES ASSUME NEW n \in Open(p) PROVE n = pairs[p]
    OBVIOUS
  <2>1. n \in 1 .. pairs[p] /\ n \in Nat \ {0} /\ <<p, n>> \notin resolved
    BY <1>1, PairsAssumption DEF Open
  <2>2. ~(n < pairs[p])
    BY <2>1 DEF IndInv, OnlyTheLast
  <2>. QED BY <1>1, <2>1, <2>2
<1>4. Last(p) \notin resolved /\ pairs[p] > 0 => Open(p) = {pairs[p]}
  BY <1>1, <1>3 DEF Open, Last
<1>5. Last(p) \in resolved => Open(p) = {}
  BY <1>3 DEF Open, Last
<1>6. pairs[p] = 0 => Open(p) = {}
  BY DEF Open
<1>7. NoDue(jobs, p) => Due(p) = {}
  BY <1>2 DEF NoDue, Due, Thenable
<1>8. OneDue(jobs, p) => \E i \in Due(p) : Due(p) = {i}
  BY <1>2 DEF OneDue, Due, Thenable
<1>9. CASE state[p] = "pending"
  <2>1. pairs[p] > 0
    BY <1>1, <1>9 DEF IndInv, Authority
  <2>. QED BY <1>4, <1>5, <1>7, <1>8, <1>9, <2>1 DEF IndInv, Authority
<1>10. CASE state[p] # "pending"
  <2>1. pairs[p] = 0 \/ pairs[p] > 0
    BY <1>1
  <2>. QED BY <1>5, <1>6, <1>7, <1>10, <2>1 DEF IndInv, Authority
<1>. QED BY <1>9, <1>10

\* However often resolving functions are called, and whatever follows what, no
\* settled promise is settled again and no pending one is given up.
THEOREM PromisesAreDecidedOnce == Spec => []OneAuthority
BY Invariance, AuthorityIsOne, PTL

----------------------------------------------------------------------------
(* Reactions in line. *)

\* The reaction jobs of a promise, and what a queue says of promises to follow.
On(j, p)     == j.type = "reaction" /\ j.on = p
NoneOn(q, p) == \A i \in 1 .. Len(q) : ~On(q[i], p)
Follow(j, s) == j.type = "thenable" /\ j.of \in Promises => s[j.of] # "unborn"
Known(q, s)  == \A i \in 1 .. Len(q) : Follow(q[i], s)

\* The places of reactions in a queue.
Job(p, r, b) == [type |-> "reaction", on |-> p, reaction |-> r, reject |-> b]
Places(w, q, p, a, m, n, b) ==
  /\ \A k, l \in m .. n : k < l => w[k] < w[l]
  /\ \A k \in m .. n : q[w[k]] = Job(p, a[k], b)
  /\ \A i \in 1 .. Len(q) : On(q[i], p) => \E k \in m .. n : w[k] = i

LEMMA LineHasPlaces ==
  ASSUME NEW q \in Seq(Jobs), NEW p, NEW a, NEW m, NEW n, NEW b
  PROVE  InLine(q, p, a, m, n, b) <=> \E w \in [m .. n -> 1 .. Len(q)] : Places(w, q, p, a, m, n, b)
<1>1. DOMAIN q = 1 .. Len(q)
  BY LenProperties
<1>. QED BY <1>1, Zenon DEF InLine, Places, On, Job

LEMMA ConcatLines ==
  ASSUME NEW q \in Seq(Jobs), NEW r \in Seq(Jobs)
  PROVE  /\ q \o r \in Seq(Jobs)
         /\ \A p, a, m, n, b :
              InLine(q, p, a, m, n, b) /\ NoneOn(r, p) => InLine(q \o r, p, a, m, n, b)
         /\ \A s : Known(q, s) /\ Known(r, s) => Known(q \o r, s)
<1>1. PICK m \in Nat, n \in Nat : m = Len(q) /\ n = Len(r)
  BY LenProperties
<1>2. PICK s \in Seq(Jobs) : s = q \o r
  BY ConcatProperties
<1>3. /\ Len(s) = m + n /\ DOMAIN s = 1 .. m + n /\ DOMAIN q = 1 .. m
      /\ \A i \in 1 .. m + n : s[i] = IF i <= m THEN q[i] ELSE r[i - m]
  BY <1>1, <1>2, ConcatProperties, LenProperties
<1>4. \A i \in 1 .. m : i \in 1 .. m + n /\ s[i] = q[i]
  BY <1>3
<1>5. \A i \in 1 .. m + n : i \in 1 .. m \/ (i - m \in 1 .. n /\ s[i] = r[i - m])
  BY <1>3
<1>6. ASSUME NEW p, NEW a, NEW k, NEW l, NEW b, InLine(q, p, a, k, l, b), NoneOn(r, p)
      PROVE  InLine(s, p, a, k, l, b)
  <2>1. PICK w \in [k .. l -> 1 .. m] : Places(w, q, p, a, k, l, b)
    BY <1>1, <1>6, LineHasPlaces
  <2>2. w \in [k .. l -> 1 .. m + n]
    BY <1>4, <2>1
  <2>3. \A i \in k .. l : s[w[i]] = q[w[i]]
    BY <1>4, <2>1
  <2>4. \A i \in 1 .. m + n : On(s[i], p) => \E j \in k .. l : w[j] = i
    <3>. SUFFICES ASSUME NEW i \in 1 .. m + n, On(s[i], p)
                  PROVE  \E j \in k .. l : w[j] = i
      OBVIOUS
    <3>1. i \in 1 .. m
      BY <1>1, <1>5, <1>6 DEF NoneOn
    <3>. QED BY <1>1, <1>4, <2>1, <3>1 DEF Places
  <2>5. Places(w, s, p, a, k, l, b)
    BY <1>3, <2>1, <2>3, <2>4 DEF Places
  <2>. QED BY <1>3, <2>2, <2>5, LineHasPlaces
<1>7. ASSUME NEW c, Known(q, c), Known(r, c) PROVE Known(s, c)
  <2>. SUFFICES ASSUME NEW i \in 1 .. m + n PROVE Follow(s[i], c)
    BY <1>3 DEF Known
  <2>1. CASE i \in 1 .. m
    BY <1>1, <1>4, <1>7, <2>1 DEF Known
  <2>2. CASE i \notin 1 .. m
    BY <1>1, <1>5, <1>7, <2>2 DEF Known
  <2>. QED BY <2>1, <2>2
<1>. QED BY <1>2, <1>6, <1>7

\* Reactions that become jobs go to the end of the line: c has a from m to n, and
\* then rs.
Extends(c, a, rs, m, n) ==
  (\A k \in m .. n : c[k] = a[k]) /\ \A k \in 1 .. Len(rs) : c[n + k] = rs[k]

LEMMA LineGrows ==
  ASSUME NEW q \in Seq(Jobs), NEW p \in Promises, NEW rs \in Seq(Reactions),
         NEW b \in BOOLEAN, NEW a, NEW c, NEW m \in Nat, NEW n \in Nat, m <= n + 1,
         Extends(c, a, rs, m, n), InLine(q, p, a, m, n, b)
  PROVE  InLine(q \o ReactionJobs(p, rs, b), p, c, m, n + Len(rs), b)
<1>20. (\A k \in m .. n : c[k] = a[k]) /\ \A k \in 1 .. Len(rs) : c[n + k] = rs[k]
  BY DEF Extends
<1>1. PICK x \in Nat, y \in Nat : x = Len(q) /\ y = Len(rs)
  BY LenProperties
<1>2. PICK new \in Seq(Jobs) : new = ReactionJobs(p, rs, b)
  BY ReactionJobsOK
<1>3. DOMAIN rs = 1 .. y /\ new = [i \in 1 .. y |-> Job(p, rs[i], b)]
  BY <1>1, <1>2, LenProperties DEF ReactionJobs, Job
<1>4. Len(new) = y /\ \A i \in 1 .. y : new[i] = Job(p, rs[i], b)
  <2>1. DOMAIN new = 1 .. y /\ DOMAIN new = 1 .. Len(new) /\ Len(new) \in Nat
    BY <1>3, LenProperties
  <2>2. Len(new) = y
    BY <1>1, <2>1
  <2>. QED BY <1>3, <2>2
<1>5. PICK s \in Seq(Jobs) : s = q \o new
  BY ConcatProperties
<1>6. Len(s) = x + y /\ \A i \in 1 .. x + y : s[i] = IF i <= x THEN q[i] ELSE new[i - x]
  <2>1. Len(new) = y
    BY <1>4
  <2>2. /\ Len(s) = Len(q) + Len(new)
        /\ \A i \in 1 .. Len(q) + Len(new) : s[i] = IF i <= Len(q) THEN q[i] ELSE new[i - Len(q)]
    BY <1>5, ConcatProperties
  <2>. QED BY <1>1, <2>1, <2>2
<1>7. /\ \A i \in 1 .. x : i \in 1 .. x + y /\ s[i] = q[i]
      /\ \A i \in 1 .. y : x + i \in 1 .. x + y /\ s[x + i] = Job(p, rs[i], b)
      /\ \A i \in 1 .. x + y : i \in 1 .. x \/ (i - x \in 1 .. y /\ i = x + (i - x))
  BY <1>4, <1>6
<1>8. PICK place \in [m .. n -> 1 .. x] : Places(place, q, p, a, m, n, b)
  BY <1>1, LineHasPlaces
<1>0. /\ \A i, j \in m .. n : i < j => place[i] < place[j]
      /\ \A i \in m .. n : q[place[i]] = Job(p, a[i], b)
      /\ \A i \in 1 .. x : On(q[i], p) => \E j \in m .. n : place[j] = i
  BY <1>1, <1>8 DEF Places
<1>. DEFINE after == [k \in m .. n + y |-> IF k <= n THEN place[k] ELSE x + (k - n)]
<1>9. \A k \in m .. n + y : k \in m .. n \/ (k - n \in 1 .. y /\ k = n + (k - n) /\ ~(k <= n))
  OBVIOUS
<1>10. /\ \A k \in m .. n : k <= n /\ k \in m .. n + y
       /\ \A k \in 1 .. y : n + k \in m .. n + y /\ ~(n + k <= n) /\ (n + k) - n = k
  OBVIOUS
<1>11. /\ \A k \in m .. n : after[k] = place[k]
       /\ \A k \in 1 .. y : after[n + k] = x + k
  BY <1>10
<1>12. after \in [m .. n + y -> 1 .. x + y]
  <2>1. \A k \in m .. n : after[k] \in 1 .. x + y
    BY <1>7, <1>8, <1>11
  <2>2. \A k \in 1 .. y : after[n + k] \in 1 .. x + y
    BY <1>7, <1>11
  <2>3. \A k \in m .. n + y : after[k] \in 1 .. x + y
    BY <1>9, <2>1, <2>2
  <2>. QED BY <2>3
<1>13. PICK w \in [m .. n + y -> 1 .. x + y] : w = after
  BY <1>12
<1>14. /\ \A k \in m .. n : w[k] = place[k] /\ w[k] \in 1 .. x
       /\ \A k \in 1 .. y : w[n + k] = x + k
  BY <1>8, <1>11, <1>13
<1>. HIDE DEF after
<1>15. ASSUME NEW k \in m .. n + y, NEW l \in m .. n + y, k < l PROVE w[k] < w[l]
  <2>1. CASE l \in m .. n
    <3>1. k \in m .. n
      BY <1>15, <2>1
    <3>. QED BY <1>0, <1>14, <1>15, <2>1, <3>1
  <2>2. CASE l \notin m .. n /\ k \in m .. n
    <3>1. l - n \in 1 .. y /\ w[l] = x + (l - n) /\ w[k] \in 1 .. x
      BY <1>9, <1>14, <2>2
    <3>. QED BY <3>1
  <2>3. CASE l \notin m .. n /\ k \notin m .. n
    <3>1. w[l] = x + (l - n) /\ w[k] = x + (k - n)
      BY <1>9, <1>14, <2>3
    <3>. QED BY <1>15, <3>1
  <2>. QED BY <2>1, <2>2, <2>3
<1>16. ASSUME NEW k \in m .. n + y PROVE s[w[k]] = Job(p, c[k], b)
  <2>1. CASE k \in m .. n
    <3>1. w[k] = place[k] /\ w[k] \in 1 .. x /\ q[place[k]] = Job(p, a[k], b)
      BY <1>0, <1>14, <2>1
    <3>2. s[w[k]] = q[w[k]]
      BY <1>7, <3>1
    <3>. QED BY <1>20, <2>1, <3>1, <3>2
  <2>2. CASE k \notin m .. n
    <3>1. PICK l \in 1 .. y : k = n + l
      BY <1>9, <2>2
    <3>2. w[k] = x + l /\ s[x + l] = Job(p, rs[l], b) /\ c[k] = rs[l]
      BY <1>20, <1>1, <1>7, <1>14, <3>1
    <3>. QED BY <3>2
  <2>. QED BY <2>1, <2>2
<1>17. ASSUME NEW i \in 1 .. x + y, On(s[i], p) PROVE \E k \in m .. n + y : w[k] = i
  <2>1. CASE i \in 1 .. x
    <3>1. PICK k \in m .. n : place[k] = i
      BY <1>0, <1>7, <1>17, <2>1
    <3>. QED BY <1>10, <1>14, <3>1
  <2>2. CASE i \notin 1 .. x
    <3>1. PICK k \in 1 .. y : i = x + k
      BY <1>7, <2>2
    <3>. QED BY <1>10, <1>14, <3>1
  <2>. QED BY <2>1, <2>2
<1>18. Places(w, s, p, c, m, n + y, b)
  BY <1>6, <1>15, <1>16, <1>17 DEF Places
<1>19. InLine(s, p, c, m, n + y, b)
  BY <1>6, <1>13, <1>18, LineHasPlaces
<1>. QED BY <1>1, <1>2, <1>5, <1>19

\* The head of the queue is the first in its line; the others move up.
LEMMA TailLines ==
  ASSUME NEW q \in Seq(Jobs), q # <<>>
  PROVE  /\ \A p, a, b : \A m, n \in Nat : InLine(q, p, a, m, n, b) =>
              IF On(Head(q), p)
              THEN /\ m <= n /\ Head(q) = Job(p, a[m], b)
                   /\ InLine(Tail(q), p, a, m + 1, n, b)
              ELSE InLine(Tail(q), p, a, m, n, b)
         /\ \A s : Known(q, s) => Known(Tail(q), s) /\ Follow(Head(q), s)
<1>1. PICK z \in Nat \ {0} : z = Len(q)
  BY EmptySeq
<1>2. PICK t \in Seq(Jobs) : t = Tail(q)
  BY HeadTailProperties
<1>3. Len(t) = z - 1 /\ \A i \in 1 .. z - 1 : t[i] = q[i + 1] /\ i + 1 \in 1 .. z
  BY <1>1, <1>2, HeadTailProperties
<1>4. 1 \in 1 .. z /\ Head(q) = q[1]
  BY HeadTailProperties
<1>5. \A i \in 1 .. z : i = 1 \/ (i - 1 \in 1 .. z - 1 /\ t[i - 1] = q[i])
  BY <1>3
<1>. SUFFICES ASSUME NEW p, NEW a, NEW b, NEW m \in Nat, NEW n \in Nat,
                     InLine(q, p, a, m, n, b)
              PROVE  IF On(Head(q), p)
                     THEN /\ m <= n /\ Head(q) = Job(p, a[m], b)
                          /\ InLine(t, p, a, m + 1, n, b)
                     ELSE InLine(t, p, a, m, n, b)
  <2>1. ASSUME NEW s, Known(q, s) PROVE Known(t, s) /\ Follow(Head(q), s)
    BY <1>1, <1>3, <1>4, <2>1 DEF Known
  <2>. QED BY <1>2, <2>1
<1>6. PICK w \in [m .. n -> 1 .. z] : Places(w, q, p, a, m, n, b)
  BY <1>1, LineHasPlaces
<1>7. /\ \A i, j \in m .. n : i < j => w[i] < w[j]
      /\ \A i \in m .. n : q[w[i]] = Job(p, a[i], b)
      /\ \A i \in 1 .. z : On(q[i], p) => \E j \in m .. n : w[j] = i
  BY <1>1, <1>6 DEF Places
<1>8. ASSUME NEW l \in Nat, m <= l,
             \A k \in l .. n : w[k] # 1,
             \A k \in m .. n : w[k] # 1 => k \in l .. n
      PROVE  InLine(t, p, a, l, n, b)
  <2>1. \A k \in l .. n : k \in m .. n
    BY <1>8
  <2>. DEFINE after == [k \in l .. n |-> w[k] - 1]
  <2>2. \A k \in l .. n : after[k] = w[k] - 1 /\ w[k] \in 1 .. z
    BY <1>6, <2>1
  <2>3. \A k \in l .. n : after[k] \in 1 .. z - 1 /\ t[after[k]] = q[w[k]]
    BY <1>5, <1>8, <2>2
  <2>4. PICK v \in [l .. n -> 1 .. z - 1] : v = after
    BY <2>3
  <2>. HIDE DEF after
  <2>5. \A k \in l .. n : t[v[k]] = Job(p, a[k], b)
    BY <1>7, <2>1, <2>3, <2>4
  <2>6. ASSUME NEW j \in l .. n, NEW k \in l .. n, j < k PROVE v[j] < v[k]
    <3>1. w[j] < w[k] /\ w[j] \in 1 .. z /\ w[k] \in 1 .. z
      BY <1>7, <2>1, <2>2, <2>6
    <3>2. v[j] = w[j] - 1 /\ v[k] = w[k] - 1
      BY <2>2, <2>4
    <3>. QED BY <3>1, <3>2
  <2>7. ASSUME NEW i \in 1 .. z - 1, On(t[i], p) PROVE \E k \in l .. n : v[k] = i
    <3>1. i + 1 \in 1 .. z /\ On(q[i + 1], p) /\ i + 1 # 1 /\ (i + 1) - 1 = i
      BY <1>3, <2>7
    <3>2. PICK k \in m .. n : w[k] = i + 1
      BY <1>7, <3>1
    <3>3. k \in l .. n
      BY <1>8, <3>1, <3>2
    <3>4. v[k] = w[k] - 1
      BY <2>2, <2>4, <3>3
    <3>. QED BY <3>1, <3>2, <3>3, <3>4
  <2>8. Places(v, t, p, a, l, n, b)
    BY <1>3, <2>5, <2>6, <2>7 DEF Places
  <2>. QED BY <1>3, <2>8, LineHasPlaces
<1>9. CASE On(Head(q), p)
  <2>1. PICK j \in m .. n : w[j] = 1
    BY <1>4, <1>7, <1>9
  <2>2. m \in m .. n /\ m <= n
    BY <2>1
  <2>3. w[m] \in 1 .. z /\ ~(w[m] < 1)
    <3>1. w[m] \in 1 .. z
      BY <1>6, <2>2
    <3>. QED BY <3>1
  <2>4. m = j
    <3>1. m < j => w[m] < 1
      BY <1>7, <2>1, <2>2
    <3>. QED BY <2>1, <2>3, <3>1
  <2>5. Head(q) = Job(p, a[m], b)
    BY <1>4, <1>7, <2>1, <2>2, <2>4
  <2>6. ASSUME NEW k \in m + 1 .. n PROVE w[k] # 1
    <3>1. k \in m .. n /\ m < k
      OBVIOUS
    <3>2. w[m] < w[k] /\ w[m] = 1
      BY <1>7, <2>1, <2>2, <2>4, <3>1
    <3>. QED BY <3>2
  <2>7. \A k \in m .. n : w[k] # 1 => k \in m + 1 .. n
    <3>1. \A k \in m .. n : k = m \/ k \in m + 1 .. n
      OBVIOUS
    <3>. QED BY <2>1, <2>4, <3>1
  <2>8. m + 1 \in Nat /\ m <= m + 1
    OBVIOUS
  <2>9. InLine(t, p, a, m + 1, n, b)
    BY <1>8, <2>6, <2>7, <2>8
  <2>. QED BY <1>9, <2>2, <2>5, <2>9
<1>10. CASE ~On(Head(q), p)
  <2>1. ASSUME NEW k \in m .. n PROVE w[k] # 1
    <3>1. On(q[w[k]], p)
      <4>1. q[w[k]] = Job(p, a[k], b)
        BY <1>7
      <4>. QED BY <4>1 DEF On, Job
    <3>. QED BY <1>4, <1>10, <3>1
  <2>2. InLine(t, p, a, m, n, b)
    <3>1. m <= m
      OBVIOUS
    <3>. QED BY <1>8, <2>1, <3>1
  <2>. QED BY <1>10, <2>2
<1>. QED BY <1>9, <1>10

\* A line that is empty.
LEMMA NobodyInLine ==
  ASSUME NEW q \in Seq(Jobs), NEW p, NEW a, NEW m \in Nat, NEW n \in Nat, n < m, NEW b
  PROVE  InLine(q, p, a, m, n, b) <=> NoneOn(q, p)
<1>1. m .. n = {}
  OBVIOUS
<1>2. ASSUME InLine(q, p, a, m, n, b) PROVE NoneOn(q, p)
  <2>1. PICK w \in [m .. n -> 1 .. Len(q)] : Places(w, q, p, a, m, n, b)
    BY <1>2, LineHasPlaces
  <2>. QED BY <1>1, <2>1 DEF Places, NoneOn
<1>3. ASSUME NoneOn(q, p) PROVE InLine(q, p, a, m, n, b)
  <2>1. PICK w : w = [k \in m .. n |-> 1]
    OBVIOUS
  <2>2. w \in [m .. n -> 1 .. Len(q)]
    BY <1>1, <2>1
  <2>3. Places(w, q, p, a, m, n, b)
    BY <1>1, <1>3 DEF Places, NoneOn
  <2>. QED BY <2>2, <2>3, LineHasPlaces
<1>. QED BY <1>2, <1>3

\* Jobs that are not reactions of a promise.
LEMMA OtherJobs ==
  ASSUME NEW rs \in Seq(Reactions), NEW p \in Promises, NEW b \in BOOLEAN
  PROVE  /\ \A x : x # p => NoneOn(ReactionJobs(p, rs, b), x)
         /\ \A s : Known(ReactionJobs(p, rs, b), s)
<1>1. PICK n \in Nat : n = Len(rs) /\ DOMAIN rs = 1 .. n
  BY LenProperties
<1>2. PICK new \in Seq(Jobs) : new = ReactionJobs(p, rs, b)
  BY ReactionJobsOK
<1>3. new = [i \in 1 .. n |-> Job(p, rs[i], b)]
  BY <1>1, <1>2 DEF ReactionJobs, Job
<1>4. 1 .. Len(new) = 1 .. n
  BY <1>3, LenProperties
<1>5. \A i \in 1 .. Len(new) : new[i].type = "reaction" /\ new[i].on = p
  BY <1>3, <1>4 DEF Job
<1>. QED BY <1>2, <1>5 DEF NoneOn, On, Known, Follow

\* What ReactionsRunInOrder says of a promise with settlement s, reactions attached
\* a, started d and waiting rs.
Ordered(q, p, s, a, d, rs) ==
  /\ IF s = "pending" THEN rs = a ELSE rs = <<>>
  /\ Len(d) <= Len(a) - Len(rs) /\ \A k \in 1 .. Len(d) : d[k] = a[k]
  /\ InLine(q, p, a, Len(d) + 1, Len(a) - Len(rs), s = "rejected")

LEMMA PendingMeans ==
  ASSUME NEW a \in Seq(Reactions), NEW d \in Seq(Reactions), NEW rs, NEW q \in Seq(Jobs), NEW p
  PROVE  Ordered(q, p, "pending", a, d, rs) <=> rs = a /\ Len(d) = 0 /\ NoneOn(q, p)
<1>1. PICK m \in Nat, n \in Nat : m = Len(d) /\ n = Len(a)
  BY LenProperties
<1>2. CASE rs = a
  <2>1. n - n = 0 /\ (m <= 0 <=> m = 0) /\ ("pending" = "rejected") = FALSE
    BY <1>1
  <2>2. Ordered(q, p, "pending", a, d, rs)
          <=> /\ m <= 0 /\ \A k \in 1 .. m : d[k] = a[k]
              /\ InLine(q, p, a, m + 1, 0, FALSE)
    BY <1>1, <1>2, <2>1 DEF Ordered
  <2>3. m = 0 => m + 1 = 1 /\ 1 .. m = {}
    OBVIOUS
  <2>4. InLine(q, p, a, m + 1, 0, FALSE) <=> NoneOn(q, p)
    <3>1. m + 1 \in Nat /\ 0 < m + 1
      OBVIOUS
    <3>. QED BY <3>1, NobodyInLine
  <2>. QED BY <1>1, <1>2, <2>1, <2>2, <2>3, <2>4
<1>3. CASE rs # a
  BY <1>3 DEF Ordered
<1>. QED BY <1>2, <1>3

\* The first m of n reactions have been started, the others are in line.
Turn(q, p, a, d, m, n, b) ==
  /\ m <= n /\ \A k \in 1 .. m : d[k] = a[k]
  /\ InLine(q, p, a, m + 1, n, b)

LEMMA SettledMeans ==
  ASSUME NEW a \in Seq(Reactions), NEW d, NEW rs, NEW q, NEW p, NEW s, s # "pending"
  PROVE  Ordered(q, p, s, a, d, rs)
           <=> rs = <<>> /\ Turn(q, p, a, d, Len(d), Len(a), s = "rejected")
<1>1. CASE rs = <<>>
  <2>1. Len(a) - Len(rs) = Len(a)
    BY <1>1, EmptySeq, LenProperties
  <2>. QED BY <1>1, <2>1, Zenon DEF Ordered, Turn
<1>2. CASE rs # <<>>
  BY <1>2 DEF Ordered
<1>. QED BY <1>1, <1>2

\* Jobs that are added behind, none of them a reaction of this promise.
LEMMA OrderedKept ==
  ASSUME NEW a, NEW d, NEW rs, NEW p, NEW s,
         NEW q \in Seq(Jobs), NEW r \in Seq(Jobs), NoneOn(r, p), Ordered(q, p, s, a, d, rs)
  PROVE  Ordered(q \o r, p, s, a, d, rs)
BY ConcatLines DEF Ordered

\* The promise is settled, and all its reactions become jobs.
LEMMA OrderedSettled ==
  ASSUME NEW a \in Seq(Reactions), NEW d \in Seq(Reactions), NEW rs \in Seq(Reactions),
         NEW p \in Promises, NEW q \in Seq(Jobs), Ordered(q, p, "pending", a, d, rs),
         NEW b \in BOOLEAN, NEW s, s = IF b THEN "rejected" ELSE "fulfilled"
  PROVE  Ordered(q \o ReactionJobs(p, rs, b), p, s, a, d, <<>>)
<1>1. rs = a /\ Len(d) = 0 /\ NoneOn(q, p)
  BY PendingMeans
<1>2. PICK m \in Nat, n \in Nat, one \in Nat : m = Len(d) /\ n = Len(a) /\ one = m + 1
  BY LenProperties
<1>3. m = 0 /\ m < one /\ one <= m + 1 /\ one .. m = {} /\ m + n = n /\ m <= n /\ 1 .. m = {}
  BY <1>1, <1>2
<1>4. InLine(q, p, a, one, m, b)
  BY <1>1, <1>3, NobodyInLine
<1>5. Extends(a, a, a, one, m)
  BY <1>2, <1>3 DEF Extends
<1>6. InLine(q \o ReactionJobs(p, a, b), p, a, one, m + Len(a), b)
  BY <1>3, <1>4, <1>5, LineGrows
<1>7. InLine(q \o ReactionJobs(p, a, b), p, a, m + 1, n, b)
  BY <1>2, <1>3, <1>6
<1>8. s # "pending" /\ b = (s = "rejected")
  OBVIOUS
<1>9. Turn(q \o ReactionJobs(p, a, b), p, a, d, m, n, b)
  BY <1>3, <1>7 DEF Turn
<1>10. Turn(q \o ReactionJobs(p, a, b), p, a, d, Len(d), Len(a), s = "rejected")
  BY <1>2, <1>8, <1>9, Zenon
<1>11. Ordered(q \o ReactionJobs(p, a, b), p, s, a, d, <<>>)
  BY <1>8, <1>10, SettledMeans, Zenon
<1>. QED BY <1>1, <1>11

\* A reaction is attached to a promise that is pending, or is a job at once.
LEMMA OrderedWaiting ==
  ASSUME NEW a \in Seq(Reactions), NEW d \in Seq(Reactions), NEW rs \in Seq(Reactions),
         NEW p \in Promises, NEW q \in Seq(Jobs), Ordered(q, p, "pending", a, d, rs),
         NEW r \in Reactions
  PROVE  Ordered(q, p, "pending", Append(a, r), d, Append(rs, r))
<1>1. rs = a /\ Len(d) = 0 /\ NoneOn(q, p)
  BY PendingMeans
<1>2. Append(a, r) \in Seq(Reactions)
  BY AppendProperties
<1>. QED BY <1>1, <1>2, PendingMeans

LEMMA OrderedAttached ==
  ASSUME NEW a \in Seq(Reactions), NEW d \in Seq(Reactions), NEW rs \in Seq(Reactions),
         NEW p \in Promises, NEW q \in Seq(Jobs), NEW s, s # "pending",
         Ordered(q, p, s, a, d, rs),
         NEW r \in Reactions, NEW one \in Seq(Reactions), Len(one) = 1, one[1] = r,
         NEW b \in BOOLEAN, b = (s = "rejected")
  PROVE  Ordered(q \o ReactionJobs(p, one, b), p, s, Append(a, r), d, rs)
<1>1. PICK n \in Nat, m \in Nat : n = Len(a) /\ m = Len(d)
  BY LenProperties
<1>2. PICK c \in Seq(Reactions) : c = Append(a, r)
  BY AppendProperties
<1>3. Len(c) = n + 1 /\ c[n + 1] = r /\ \A k \in 1 .. n : c[k] = a[k]
  <2>1. Len(c) = n + 1 /\ \A k \in 1 .. n + 1 : c[k] = IF k <= n THEN a[k] ELSE r
    BY <1>1, <1>2, AppendProperties
  <2>. QED BY <2>1
<1>0. rs = <<>> /\ Turn(q, p, a, d, m, n, b)
  <2>1. rs = <<>> /\ Turn(q, p, a, d, Len(d), Len(a), s = "rejected")
    BY SettledMeans, Zenon
  <2>. QED BY <1>1, <2>1, Zenon
<1>5. PICK l \in Nat : l = m + 1
  OBVIOUS
<1>4. m <= n /\ (\A k \in 1 .. m : d[k] = a[k]) /\ InLine(q, p, a, l, n, b)
  BY <1>0, <1>5 DEF Turn
<1>6. l <= n + 1 /\ \A k \in l .. n : c[k] = a[k]
  <2>1. \A k \in l .. n : k \in 1 .. n
    BY <1>5
  <2>. QED BY <1>3, <1>4, <1>5, <2>1
<1>7. \A k \in 1 .. Len(one) : c[n + k] = one[k]
  BY <1>3
<1>8. InLine(q \o ReactionJobs(p, one, b), p, c, l, n + Len(one), b)
  <2>1. Extends(c, a, one, l, n)
    BY <1>6, <1>7 DEF Extends
  <2>. QED BY <1>4, <1>6, <2>1, LineGrows
<1>9. PICK z \in Nat : z = Len(c) /\ z = n + 1 /\ z = n + Len(one)
  BY <1>3
<1>10. m <= z /\ \A k \in 1 .. m : d[k] = c[k]
  <2>1. \A k \in 1 .. m : k \in 1 .. n
    BY <1>4
  <2>2. \A k \in 1 .. m : d[k] = c[k]
    BY <1>3, <1>4, <2>1
  <2>. QED BY <1>4, <1>9, <2>2
<1>11. Turn(q \o ReactionJobs(p, one, b), p, c, d, m, z, b)
  BY <1>5, <1>8, <1>9, <1>10 DEF Turn
<1>12. Ordered(q \o ReactionJobs(p, one, b), p, s, c, d, rs)
  <2>1. Turn(q \o ReactionJobs(p, one, b), p, c, d, Len(d), Len(c), s = "rejected")
    BY <1>1, <1>9, <1>11, Zenon
  <2>. QED BY <1>0, <2>1, SettledMeans, Zenon
<1>. QED BY <1>2, <1>12

\* A job is taken from the queue: the reaction whose turn it is.
LEMMA OrderedStarted ==
  ASSUME NEW a \in Seq(Reactions), NEW d \in Seq(Reactions), NEW rs \in Seq(Reactions),
         NEW p \in Promises, NEW q \in Seq(Jobs), q # <<>>, NEW s, Ordered(q, p, s, a, d, rs)
  PROVE  IF On(Head(q), p)
         THEN /\ s # "pending" /\ Len(d) + 1 \in 1 .. Len(a)
              /\ Head(q) = Job(p, a[Len(d) + 1], s = "rejected")
              /\ Ordered(Tail(q), p, s, a, Append(d, a[Len(d) + 1]), rs)
         ELSE Ordered(Tail(q), p, s, a, d, rs)
<1>1. PICK n \in Nat, m \in Nat : n = Len(a) /\ m = Len(d)
  BY LenProperties
<1>2. Tail(q) \in Seq(Jobs)
  BY HeadTailProperties
<1>3. CASE s = "pending"
  <2>1. rs = a /\ Len(d) = 0 /\ NoneOn(q, p)
    BY <1>3, PendingMeans
  <2>2. ~On(Head(q), p) /\ NoneOn(Tail(q), p)
    <3>1. PICK z \in Nat \ {0} : z = Len(q)
      BY EmptySeq
    <3>2. Len(Tail(q)) = z - 1 /\ \A i \in 1 .. z - 1 : Tail(q)[i] = q[i + 1] /\ i + 1 \in 1 .. z
      BY <3>1, HeadTailProperties
    <3>3. 1 \in 1 .. z /\ Head(q) = q[1]
      BY HeadTailProperties
    <3>. QED BY <2>1, <3>1, <3>2, <3>3 DEF NoneOn
  <2>. QED BY <1>2, <1>3, <2>1, <2>2, PendingMeans
<1>4. CASE s # "pending"
  <2>0. PICK b \in BOOLEAN : b = (s = "rejected")
    OBVIOUS
  <2>5. rs = <<>> /\ Turn(q, p, a, d, m, n, b)
    <3>1. rs = <<>> /\ Turn(q, p, a, d, Len(d), Len(a), s = "rejected")
      BY <1>4, SettledMeans, Zenon
    <3>. QED BY <1>1, <2>0, <3>1, Zenon
  <2>2. PICK l \in Nat : l = m + 1
    OBVIOUS
  <2>1. m <= n /\ (\A k \in 1 .. m : d[k] = a[k]) /\ InLine(q, p, a, l, n, b)
    BY <2>2, <2>5 DEF Turn
  <2>3. CASE On(Head(q), p)
    <3>1. l <= n /\ Head(q) = Job(p, a[l], b) /\ InLine(Tail(q), p, a, l + 1, n, b)
      BY <2>1, <2>2, <2>3, TailLines
    <3>2. l \in 1 .. n
      BY <2>2, <3>1
    <3>3. PICK r \in Reactions : r = a[l]
      BY <1>1, <3>2, ElementOfSeq
    <3>4. PICK e \in Seq(Reactions) : e = Append(d, r)
      BY AppendProperties
    <3>5. Len(e) = l /\ \A k \in 1 .. l : e[k] = IF k <= m THEN d[k] ELSE r
      BY <1>1, <2>2, <3>4, AppendProperties
    <3>6. \A k \in 1 .. l : e[k] = a[k]
      <4>1. \A k \in 1 .. l : k <= m => k \in 1 .. m /\ e[k] = d[k]
        BY <2>2, <3>5
      <4>2. \A k \in 1 .. l : ~(k <= m) => k = l /\ e[k] = r
        BY <2>2, <3>5
      <4>. QED BY <2>1, <3>3, <4>1, <4>2
    <3>9. Turn(Tail(q), p, a, e, l, n, b)
      BY <3>1, <3>6 DEF Turn
    <3>7. Ordered(Tail(q), p, s, a, e, rs)
      <4>1. Turn(Tail(q), p, a, e, Len(e), Len(a), s = "rejected")
        BY <1>1, <2>0, <3>5, <3>9, Zenon
      <4>. QED BY <1>4, <2>5, <4>1, SettledMeans, Zenon
    <3>8. Len(d) + 1 = l
      BY <1>1, <2>2
    <3>. QED BY <1>1, <1>4, <2>0, <2>3, <3>1, <3>2, <3>3, <3>4, <3>7, <3>8
  <2>4. CASE ~On(Head(q), p)
    <3>1. InLine(Tail(q), p, a, l, n, b)
      BY <2>1, <2>2, <2>4, TailLines
    <3>3. Turn(Tail(q), p, a, d, m, n, b)
      BY <2>1, <2>2, <3>1 DEF Turn
    <3>2. Ordered(Tail(q), p, s, a, d, rs)
      <4>1. Turn(Tail(q), p, a, d, Len(d), Len(a), s = "rejected")
        BY <1>1, <2>0, <3>3, Zenon
      <4>. QED BY <1>4, <2>5, <4>1, SettledMeans, Zenon
    <3>. QED BY <2>4, <3>2
  <2>. QED BY <2>3, <2>4
<1>. QED BY <1>3, <1>4

----------------------------------------------------------------------------
(* Reactions run in order: every step. *)

\* What is resolved with a promise waits for one that exists (Known), and nobody
\* reacts to a promise that does not exist.
Untouched        == \A p \in Promises : state[p] = "unborn" => attached[p] = <<>>
AllOrdered(q, d) == \A p \in Promises : Ordered(q, p, state[p], attached[p], d[p], reactions[p])
OrderInv         == Known(jobs, state) /\ Untouched /\ AllOrdered(jobs, started)

LEMMA InOrder == AllOrdered(jobs, started) => ReactionsRunInOrder
BY Zenon DEF AllOrdered, Ordered, ReactionsRunInOrder

LEMMA HistoryTypes ==
  ASSUME IndInv
  PROVE  /\ jobs \in Seq(Jobs)
         /\ \A p \in Promises : /\ attached[p] \in Seq(Reactions) /\ started[p] \in Seq(Reactions)
                                /\ reactions[p] \in Seq(Reactions)
BY DEF IndInv, TypeOK

LEMMA KnownStays ==
  ASSUME NEW q, NEW s, NEW t, Known(q, s),
         \A x \in Promises : s[x] # "unborn" => t[x] # "unborn"
  PROVE  Known(q, t)
BY DEF Known, Follow

\* A pair that is not spent belongs to a pending promise.
LEMMA UnspentIsPending ==
  ASSUME IndInv, NEW f \in Pairs, Made(f, pairs), f \notin resolved
  PROVE  f[1] \in Promises /\ state[f[1]] = "pending"
<1>1. PICK p \in Promises, n \in Nat \ {0} : p = f[1] /\ n = f[2] /\ f = <<p, n>>
  BY DEF Pairs
<1>2. pairs[p] \in Nat /\ n = pairs[p]
  <2>1. pairs[p] \in Nat /\ n <= pairs[p]
    BY <1>1, PairsTypes DEF IndInv, Made
  <2>2. ~(n < pairs[p])
    BY <1>1 DEF IndInv, OnlyTheLast
  <2>. QED BY <2>1, <2>2
<1>3. Last(p) = f /\ pairs[p] > 0
  BY <1>1, <1>2 DEF Last
<1>. QED BY <1>1, <1>3 DEF IndInv, Authority

\* What a call of a resolving function does: nothing, when its pair is spent; else
\* it settles a pending promise, or queues a job that lets it follow another.
LEMMA ResolveMeans ==
  ASSUME IndInv, NEW f \in Pairs, Made(f, pairs), NEW reject \in BOOLEAN,
         NEW with \in Resolutions, NEW todo, Resolve(f, reject, with, todo)
  PROVE  \/ f \in resolved /\ jobs' = todo /\ UNCHANGED <<state, reactions, reported, resolved>>
         \/ /\ f \notin resolved /\ resolved' = resolved \cup {f}
            /\ f[1] \in Promises /\ state[f[1]] = "pending"
            /\ \/ \E b \in BOOLEAN : (reject => b) /\ Settle(f[1], b, todo)
               \/ /\ ~reject /\ with # "plain" /\ with \in Promises \cup {"foreign"}
                  /\ jobs' = todo \o <<[type |-> "thenable", promise |-> f[1], of |-> with]>>
                  /\ UNCHANGED <<state, reactions, reported>>
<1>1. CASE f \in resolved
  BY <1>1 DEF Resolve, Spent
<1>2. CASE f \notin resolved
  <2>1. resolved' = resolved \cup {f} /\ f[1] \in Promises /\ state[f[1]] = "pending"
    BY <1>2, UnspentIsPending DEF Resolve, Spent
  <2>2. CASE reject \/ with = "plain"
    BY <1>2, <2>1, <2>2 DEF Resolve, Spent
  <2>3. CASE ~(reject \/ with = "plain") /\ with \in {f[1], "hostile"}
    BY <1>2, <2>1, <2>3 DEF Resolve, Spent
  <2>4. CASE ~(reject \/ with = "plain") /\ with \notin {f[1], "hostile"}
    BY <1>2, <2>1, <2>4 DEF Resolve, Spent, Resolutions, Enqueued
  <2>. QED BY <2>2, <2>3, <2>4
<1>. QED BY <1>1, <1>2

\* A promise is settled.
LEMMA SettleMeans ==
  ASSUME IndInv, NEW p \in Promises, state[p] = "pending", NEW b \in BOOLEAN,
         NEW todo, Settle(p, b, todo)
  PROVE  /\ state' = [state EXCEPT ![p] = IF b THEN "rejected" ELSE "fulfilled"]
         /\ state'[p] = IF b THEN "rejected" ELSE "fulfilled"
         /\ \A x \in Promises : x # p => state'[x] = state[x]
         /\ jobs' = todo \o ReactionJobs(p, reactions[p], b)
         /\ reactions'[p] = <<>>
         /\ \A x \in Promises : x # p => reactions'[x] = reactions[x]
         /\ reported' = IF b /\ p \notin handled THEN reported \cup {p} ELSE reported
BY DEF Settle, Enqueued, Unheard, IndInv, TypeOK

LEMMA ResolveOrdered ==
  ASSUME IndInv, NEW f \in Pairs, Made(f, pairs), NEW reject \in BOOLEAN,
         NEW with \in Resolutions,
         with # "plain" /\ with \in Promises => state[with] # "unborn",
         NEW todo \in Seq(Jobs), Resolve(f, reject, with, todo), attached' = attached,
         NEW d \in [Promises -> Seq(Reactions)], started' = d,
         Known(todo, state), Untouched, AllOrdered(todo, d)
  PROVE  OrderInv'
<1>0. \A x \in Promises : /\ attached[x] \in Seq(Reactions) /\ d[x] \in Seq(Reactions)
                          /\ reactions[x] \in Seq(Reactions)
  BY HistoryTypes
<1>. SUFFICES /\ Known(jobs', state')
              /\ \A x \in Promises : state'[x] = "unborn" => state[x] = "unborn"
              /\ \A x \in Promises : Ordered(jobs', x, state'[x], attached[x], d[x], reactions'[x])
  BY DEF OrderInv, Untouched, AllOrdered
<1>1. CASE jobs' = todo /\ UNCHANGED <<state, reactions>>
  BY <1>1 DEF AllOrdered
<1>2. CASE \E b \in BOOLEAN : f[1] \in Promises /\ state[f[1]] = "pending" /\ Settle(f[1], b, todo)
  <2>1. PICK p : p = f[1]
    OBVIOUS
  <2>2. PICK b \in BOOLEAN : p \in Promises /\ state[p] = "pending" /\ Settle(p, b, todo)
    BY <1>2, <2>1
  <2>3. PICK s : s = IF b THEN "rejected" ELSE "fulfilled"
    OBVIOUS
  <2>4. /\ state'[p] = s /\ reactions'[p] = <<>>
        /\ \A x \in Promises : x # p => state'[x] = state[x] /\ reactions'[x] = reactions[x]
        /\ jobs' = todo \o ReactionJobs(p, reactions[p], b)
    BY <2>2, <2>3, SettleMeans
  <2>5. PICK new \in Seq(Jobs) : new = ReactionJobs(p, reactions[p], b)
    BY <1>0, <2>2, ReactionJobsOK
  <2>6. Known(new, state) /\ \A x : x # p => NoneOn(new, x)
    BY <1>0, <2>2, <2>5, OtherJobs
  <2>7. \A x \in Promises : state'[x] = "unborn" => state[x] = "unborn"
    BY <2>3, <2>4
  <2>8. Known(jobs', state')
    <3>1. Known(jobs', state)
      BY <2>4, <2>5, <2>6, ConcatLines
    <3>. QED BY <2>7, <3>1, KnownStays
  <2>9. Ordered(jobs', p, s, attached[p], d[p], <<>>)
    <3>1. Ordered(todo, p, "pending", attached[p], d[p], reactions[p])
      BY <2>2 DEF AllOrdered
    <3>2. attached[p] \in Seq(Reactions) /\ d[p] \in Seq(Reactions) /\ reactions[p] \in Seq(Reactions)
      BY <1>0, <2>2
    <3>3. Ordered(todo \o ReactionJobs(p, reactions[p], b), p, s, attached[p], d[p], <<>>)
      BY <2>2, <2>3, <3>1, <3>2, OrderedSettled
    <3>. QED BY <2>4, <3>3
  <2>10. ASSUME NEW x \in Promises, x # p
         PROVE  Ordered(jobs', x, state'[x], attached[x], d[x], reactions'[x])
    <3>1. Ordered(todo \o new, x, state[x], attached[x], d[x], reactions[x])
      BY <2>6, <2>10, OrderedKept DEF AllOrdered
    <3>. QED BY <2>4, <2>5, <2>10, <3>1
  <2>. QED BY <2>4, <2>7, <2>8, <2>9, <2>10
<1>3. CASE /\ with # "plain" /\ with \in Promises \cup {"foreign"} /\ f[1] \in Promises
           /\ jobs' = todo \o <<[type |-> "thenable", promise |-> f[1], of |-> with]>>
           /\ UNCHANGED <<state, reactions>>
  <2>1. PICK job \in Jobs : job = [type |-> "thenable", promise |-> f[1], of |-> with]
    BY <1>3 DEF Jobs
  <2>2. PICK new \in Seq(Jobs) : new = <<job>> /\ Len(new) = 1 /\ new[1] = job
    BY SingletonQueue
  <2>3. Follow(job, state) /\ \A x : ~On(job, x)
    BY <1>3, <2>1 DEF Follow, On
  <2>4. Known(new, state) /\ \A x : NoneOn(new, x)
    BY <2>2, <2>3 DEF Known, NoneOn
  <2>5. jobs' = todo \o new /\ state' = state /\ reactions' = reactions
    BY <1>3, <2>1, <2>2
  <2>6. Known(jobs', state')
    BY <2>4, <2>5, ConcatLines
  <2>7. \A x \in Promises : Ordered(todo \o new, x, state[x], attached[x], d[x], reactions[x])
    BY <2>4, OrderedKept DEF AllOrdered
  <2>. QED BY <2>5, <2>6, <2>7
<1>. QED BY <1>1, <1>2, <1>3, ResolveMeans

LEMMA AttachOrdered ==
  ASSUME IndInv, NEW p \in Promises, state[p] # "unborn", NEW r \in Reactions,
         NEW todo \in Seq(Jobs), Attach(p, r, todo), Known(todo, state), AllOrdered(todo, started)
  PROVE  /\ Known(jobs', state)
         /\ attached'[p] = Append(attached[p], r)
         /\ \A x \in Promises : x # p => attached'[x] = attached[x]
         /\ \A x \in Promises :
              Ordered(jobs', x, state[x], attached'[x], started[x], reactions'[x])
<1>0. \A x \in Promises : /\ attached[x] \in Seq(Reactions) /\ started[x] \in Seq(Reactions)
                          /\ reactions[x] \in Seq(Reactions)
  BY HistoryTypes
<1>1. /\ attached'[p] = Append(attached[p], r)
      /\ \A x \in Promises : x # p => attached'[x] = attached[x]
  BY DEF Attach, IndInv, TypeOK
<1>2. CASE state[p] = "pending"
  <2>1. /\ reactions'[p] = Append(reactions[p], r) /\ jobs' = todo
        /\ \A x \in Promises : x # p => reactions'[x] = reactions[x]
    BY <1>2 DEF Attach, IndInv, TypeOK
  <2>2. Ordered(todo, p, "pending", attached[p], started[p], reactions[p])
    BY <1>2 DEF AllOrdered
  <2>3. Ordered(todo, p, "pending", Append(attached[p], r), started[p], Append(reactions[p], r))
    BY <1>0, <2>2, OrderedWaiting
  <2>. QED BY <1>1, <1>2, <2>1, <2>3 DEF AllOrdered
<1>3. CASE state[p] # "pending"
  <2>1. PICK b \in BOOLEAN : b = (state[p] = "rejected")
    OBVIOUS
  <2>2. PICK one \in Seq(Reactions) : one = <<r>> /\ Len(one) = 1 /\ one[1] = r
    BY SingleReaction
  <2>3. PICK new \in Seq(Jobs) : new = ReactionJobs(p, one, b)
    BY ReactionJobsOK
  <2>4. jobs' = todo \o new /\ reactions' = reactions
    BY <1>3, <2>1, <2>2, <2>3 DEF Attach, Enqueued
  <2>5. Known(new, state) /\ \A x : x # p => NoneOn(new, x)
    BY <2>3, OtherJobs
  <2>6. Known(jobs', state)
    BY <2>4, <2>5, ConcatLines
  <2>7. Ordered(todo \o ReactionJobs(p, one, b), p, state[p], Append(attached[p], r), started[p],
                reactions[p])
    <3>1. Ordered(todo, p, state[p], attached[p], started[p], reactions[p])
      BY DEF AllOrdered
    <3>2. attached[p] \in Seq(Reactions) /\ started[p] \in Seq(Reactions)
          /\ reactions[p] \in Seq(Reactions)
      BY <1>0
    <3>. QED BY <1>3, <2>1, <2>2, <3>1, <3>2, OrderedAttached
  <2>8. ASSUME NEW x \in Promises, x # p
        PROVE  Ordered(todo \o new, x, state[x], attached[x], started[x], reactions[x])
    BY <2>5, <2>8, OrderedKept DEF AllOrdered
  <2>. QED BY <1>1, <2>3, <2>4, <2>6, <2>7, <2>8
<1>. QED BY <1>2, <1>3

\* A job is taken from the queue.
LEMMA TailOrdered ==
  ASSUME IndInv, OrderInv, jobs # <<>>
  PROVE  /\ Known(Tail(jobs), state) /\ Follow(Head(jobs), state)
         /\ Head(jobs).type = "thenable" => AllOrdered(Tail(jobs), started)
         /\ \A p \in Promises : On(Head(jobs), p) =>
              /\ state[p] # "pending" /\ Len(started[p]) + 1 \in 1 .. Len(attached[p])
              /\ Head(jobs) = Job(p, attached[p][Len(started[p]) + 1], state[p] = "rejected")
              /\ AllOrdered(Tail(jobs), [started EXCEPT ![p] = Append(@, Head(jobs).reaction)])
<1>0. \A x \in Promises : /\ attached[x] \in Seq(Reactions) /\ started[x] \in Seq(Reactions)
                          /\ reactions[x] \in Seq(Reactions)
  BY HistoryTypes
<1>1. jobs \in Seq(Jobs) /\ Known(jobs, state)
  BY HistoryTypes DEF OrderInv
<1>2. Known(Tail(jobs), state) /\ Follow(Head(jobs), state)
  BY <1>1, TailLines
<1>3. \A x \in Promises : Ordered(jobs, x, state[x], attached[x], started[x], reactions[x])
  BY DEF OrderInv, AllOrdered
<1>4. \A x \in Promises :
        ~On(Head(jobs), x) =>
          Ordered(Tail(jobs), x, state[x], attached[x], started[x], reactions[x])
  BY <1>0, <1>1, <1>3, OrderedStarted
<1>5. Head(jobs).type = "thenable" => AllOrdered(Tail(jobs), started)
  BY <1>4 DEF AllOrdered, On
<1>6. ASSUME NEW p \in Promises, On(Head(jobs), p)
      PROVE  /\ state[p] # "pending" /\ Len(started[p]) + 1 \in 1 .. Len(attached[p])
             /\ Head(jobs) = Job(p, attached[p][Len(started[p]) + 1], state[p] = "rejected")
             /\ AllOrdered(Tail(jobs), [started EXCEPT ![p] = Append(@, Head(jobs).reaction)])
  <2>1. /\ state[p] # "pending" /\ Len(started[p]) + 1 \in 1 .. Len(attached[p])
        /\ Head(jobs) = Job(p, attached[p][Len(started[p]) + 1], state[p] = "rejected")
        /\ Ordered(Tail(jobs), p, state[p], attached[p],
                   Append(started[p], attached[p][Len(started[p]) + 1]), reactions[p])
    BY <1>0, <1>1, <1>3, <1>6, OrderedStarted
  <2>2. Head(jobs).reaction = attached[p][Len(started[p]) + 1]
    BY <2>1 DEF Job
  <2>3. PICK d : d = [started EXCEPT ![p] = Append(@, Head(jobs).reaction)]
    OBVIOUS
  <2>4. /\ d[p] = Append(started[p], attached[p][Len(started[p]) + 1])
        /\ \A x \in Promises : x # p => d[x] = started[x]
    BY <2>2, <2>3 DEF IndInv, TypeOK
  <2>5. ASSUME NEW x \in Promises, x # p
        PROVE  Ordered(Tail(jobs), x, state[x], attached[x], d[x], reactions[x])
    <3>1. ~On(Head(jobs), x)
      BY <1>6, <2>5 DEF On
    <3>. QED BY <1>4, <2>4, <2>5, <3>1
  <2>6. AllOrdered(Tail(jobs), d)
    BY <2>1, <2>4, <2>5 DEF AllOrdered
  <2>. QED BY <2>1, <2>3, <2>6
<1>. QED BY <1>2, <1>5, <1>6

\* A promise that is made has no history.
LEMMA OrderedBorn ==
  ASSUME NEW d \in Seq(Reactions), NEW rs \in Seq(Reactions), NEW q \in Seq(Jobs), NEW p,
         Ordered(q, p, "unborn", <<>>, d, rs)
  PROVE  Ordered(q, p, "pending", <<>>, d, rs)
<1>1. <<>> \in Seq(Reactions) /\ Len(<<>>) = 0 /\ Len(d) \in Nat
  BY EmptySeq, LenProperties
<1>2. PICK e \in Seq(Reactions) : e = <<>>
  BY <1>1
<1>3. PICK m \in Nat, n \in Nat : m = Len(d) /\ n = Len(e) /\ n = 0
  BY <1>1, <1>2
<1>8. "unborn" # "pending"
  OBVIOUS
<1>4. rs = e /\ Turn(q, p, e, d, m, n, "unborn" = "rejected")
  <2>1. Ordered(q, p, "unborn", e, d, rs)
    BY <1>2
  <2>2. rs = <<>> /\ Turn(q, p, e, d, Len(d), Len(e), "unborn" = "rejected")
    BY <1>8, <2>1, SettledMeans, Zenon
  <2>. QED BY <1>2, <1>3, <2>2, Zenon
<1>5. m = 0 /\ InLine(q, p, e, m + 1, n, "unborn" = "rejected")
  BY <1>3, <1>4 DEF Turn
<1>6. NoneOn(q, p)
  <2>1. PICK l \in Nat : l = m + 1
    OBVIOUS
  <2>2. n < l
    BY <1>3, <1>5, <2>1
  <2>. QED BY <1>5, <2>1, <2>2, NobodyInLine
<1>7. Ordered(q, p, "pending", e, d, rs)
  BY <1>3, <1>4, <1>5, <1>6, PendingMeans
<1>. QED BY <1>2, <1>7

LEMMA SameOrder ==
  ASSUME OrderInv, UNCHANGED <<state, reactions, jobs, attached, started>>
  PROVE  OrderInv'
BY DEF OrderInv, Untouched, AllOrdered

\* A promise is made, and a reaction perhaps attached to another one.
LEMMA MakeOrdered ==
  ASSUME IndInv, OrderInv, NEW q \in Promises, Make(q), started' = started, jobs' \in Seq(Jobs),
         attached'[q] = attached[q], reactions'[q] \in Seq(Reactions),
         Known(jobs', state),
         \A x \in Promises : x # q /\ state[x] = "unborn" => attached'[x] = attached[x],
         \A x \in Promises : Ordered(jobs', x, state[x], attached'[x], started[x], reactions'[x])
  PROVE  OrderInv'
<1>1. /\ state[q] = "unborn" /\ state'[q] = "pending"
      /\ \A x \in Promises : x # q => state'[x] = state[x]
  BY DEF Make, IndInv, TypeOK
<1>2. Untouched'
  BY <1>1 DEF OrderInv, Untouched
<1>3. Known(jobs', state')
  <2>1. \A x \in Promises : state[x] # "unborn" => state'[x] # "unborn"
    BY <1>1
  <2>. QED BY <2>1, KnownStays
<1>4. Ordered(jobs', q, "pending", attached'[q], started[q], reactions'[q])
  <2>1. attached'[q] = <<>>
    BY <1>1 DEF OrderInv, Untouched
  <2>2. Ordered(jobs', q, "unborn", <<>>, started[q], reactions'[q])
    BY <1>1, <2>1
  <2>3. started[q] \in Seq(Reactions)
    BY HistoryTypes
  <2>. QED BY <2>1, <2>2, <2>3, OrderedBorn
<1>5. AllOrdered(jobs, started)'
  <2>. SUFFICES ASSUME NEW x \in Promises
                PROVE  Ordered(jobs', x, state'[x], attached'[x], started[x], reactions'[x])
    BY DEF AllOrdered
  <2>1. CASE x = q
    BY <1>1, <1>4, <2>1
  <2>2. CASE x # q
    BY <1>1, <2>2
  <2>. QED BY <2>1, <2>2
<1>. QED BY <1>2, <1>3, <1>5 DEF OrderInv

LEMMA NewPromiseOrdered ==
  ASSUME IndInv, OrderInv, NEW p \in Promises, NewPromise(p)
  PROVE  OrderInv'
<1>1. Make(p) /\ UNCHANGED <<reactions, jobs, attached, started>>
  BY DEF NewPromise
<1>2. /\ jobs' \in Seq(Jobs) /\ reactions'[p] \in Seq(Reactions) /\ Known(jobs', state)
      /\ \A x \in Promises : Ordered(jobs', x, state[x], attached'[x], started[x], reactions'[x])
  BY <1>1, HistoryTypes DEF OrderInv, AllOrdered
<1>. QED BY <1>1, <1>2, MakeOrdered

LEMMA ThenOrdered ==
  ASSUME IndInv, OrderInv, NEW p \in Promises, NEW q \in Promises, NEW kind \in Kinds,
         Then(p, q, kind)
  PROVE  OrderInv'
<1>1. PICK r : r = [kind |-> kind, to |-> <<q, 1>>]
  OBVIOUS
<1>2. /\ state[p] # "unborn" /\ p # q /\ Make(q) /\ Attach(p, r, jobs) /\ started' = started
  BY <1>1 DEF Then, Born
<1>3. r \in Reactions
  BY <1>1, PairsAssumption DEF Reactions, Pairs
<1>4. jobs \in Seq(Jobs) /\ Known(jobs, state) /\ AllOrdered(jobs, started)
  BY HistoryTypes DEF OrderInv
<1>5. /\ Known(jobs', state)
      /\ \A x \in Promises : x # p => attached'[x] = attached[x]
      /\ \A x \in Promises : Ordered(jobs', x, state[x], attached'[x], started[x], reactions'[x])
  BY <1>2, <1>3, <1>4, AttachOrdered
<1>6. IndInv'
  BY ThenOK
<1>7. jobs' \in Seq(Jobs) /\ reactions'[q] \in Seq(Reactions)
  BY <1>6 DEF IndInv, TypeOK
<1>8. \A x \in Promises : x # q /\ state[x] = "unborn" => attached'[x] = attached[x]
  BY <1>2, <1>5
<1>. QED BY <1>2, <1>5, <1>7, <1>8, MakeOrdered

LEMMA AwaitOrdered ==
  ASSUME IndInv, OrderInv, NEW p \in Promises, Await(p)
  PROVE  OrderInv'
<1>1. running.type = "handler" /\ running \in Frames
  BY DEF Await, IndInv, TypeOK
<1>2. PICK r \in Reactions : r = running.reaction
  BY <1>1, FrameTypes
<1>3. /\ state[p] # "unborn" /\ Attach(p, r, jobs) /\ UNCHANGED <<state, started>>
  BY <1>2 DEF Await, Born
<1>4. jobs \in Seq(Jobs) /\ Known(jobs, state) /\ AllOrdered(jobs, started)
  BY HistoryTypes DEF OrderInv
<1>5. /\ Known(jobs', state)
      /\ \A x \in Promises : x # p => attached'[x] = attached[x]
      /\ \A x \in Promises : Ordered(jobs', x, state[x], attached'[x], started[x], reactions'[x])
  BY <1>3, <1>4, AttachOrdered
<1>6. Untouched'
  BY <1>3, <1>5 DEF OrderInv, Untouched
<1>7. AllOrdered(jobs, started)'
  BY <1>3, <1>5 DEF AllOrdered
<1>. QED BY <1>3, <1>5, <1>6, <1>7 DEF OrderInv

\* Resolving functions are called by JavaScript, or at the end of a handler.
LEMMA CallOrdered ==
  ASSUME IndInv, OrderInv, NEW f \in Pairs, Made(f, pairs), NEW reject \in BOOLEAN,
         NEW with \in Resolutions,
         with # "plain" /\ with \in Promises => state[with] # "unborn",
         Resolve(f, reject, with, jobs), UNCHANGED <<attached, started>>
  PROVE  OrderInv'
<1>1. PICK d \in [Promises -> Seq(Reactions)] : d = started
  BY DEF IndInv, TypeOK
<1>2. started' = d /\ jobs \in Seq(Jobs)
  BY <1>1, HistoryTypes
<1>3. Known(jobs, state) /\ Untouched /\ AllOrdered(jobs, d)
  BY <1>1 DEF OrderInv
<1>. QED BY <1>2, <1>3, ResolveOrdered

LEMMA CallSettlerOrdered ==
  ASSUME IndInv, OrderInv, NEW f \in held, NEW reject \in BOOLEAN, NEW with \in Resolutions,
         CallSettler(f, reject, with)
  PROVE  OrderInv'
<1>1. f \in Pairs /\ Made(f, pairs)
  BY DEF IndInv, TypeOK, References
<1>2. /\ with \in Promises => state[with] # "unborn"
      /\ Resolve(f, reject, with, jobs) /\ UNCHANGED <<attached, started>>
  BY DEF CallSettler, Born
<1>. QED BY <1>1, <1>2, CallOrdered

LEMMA HandlerEndsOrdered ==
  ASSUME IndInv, OrderInv, NEW reject \in BOOLEAN, NEW with \in Resolutions,
         HandlerEnds(reject, with)
  PROVE  OrderInv'
<1>1. running.type = "handler" /\ running \in Frames
  BY DEF HandlerEnds, IndInv, TypeOK
<1>2. PICK f \in Pairs : f = running.reaction.to
  BY <1>1, FrameTypes, ReactionTypes
<1>3. Made(f, pairs)
  BY <1>1, <1>2 DEF IndInv, References
<1>4. /\ with \in Promises => state[with] # "unborn"
      /\ Resolve(f, reject, with, jobs) /\ UNCHANGED <<attached, started>>
  BY <1>2 DEF HandlerEnds, Born
<1>. QED BY <1>3, <1>4, CallOrdered

LEMMA ThenEndsOrdered ==
  ASSUME IndInv, OrderInv, NEW throws \in BOOLEAN, ThenEnds(throws)
  PROVE  OrderInv'
<1>1. CASE throws
  <2>1. running.type = "then" /\ running \in Frames
    BY DEF ThenEnds, IndInv, TypeOK
  <2>2. PICK f \in Pairs : f = running.to
    BY <2>1, FrameTypes
  <2>3. Made(f, pairs)
    BY <2>1, <2>2 DEF IndInv, References
  <2>4. Resolve(f, TRUE, "plain", jobs) /\ UNCHANGED <<attached, started>>
    BY <1>1, <2>2 DEF ThenEnds
  <2>5. "plain" \in Resolutions
    BY DEF Resolutions
  <2>. QED BY <2>3, <2>4, <2>5, CallOrdered
<1>2. CASE ~throws
  BY <1>2, SameOrder DEF ThenEnds
<1>. QED BY <1>1, <1>2

\* A job starts the reaction whose turn it is.
LEMMA RunReactionOrdered ==
  ASSUME IndInv, OrderInv, NEW with \in Resolutions, RunReaction(with)
  PROVE  OrderInv'
<1>1. PICK job \in Jobs : job = Head(jobs) /\ job.type = "reaction"
  BY TailQueue DEF RunReaction, IndInv, TypeOK
<1>2. PICK r \in Reactions, p \in Promises, b \in BOOLEAN :
        r = job.reaction /\ p = job.on /\ b = job.reject
  BY <1>1, JobTypes
<1>3. jobs # <<>> /\ QueueOK(Tail(jobs)) /\ On(Head(jobs), p)
  BY <1>1, <1>2, TailIsOK DEF RunReaction, On
<1>4. r.to \in Pairs /\ Made(r.to, pairs)
  BY <1>1, <1>2, <1>3, TailQueue, ReactionTypes DEF IndInv, TypeOK, References
<1>5. PICK d \in [Promises -> Seq(Reactions)] : d = [started EXCEPT ![p] = Append(started[p], r)]
  <2>1. started \in [Promises -> Seq(Reactions)] /\ started[p] \in Seq(Reactions)
    BY DEF IndInv, TypeOK
  <2>2. Append(started[p], r) \in Seq(Reactions)
    BY <2>1, AppendProperties
  <2>. QED BY <2>1, <2>2
<1>6. started' = d /\ attached' = attached
  BY <1>1, <1>2, <1>5 DEF RunReaction
<1>7. PICK rest \in Seq(Jobs) : rest = Tail(jobs)
  BY <1>3 DEF QueueOK
<1>8. Known(rest, state) /\ AllOrdered(rest, d) /\ Untouched
  BY <1>1, <1>2, <1>3, <1>5, <1>7, TailOrdered DEF OrderInv
<1>9. CASE Handles(r.kind, b)
  <2>1. jobs' = rest /\ UNCHANGED <<state, reactions>>
    BY <1>1, <1>2, <1>7, <1>9 DEF RunReaction
  <2>. QED BY <1>6, <1>8, <2>1 DEF OrderInv, Untouched, AllOrdered
<1>10. CASE ~Handles(r.kind, b)
  <2>1. Resolve(r.to, b, with, rest)
    BY <1>1, <1>2, <1>7, <1>10 DEF RunReaction
  <2>2. with \in Promises => state[with] # "unborn"
    BY DEF RunReaction, Born
  <2>. QED BY <1>4, <1>6, <1>8, <2>1, <2>2, ResolveOrdered
<1>. QED BY <1>9, <1>10

\* A promise that follows another one becomes one of its reactions.
LEMMA RunThenableOrdered ==
  ASSUME IndInv, OrderInv, RunThenable
  PROVE  OrderInv'
<1>1. PICK job \in Jobs : job = Head(jobs) /\ job.type = "thenable" /\ jobs # <<>>
  BY TailQueue DEF RunThenable, IndInv, TypeOK
<1>2. PICK rest \in Seq(Jobs) : rest = Tail(jobs)
  BY <1>1, HistoryTypes, TailQueue
<1>3. Known(rest, state) /\ Follow(job, state) /\ AllOrdered(rest, started)
  BY <1>1, <1>2, TailOrdered
<1>4. UNCHANGED <<state, started>>
  BY <1>1 DEF RunThenable
<1>5. CASE job.of = "foreign"
  <2>1. jobs' = rest /\ UNCHANGED <<reactions, attached>>
    BY <1>1, <1>2, <1>5 DEF RunThenable
  <2>. QED BY <1>3, <1>4, <2>1 DEF OrderInv, Untouched, AllOrdered
<1>6. CASE job.of # "foreign"
  <2>1. PICK q \in Promises, p \in Promises : q = job.of /\ p = job.promise
    BY <1>1, <1>6, JobTypes
  <2>2. PICK r : r = [kind |-> "follow", to |-> NewPair(p)]
    OBVIOUS
  <2>3. Attach(q, r, rest)
    BY <1>1, <1>2, <1>6, <2>1, <2>2 DEF RunThenable, Follower
  <2>4. NewPair(p) \in Pairs
    <3>1. pairs[p] < MaxPairs[p] /\ pairs[p] \in Nat
      <4>1. Thenable(Head(jobs), p) /\ jobs \in Seq(Jobs)
        BY <1>1, <2>1, HistoryTypes DEF Thenable
      <4>. QED BY <1>1, <4>1, TailQueue, PairsTypes DEF IndInv, Authority
    <3>2. pairs[p] + 1 \in 1 .. MaxPairs[p]
      BY <3>1, PairsAssumption
    <3>. QED BY <3>2 DEF NewPair, Pairs
  <2>5. r \in Reactions
    BY <2>2, <2>4 DEF Reactions, Kinds
  <2>6. state[q] # "unborn"
    BY <1>1, <1>3, <2>1 DEF Follow
  <2>7. /\ Known(jobs', state)
        /\ \A x \in Promises : x # q => attached'[x] = attached[x]
        /\ \A x \in Promises : Ordered(jobs', x, state[x], attached'[x], started[x], reactions'[x])
    BY <1>3, <2>3, <2>5, <2>6, AttachOrdered
  <2>8. Untouched'
    BY <1>4, <2>6, <2>7 DEF OrderInv, Untouched
  <2>9. AllOrdered(jobs, started)'
    BY <1>4, <2>7 DEF AllOrdered
  <2>. QED BY <1>4, <2>7, <2>8, <2>9 DEF OrderInv
<1>. QED BY <1>5, <1>6

LEMMA NextOrdered ==
  ASSUME IndInv, OrderInv, [Next]_vars
  PROVE  OrderInv'
<1>1. CASE StartScript \/ ScriptEnds
  BY <1>1, SameOrder DEF StartScript, ScriptEnds
<1>2. CASE \E with \in Resolutions : RunReaction(with)
  BY <1>2, RunReactionOrdered
<1>3. CASE RunThenable BY <1>3, RunThenableOrdered
<1>4. CASE \E p \in Promises : NewPromise(p) \/ Await(p)
  BY <1>4, NewPromiseOrdered, AwaitOrdered
<1>5. CASE \E p, q \in Promises, kind \in Kinds \ {"follow"} : Then(p, q, kind)
  BY <1>5, ThenOrdered
<1>6. CASE \E reject \in BOOLEAN, with \in Resolutions, f \in held : CallSettler(f, reject, with)
  BY <1>6, CallSettlerOrdered
<1>7. CASE \E reject \in BOOLEAN, with \in Resolutions : HandlerEnds(reject, with)
  BY <1>7, HandlerEndsOrdered
<1>8. CASE \E throws \in BOOLEAN : ThenEnds(throws)
  BY <1>8, ThenEndsOrdered
<1>9. CASE UNCHANGED vars
  BY <1>9, SameOrder DEF vars
<1>. QED BY <1>1, <1>2, <1>3, <1>4, <1>5, <1>6, <1>7, <1>8, <1>9 DEF Next

LEMMA InitOrdered == Init => OrderInv
<1>. SUFFICES ASSUME Init PROVE OrderInv
  OBVIOUS
<1>0. PICK e \in Seq(Reactions), q \in Seq(Jobs) :
        e = <<>> /\ q = <<>> /\ Len(e) = 0 /\ Len(q) = 0
  BY EmptySeq
<1>1. PICK m \in Nat, l \in Nat : m = 0 /\ l = 1 /\ m < l /\ Len(e) = m /\ Len(q) = m
                              /\ e = <<>> /\ q = <<>>
  BY <1>0
<1>2. NoneOn(q, e) /\ \A p : NoneOn(q, p)
  BY <1>1 DEF NoneOn
<1>3. Known(jobs, state)
  BY <1>1 DEF Init, Known
<1>4. Untouched
  BY DEF Init, Untouched
<1>5. ASSUME NEW p \in Promises PROVE Ordered(q, p, "unborn", e, e, e)
  <2>1. InLine(q, p, e, l, m, "unborn" = "rejected")
    BY <1>1, <1>2, NobodyInLine
  <2>2. Turn(q, p, e, e, m, m, "unborn" = "rejected")
    <3>1. m <= m /\ 1 .. m = {} /\ m + 1 = l
      BY <1>1
    <3>. QED BY <2>1, <3>1 DEF Turn
  <2>3. Turn(q, p, e, e, Len(e), Len(e), "unborn" = "rejected")
    BY <1>1, <2>2, Zenon
  <2>. QED BY <1>1, <2>3, SettledMeans, Zenon
<1>6. AllOrdered(jobs, started)
  BY <1>1, <1>5 DEF Init, AllOrdered
<1>. QED BY <1>3, <1>4, <1>6 DEF OrderInv

LEMMA OrderInvariance == Spec => []OrderInv
<1>1. IndInv /\ OrderInv /\ [Next]_vars => OrderInv'
  BY NextOrdered
<1>. QED BY InitOrdered, Invariance, <1>1, PTL DEF Spec

\* Reactions are run once each, in the order in which JavaScript attached them, and
\* only for a promise that is settled: none is lost or overtaken on its way from the
\* promise to the job queue (fulfill_or_reject_promise, promise_reaction_job).
THEOREM ReactionsAreFair == Spec => []ReactionsRunInOrder
<1>1. OrderInv => ReactionsRunInOrder
  BY InOrder DEF OrderInv
<1>. QED BY <1>1, OrderInvariance, PTL

----------------------------------------------------------------------------
(* Rejections travel. *)

\* A reaction of p, the k-th, waits to be started, and will settle a promise with f.
Waits(a, d, p, k, f) == k \in Len(d[p]) + 1 .. Len(a[p]) /\ a[p][k].to = f
Alone(a, d) ==
  \A p, q \in Promises, k, l \in Nat, f \in Pairs :
    Waits(a, d, p, k, f) /\ Waits(a, d, q, l, f) => p = q /\ k = l
Free(a, d, s) == \A p \in Promises, k \in Nat, f \in Pairs : Waits(a, d, p, k, f) => f \notin s

\* What the handler that runs will settle a promise with.
Own(frame) == IF frame.type = "handler" THEN {frame.reaction.to} ELSE {}

\* Every reaction that waits, and the handler that runs, has a pair of its own that
\* nobody has called or can call.  A foreign thenable can call the one it was given.
Owners ==
  /\ Alone(attached, started)
  /\ Free(attached, started, held \cup resolved \cup Own(running))
  /\ Own(running) \cap (held \cup resolved) = {}
  /\ running.type = "then" => running.to \in held

AttachedMade(a, c) == \A p \in Promises : MadeReactions(a[p], c)
HandledHave(h, a)  == \A p \in h : a[p] # <<>>

\* What RejectionsTravel says of a promise.
Passes(r, s)  == r.kind \in {"value", "follow"} => s[r.to[1]] = "rejected"
Passed(d, s)  == \A i \in 1 .. Len(d) : Passes(d[i], s)
Travels(p, s, a, d, heard) ==
  /\ p \in heard => s[p] = "rejected"
  /\ s[p] = "rejected" => (a = <<>> => p \in heard) /\ Passed(d, s)
AllTravel(s, a, d, heard) == \A p \in Promises : Travels(p, s, a[p], d[p], heard)

RejectInv ==
  /\ Owners
  /\ AttachedMade(attached, pairs)
  /\ HandledHave(handled, attached)
  /\ AllTravel(state, attached, started, reported)

LEMMA TheyTravel == ASSUME IndInv, RejectInv PROVE RejectionsTravel
<1>1. \A p \in Promises : DOMAIN started[p] = 1 .. Len(started[p])
  BY HistoryTypes, LenProperties
<1>. QED BY <1>1 DEF RejectInv, AllTravel, Travels, Passed, Passes, RejectionsTravel

(* Who waits, when a reaction is attached or started. *)

OneMore(a, c, p, r) == c[p] = Append(a[p], r) /\ \A x \in Promises : x # p => c[x] = a[x]

LEMMA WaitsAttached ==
  ASSUME NEW a, NEW c, NEW d, NEW p \in Promises, NEW r \in Reactions,
         a[p] \in Seq(Reactions), d[p] \in Seq(Reactions), OneMore(a, c, p, r),
         NEW x \in Promises, NEW k \in Nat, NEW f, Waits(c, d, x, k, f)
  PROVE  Waits(a, d, x, k, f) \/ (x = p /\ k = Len(a[p]) + 1 /\ f = r.to)
<1>1. PICK n \in Nat, m \in Nat : n = Len(a[p]) /\ m = Len(d[p])
  BY LenProperties
<1>2. Len(c[p]) = n + 1 /\ \A i \in 1 .. n + 1 : c[p][i] = IF i <= n THEN a[p][i] ELSE r
  BY <1>1, AppendProperties DEF OneMore
<1>3. CASE x = p
  <2>1. k \in m + 1 .. n + 1 /\ c[p][k].to = f
    BY <1>1, <1>2, <1>3 DEF Waits
  <2>2. CASE k <= n
    <3>1. k \in m + 1 .. n /\ c[p][k] = a[p][k]
      BY <1>2, <2>1, <2>2
    <3>. QED BY <1>1, <1>3, <2>1, <3>1 DEF Waits
  <2>3. CASE ~(k <= n)
    <3>1. k = n + 1 /\ c[p][k] = r
      BY <1>2, <2>1, <2>3
    <3>. QED BY <1>1, <1>3, <2>1, <3>1
  <2>. QED BY <2>2, <2>3
<1>4. CASE x # p
  BY <1>4 DEF Waits, OneMore
<1>. QED BY <1>3, <1>4

LEMMA WaitsStarted ==
  ASSUME NEW a, NEW d, NEW e, NEW p \in Promises, NEW r \in Reactions,
         a[p] \in Seq(Reactions), d[p] \in Seq(Reactions), OneMore(d, e, p, r),
         NEW x \in Promises, NEW k \in Nat, NEW f, Waits(a, e, x, k, f)
  PROVE  Waits(a, d, x, k, f) /\ ~(x = p /\ k = Len(d[p]) + 1)
<1>1. PICK n \in Nat, m \in Nat : n = Len(a[p]) /\ m = Len(d[p])
  BY LenProperties
<1>2. Len(e[p]) = m + 1
  BY <1>1, AppendProperties DEF OneMore
<1>3. CASE x = p
  <2>1. k \in m + 1 + 1 .. n /\ a[p][k].to = f
    BY <1>1, <1>2, <1>3 DEF Waits
  <2>2. k \in m + 1 .. n /\ k # m + 1
    BY <2>1
  <2>. QED BY <1>1, <1>3, <2>1, <2>2 DEF Waits
<1>4. CASE x # p
  BY <1>4 DEF Waits, OneMore
<1>. QED BY <1>3, <1>4

LEMMA MadeAppend ==
  ASSUME NEW a \in Seq(Reactions), NEW r \in Reactions, NEW c, MadeReactions(a, c), Made(r.to, c)
  PROVE  MadeReactions(Append(a, r), c)
<1>1. PICK n \in Nat, s \in Seq(Reactions) : n = Len(a) /\ s = Append(a, r)
  BY LenProperties, AppendProperties
<1>2. Len(s) = n + 1 /\ \A i \in 1 .. n + 1 : s[i] = IF i <= n THEN a[i] ELSE r
  BY <1>1, AppendProperties
<1>. SUFFICES ASSUME NEW i \in 1 .. n + 1 PROVE Made(s[i].to, c)
  BY <1>1, <1>2 DEF MadeReactions
<1>3. CASE i <= n
  <2>1. i \in 1 .. n /\ s[i] = a[i]
    BY <1>2, <1>3
  <2>. QED BY <1>1, <2>1 DEF MadeReactions
<1>4. CASE ~(i <= n)
  BY <1>2, <1>4
<1>. QED BY <1>3, <1>4

\* A pair that has not been made belongs to nobody.
LEMMA NewIsFree ==
  ASSUME IndInv, RejectInv, NEW f \in Pairs, ~Made(f, pairs)
  PROVE  f \notin held \cup resolved \cup Own(running) /\ Free(attached, started, {f})
<1>1. f \notin held \cup resolved
  BY DEF IndInv, References
<1>2. f \notin Own(running)
  BY DEF IndInv, References, Own
<1>3. ASSUME NEW p \in Promises, NEW k \in Nat, Waits(attached, started, p, k, f) PROVE FALSE
  <2>1. PICK n \in Nat, m \in Nat : n = Len(attached[p]) /\ m = Len(started[p])
    BY HistoryTypes, LenProperties
  <2>2. k \in m + 1 .. n /\ attached[p][k].to = f
    BY <1>3, <2>1 DEF Waits
  <2>3. k \in 1 .. n
    BY <2>2
  <2>. QED BY <2>1, <2>2, <2>3 DEF RejectInv, AttachedMade, MadeReactions
<1>. QED BY <1>1, <1>2, <1>3 DEF Free

(* How steps of each kind keep the owners. *)

\* JavaScript starts, ends, or uses up a pair that it has.
LEMMA SpentOwners ==
  ASSUME IndInv, Owners, NEW f, f \in held \cup Own(running), resolved' \subseteq resolved \cup {f},
         UNCHANGED <<held, attached, started>>,
         running' \in {None, Script} \/ (running' = running /\ f \in held)
  PROVE  Owners'
<1>1. Own(running') \subseteq Own(running) /\ (running'.type = "then" => running'.to \in held)
  BY DEF Owners, Own, None, Script
<1>2. Alone(attached, started)'
  BY DEF Owners, Alone
<1>3. Own(running') \cap (held \cup resolved') = {}
  BY <1>1 DEF Owners, Own, None, Script
<1>4. held' \cup resolved' \cup Own(running') \subseteq held \cup resolved \cup Own(running)
  BY <1>1
<1>5. Free(attached', started', held' \cup resolved' \cup Own(running'))
  BY <1>4 DEF Owners, Free
<1>. QED BY <1>1, <1>2, <1>3, <1>5 DEF Owners

\* A new pair is given out.
LEMMA HeldOwners ==
  ASSUME IndInv, Owners, NEW g, g \notin Own(running), Free(attached, started, {g}),
         held' = held \cup {g}, UNCHANGED <<resolved, attached, started>>,
         running' = running \/ running' = [type |-> "then", to |-> g]
  PROVE  Owners'
<1>1. Own(running') \subseteq Own(running) /\ (running'.type = "then" => running'.to \in held')
  BY DEF Owners, Own
<1>2. Alone(attached, started)'
  BY DEF Owners, Alone
<1>3. Own(running') \cap (held' \cup resolved') = {}
  BY <1>1 DEF Owners
<1>4. Free(attached', started', held' \cup resolved' \cup Own(running'))
  BY <1>1 DEF Owners, Free
<1>. QED BY <1>1, <1>2, <1>3, <1>4 DEF Owners

\* A reaction is attached whose pair nobody else has.
LEMMA AttachedOwners ==
  ASSUME IndInv, Owners, NEW p \in Promises, NEW r \in Reactions,
         OneMore(attached, attached', p, r), UNCHANGED <<held, resolved, started>>,
         r.to \notin held \cup resolved, Free(attached, started, {r.to}),
         running' = None \/ (running' = running /\ r.to \notin Own(running))
  PROVE  Owners'
<1>0. r.to \in Pairs /\ attached[p] \in Seq(Reactions) /\ started[p] \in Seq(Reactions)
  BY ReactionTypes, HistoryTypes
<1>1. /\ Own(running') \subseteq Own(running) /\ r.to \notin Own(running')
      /\ (running'.type = "then" => running'.to \in held)
  BY DEF Owners, Own, None
<1>2. ASSUME NEW x \in Promises, NEW k \in Nat, NEW f \in Pairs, Waits(attached', started, x, k, f)
      PROVE  \/ Waits(attached, started, x, k, f) /\ f # r.to
             \/ x = p /\ k = Len(attached[p]) + 1 /\ f = r.to
  <2>1. Waits(attached, started, x, k, f) \/ (x = p /\ k = Len(attached[p]) + 1 /\ f = r.to)
    BY <1>0, <1>2, WaitsAttached
  <2>2. Waits(attached, started, x, k, f) => f # r.to
    BY DEF Free
  <2>. QED BY <2>1, <2>2
<1>3. Alone(attached', started)
  BY <1>2 DEF Owners, Alone
<1>4. Free(attached', started, held \cup resolved \cup Own(running'))
  BY <1>1, <1>2 DEF Owners, Free
<1>5. Own(running') \cap (held \cup resolved) = {}
  BY <1>1 DEF Owners
<1>. QED BY <1>1, <1>3, <1>4, <1>5 DEF Owners

\* A reaction is started: its pair goes to the handler, or is used up.
LEMMA StartedOwners ==
  ASSUME IndInv, Owners, running = None, NEW p \in Promises, NEW r \in Reactions,
         Len(started[p]) + 1 \in 1 .. Len(attached[p]), r = attached[p][Len(started[p]) + 1],
         NEW d, OneMore(started, d, p, r), started' = d, UNCHANGED <<held, attached>>,
         \/ running' = [type |-> "handler", reaction |-> r] /\ resolved' = resolved
         \/ running' = None /\ resolved' \subseteq resolved \cup {r.to}
  PROVE  Owners' /\ r.to \notin resolved
<1>0. r.to \in Pairs /\ started[p] \in Seq(Reactions) /\ attached[p] \in Seq(Reactions)
  BY ReactionTypes, HistoryTypes
<1>1. PICK n \in Nat : n = Len(started[p]) + 1 /\ Waits(attached, started, p, n, r.to)
  <2>1. PICK m \in Nat, l \in Nat : m = Len(started[p]) /\ l = Len(attached[p])
    BY <1>0, LenProperties
  <2>2. m + 1 \in Nat /\ m + 1 \in m + 1 .. l
    BY <2>1
  <2>. QED BY <2>1, <2>2 DEF Waits
<1>2. r.to \notin held \cup resolved
  BY <1>0, <1>1 DEF Owners, Free
<1>3. ASSUME NEW x \in Promises, NEW k \in Nat, NEW f \in Pairs, Waits(attached, d, x, k, f)
      PROVE  Waits(attached, started, x, k, f) /\ f # r.to
  <2>1. Waits(attached, started, x, k, f) /\ ~(x = p /\ k = n)
    BY <1>0, <1>1, <1>3, WaitsStarted
  <2>. QED BY <1>0, <1>1, <2>1 DEF Owners, Alone
<1>4. Alone(attached, d)
  BY <1>3 DEF Owners, Alone
<1>5. Own(running') \subseteq {r.to}
  BY DEF Own, None
<1>6. Free(attached, d, held \cup resolved' \cup Own(running'))
  BY <1>3, <1>5 DEF Owners, Free
<1>7. Own(running') \cap (held \cup resolved') = {} /\ running'.type # "then"
  BY <1>2 DEF Own, None
<1>. QED BY <1>2, <1>4, <1>6, <1>7 DEF Owners

(* How settlements travel. *)

LEMMA PassedStays ==
  ASSUME NEW d \in Seq(Reactions), NEW s, NEW t, Passed(d, s),
         \A x \in Promises : s[x] = "rejected" => t[x] = "rejected"
  PROVE  Passed(d, t)
<1>1. \A i \in 1 .. Len(d) : d[i] \in Reactions
  BY ElementOfSeq
<1>2. \A r \in Reactions : r.to[1] \in Promises
  BY DEF Reactions, Pairs
<1>. QED BY <1>1, <1>2 DEF Passed, Passes

\* A promise is settled, or made, or follows: what was true of rejections stays.
LEMMA ResolveTravels ==
  ASSUME IndInv, OrderInv, RejectInv, NEW f \in Pairs, Made(f, pairs), NEW reject \in BOOLEAN,
         NEW with \in Resolutions, NEW todo, Resolve(f, reject, with, todo)
  PROVE  /\ resolved' \subseteq resolved \cup {f}
         /\ AllTravel(state', attached, started, reported')
         /\ f \notin resolved /\ reject => state'[f[1]] = "rejected"
         /\ \A x \in Promises : state[x] # "pending" => state'[x] = state[x]
<1>1. AllTravel(state, attached, started, reported)
  BY DEF RejectInv
<1>2. CASE /\ UNCHANGED <<state, reported>> /\ resolved' \subseteq resolved \cup {f}
           /\ f \in resolved \/ ~reject
  BY <1>1, <1>2
<1>3. CASE /\ f[1] \in Promises /\ state[f[1]] = "pending" /\ resolved' = resolved \cup {f}
           /\ \E b \in BOOLEAN : (reject => b) /\ Settle(f[1], b, todo)
  <2>1. PICK p \in Promises, b \in BOOLEAN :
          p = f[1] /\ state[p] = "pending" /\ (reject => b) /\ Settle(p, b, todo)
    BY <1>3
  <2>2. /\ state'[p] = IF b THEN "rejected" ELSE "fulfilled"
        /\ \A x \in Promises : x # p => state'[x] = state[x]
        /\ reported' = IF b /\ p \notin handled THEN reported \cup {p} ELSE reported
    BY <2>1, SettleMeans
  <2>3. Passed(started[p], state')
    <3>1. attached[p] \in Seq(Reactions) /\ started[p] \in Seq(Reactions) /\ jobs \in Seq(Jobs)
      BY HistoryTypes
    <3>2. Ordered(jobs, p, "pending", attached[p], started[p], reactions[p])
      BY <2>1 DEF OrderInv, AllOrdered
    <3>3. Len(started[p]) = 0
      BY <3>1, <3>2, PendingMeans
    <3>. QED BY <3>3 DEF Passed
  <2>4. p \notin reported
    BY <1>1, <2>1 DEF AllTravel, Travels
  <2>5. Travels(p, state', attached[p], started[p], reported')
    <3>1. b => (attached[p] = <<>> => p \in reported')
      BY <2>2 DEF RejectInv, HandledHave
    <3>2. ~b => p \notin reported'
      BY <2>2, <2>4
    <3>. QED BY <2>2, <2>3, <3>1, <3>2 DEF Travels
  <2>6. ASSUME NEW x \in Promises, x # p
        PROVE  Travels(x, state', attached[x], started[x], reported')
    <3>1. Travels(x, state, attached[x], started[x], reported) /\ state'[x] = state[x]
      BY <1>1, <2>2, <2>6 DEF AllTravel
    <3>2. x \in reported' <=> x \in reported
      BY <2>2, <2>6
    <3>3. Passed(started[x], state) => Passed(started[x], state')
      <4>1. \A y \in Promises : state[y] = "rejected" => state'[y] = "rejected"
        BY <2>1, <2>2
      <4>. QED BY <4>1, HistoryTypes, PassedStays
    <3>. QED BY <3>1, <3>2, <3>3 DEF Travels
  <2>7. AllTravel(state', attached, started, reported')
    BY <2>5, <2>6 DEF AllTravel
  <2>8. reject => state'[p] = "rejected"
    BY <2>1, <2>2
  <2>9. \A x \in Promises : state[x] # "pending" => state'[x] = state[x]
    BY <2>1, <2>2
  <2>. QED BY <1>3, <2>1, <2>7, <2>8, <2>9
<1>4. CASE f \in resolved /\ jobs' = todo /\ UNCHANGED <<state, reactions, reported, resolved>>
  BY <1>2, <1>4
<1>5. CASE /\ f \notin resolved /\ resolved' = resolved \cup {f}
           /\ f[1] \in Promises /\ state[f[1]] = "pending"
           /\ \/ \E b \in BOOLEAN : (reject => b) /\ Settle(f[1], b, todo)
              \/ /\ ~reject /\ with # "plain" /\ with \in Promises \cup {"foreign"}
                 /\ jobs' = todo \o <<[type |-> "thenable", promise |-> f[1], of |-> with]>>
                 /\ UNCHANGED <<state, reactions, reported>>
  BY <1>2, <1>3, <1>5
<1>. QED BY <1>4, <1>5, ResolveMeans

LEMMA MakeTravels ==
  ASSUME IndInv, RejectInv, NEW p \in Promises, Make(p)
  PROVE  AllTravel(state', attached, started, reported)
<1>1. /\ state[p] = "unborn" /\ state'[p] = "pending"
      /\ \A x \in Promises : x # p => state'[x] = state[x]
  BY DEF Make, IndInv, TypeOK
<1>2. ASSUME NEW x \in Promises PROVE Travels(x, state', attached[x], started[x], reported)
  <2>1. Travels(x, state, attached[x], started[x], reported)
    BY DEF RejectInv, AllTravel
  <2>2. CASE x = p
    BY <1>1, <2>1, <2>2 DEF Travels
  <2>3. CASE x # p
    <3>1. \A y \in Promises : state[y] = "rejected" => state'[y] = "rejected"
      BY <1>1
    <3>2. Passed(started[x], state) => Passed(started[x], state')
      BY <3>1, HistoryTypes, PassedStays
    <3>. QED BY <1>1, <2>1, <2>3, <3>2 DEF Travels
  <2>. QED BY <2>2, <2>3
<1>. QED BY <1>2 DEF AllTravel

LEMMA AttachTravels ==
  ASSUME NEW s, NEW heard, AllTravel(s, attached, started, heard), IndInv,
         NEW p \in Promises, NEW r \in Reactions, OneMore(attached, attached', p, r)
  PROVE  AllTravel(s, attached', started, heard)
<1>1. PICK t : t = attached[p] /\ t \in Seq(Reactions)
  BY HistoryTypes
<1>2. attached'[p] # <<>>
  BY <1>1, AppendProperties DEF OneMore
<1>3. ASSUME NEW x \in Promises PROVE Travels(x, s, attached'[x], started[x], heard)
  <2>1. CASE x = p
    BY <1>2, <2>1 DEF AllTravel, Travels
  <2>2. CASE x # p
    BY <2>2 DEF AllTravel, OneMore
  <2>. QED BY <2>1, <2>2
<1>. QED BY <1>3 DEF AllTravel

LEMMA StartTravels ==
  ASSUME IndInv, NEW s, NEW heard, AllTravel(s, attached, started, heard),
         NEW p \in Promises, NEW r \in Reactions, s[p] = "rejected" => Passes(r, s),
         NEW d, OneMore(started, d, p, r)
  PROVE  AllTravel(s, attached, d, heard)
<1>1. PICK n \in Nat, e \in Seq(Reactions) : n = Len(started[p]) /\ e = d[p]
  BY HistoryTypes, LenProperties, AppendProperties DEF OneMore
<1>2. Len(e) = n + 1 /\ \A i \in 1 .. n + 1 : e[i] = IF i <= n THEN started[p][i] ELSE r
  BY <1>1, HistoryTypes, AppendProperties DEF OneMore
<1>3. s[p] = "rejected" => Passed(e, s)
  <2>. SUFFICES ASSUME s[p] = "rejected", NEW i \in 1 .. n + 1 PROVE Passes(e[i], s)
    BY <1>2 DEF Passed
  <2>1. \A k \in 1 .. n : Passes(started[p][k], s)
    BY <1>1 DEF AllTravel, Travels, Passed
  <2>2. CASE i <= n
    BY <1>2, <2>1, <2>2
  <2>3. CASE ~(i <= n)
    BY <1>2, <2>3
  <2>. QED BY <2>2, <2>3
<1>4. ASSUME NEW x \in Promises PROVE Travels(x, s, attached[x], d[x], heard)
  <2>1. CASE x = p
    BY <1>1, <1>3, <2>1 DEF AllTravel, Travels
  <2>2. CASE x # p
    BY <2>2 DEF AllTravel, OneMore
  <2>. QED BY <2>1, <2>2
<1>. QED BY <1>4 DEF AllTravel

(* Every step keeps what RejectInv says. *)

LEMMA AttachMeans ==
  ASSUME IndInv, NEW p \in Promises, NEW r, NEW todo, Attach(p, r, todo)
  PROVE  OneMore(attached, attached', p, r) /\ handled' = handled \cup {p}
BY DEF Attach, OneMore, IndInv, TypeOK

LEMMA AttachedMadeStays ==
  ASSUME IndInv, RejectInv, NEW c \in [Promises -> Nat], \A x \in Promises : pairs[x] <= c[x]
  PROVE  AttachedMade(attached, c)
<1>1. pairs \in [Promises -> Nat]
  BY PairsTypes DEF IndInv
<1>. QED BY <1>1, MadeStays, HistoryTypes DEF RejectInv, AttachedMade

LEMMA AttachedHistory ==
  ASSUME IndInv, RejectInv, NEW p \in Promises, NEW r \in Reactions,
         OneMore(attached, attached', p, r), handled' = handled \cup {p},
         NEW c \in [Promises -> Nat], \A x \in Promises : pairs[x] <= c[x], Made(r.to, c)
  PROVE  AttachedMade(attached', c) /\ HandledHave(handled', attached')
<1>1. AttachedMade(attached, c)
  BY AttachedMadeStays
<1>2. PICK t : t = attached[p] /\ t \in Seq(Reactions)
  BY HistoryTypes
<1>3. attached'[p] = Append(t, r) /\ \A x \in Promises : x # p => attached'[x] = attached[x]
  BY <1>2 DEF OneMore
<1>4. attached'[p] # <<>>
  BY <1>2, <1>3, AppendProperties
<1>5. MadeReactions(attached'[p], c)
  <2>1. MadeReactions(t, c)
    BY <1>1, <1>2 DEF AttachedMade
  <2>. QED BY <1>2, <1>3, <2>1, MadeAppend
<1>6. AttachedMade(attached', c)
  BY <1>1, <1>3, <1>5 DEF AttachedMade
<1>7. HandledHave(handled', attached')
  BY <1>3, <1>4 DEF RejectInv, HandledHave, IndInv, TypeOK
<1>. QED BY <1>6, <1>7

\* A promise that is made gets its first pair, which is new.
LEMMA MakeGrows ==
  ASSUME IndInv, NEW p \in Promises, Make(p)
  PROVE  /\ pairs' \in [Promises -> Nat] /\ \A x \in Promises : pairs[x] <= pairs'[x]
         /\ <<p, 1>> \in Pairs /\ ~Made(<<p, 1>>, pairs) /\ Made(<<p, 1>>, pairs')
<1>1. pairs \in [Promises -> Nat] /\ pairs[p] = 0 /\ pairs' = [pairs EXCEPT ![p] = 1]
  BY PairsTypes DEF IndInv, Authority, Make
<1>2. <<p, 1>> \in Pairs
  BY PairsAssumption DEF Pairs
<1>. QED BY <1>1, <1>2 DEF Made

LEMMA SameRejects ==
  ASSUME RejectInv,
         UNCHANGED <<state, pairs, resolved, held, handled, reported, attached, started>>,
         running' \in {None, Script, running}
  PROVE  RejectInv'
<1>1. Own(running') \subseteq Own(running) /\ (running'.type = "then" => running'.to \in held)
  BY DEF RejectInv, Owners, Own, None, Script
<1>2. Free(attached, started, held \cup resolved \cup Own(running'))
  BY <1>1 DEF RejectInv, Owners, Free
<1>3. Alone(attached, started) /\ Own(running') \cap (held \cup resolved) = {}
  BY <1>1 DEF RejectInv, Owners
<1>4. Owners'
  BY <1>1, <1>2, <1>3 DEF Owners
<1>. QED BY <1>4 DEF RejectInv

LEMMA NewPromiseRejects ==
  ASSUME IndInv, RejectInv, NEW p \in Promises, NewPromise(p)
  PROVE  RejectInv'
<1>1. PICK f : f = <<p, 1>>
  OBVIOUS
<1>2. /\ Make(p) /\ held' = held \cup {f}
      /\ UNCHANGED <<resolved, handled, running, reported, attached, started>>
  BY <1>1 DEF NewPromise
<1>3. /\ pairs' \in [Promises -> Nat] /\ \A x \in Promises : pairs[x] <= pairs'[x]
      /\ f \in Pairs /\ ~Made(f, pairs)
  BY <1>1, <1>2, MakeGrows
<1>4. Owners'
  <2>1. f \notin held \cup resolved \cup Own(running) /\ Free(attached, started, {f})
    BY <1>3, NewIsFree
  <2>. QED BY <1>2, <2>1, HeldOwners DEF RejectInv
<1>5. AttachedMade(attached, pairs') /\ AllTravel(state', attached, started, reported)
  BY <1>2, <1>3, AttachedMadeStays, MakeTravels
<1>. QED BY <1>2, <1>4, <1>5 DEF RejectInv

LEMMA ThenRejects ==
  ASSUME IndInv, RejectInv, NEW p \in Promises, NEW q \in Promises, NEW kind \in Kinds,
         Then(p, q, kind)
  PROVE  RejectInv'
<1>1. PICK f : f = <<q, 1>>
  OBVIOUS
<1>2. PICK r : r = [kind |-> kind, to |-> f]
  OBVIOUS
<1>3. /\ Make(q) /\ Attach(p, r, jobs)
      /\ UNCHANGED <<resolved, held, running, reported, started>>
  BY <1>1, <1>2 DEF Then
<1>4. /\ pairs' \in [Promises -> Nat] /\ \A x \in Promises : pairs[x] <= pairs'[x]
      /\ f \in Pairs /\ ~Made(f, pairs) /\ Made(f, pairs')
  BY <1>1, <1>3, MakeGrows
<1>5. r \in Reactions /\ r.to = f
  BY <1>2, <1>4 DEF Reactions
<1>6. OneMore(attached, attached', p, r) /\ handled' = handled \cup {p}
  BY <1>3, AttachMeans
<1>7. Owners'
  <2>1. f \notin held \cup resolved \cup Own(running) /\ Free(attached, started, {f})
    BY <1>4, NewIsFree
  <2>. QED BY <1>3, <1>5, <1>6, <2>1, AttachedOwners DEF RejectInv
<1>8. AttachedMade(attached', pairs') /\ HandledHave(handled', attached')
  BY <1>4, <1>5, <1>6, AttachedHistory
<1>9. AllTravel(state', attached', started, reported)
  <2>1. AllTravel(state', attached, started, reported)
    BY <1>3, MakeTravels
  <2>. QED BY <1>5, <1>6, <2>1, AttachTravels
<1>. QED BY <1>3, <1>7, <1>8, <1>9 DEF RejectInv

\* An async function goes on waiting: its pair goes back from the handler.
LEMMA AwaitRejects ==
  ASSUME IndInv, RejectInv, NEW p \in Promises, Await(p)
  PROVE  RejectInv'
<1>1. running.type = "handler" /\ running \in Frames
  BY DEF Await, IndInv, TypeOK
<1>2. PICK r \in Reactions : r = running.reaction
  BY <1>1, FrameTypes
<1>3. /\ Attach(p, r, jobs) /\ running' = None
      /\ UNCHANGED <<state, pairs, resolved, held, reported, started>>
  BY <1>2 DEF Await
<1>4. OneMore(attached, attached', p, r) /\ handled' = handled \cup {p}
  BY <1>3, AttachMeans
<1>5. Own(running) = {r.to} /\ Made(r.to, pairs)
  BY <1>1, <1>2 DEF Own, IndInv, References
<1>6. Owners'
  <2>1. r.to \notin held \cup resolved
    BY <1>5 DEF RejectInv, Owners
  <2>2. Free(attached, started, {r.to})
    BY <1>5 DEF RejectInv, Owners, Free
  <2>. QED BY <1>3, <1>4, <2>1, <2>2, AttachedOwners DEF RejectInv
<1>7. AttachedMade(attached', pairs) /\ HandledHave(handled', attached')
  <2>1. pairs \in [Promises -> Nat]
    BY PairsTypes DEF IndInv
  <2>2. \A x \in Promises : pairs[x] <= pairs[x]
    BY <2>1
  <2>. QED BY <1>4, <1>5, <2>1, <2>2, AttachedHistory
<1>8. AllTravel(state, attached', started, reported)
  BY <1>4, AttachTravels DEF RejectInv
<1>. QED BY <1>3, <1>6, <1>7, <1>8 DEF RejectInv

\* A pair is used up by JavaScript, or at the end of a handler.
LEMMA CallRejects ==
  ASSUME IndInv, OrderInv, RejectInv, NEW f \in Pairs, f \in held \cup Own(running),
         Made(f, pairs), NEW reject \in BOOLEAN, NEW with \in Resolutions,
         Resolve(f, reject, with, jobs), UNCHANGED <<pairs, held, handled, attached, started>>,
         running' = None \/ (running' = running /\ f \in held)
  PROVE  RejectInv'
<1>1. resolved' \subseteq resolved \cup {f} /\ AllTravel(state', attached, started, reported')
  BY ResolveTravels
<1>2. Owners'
  BY <1>1, SpentOwners DEF RejectInv
<1>. QED BY <1>1, <1>2 DEF RejectInv

LEMMA CallSettlerRejects ==
  ASSUME IndInv, OrderInv, RejectInv, NEW f \in held, NEW reject \in BOOLEAN,
         NEW with \in Resolutions, CallSettler(f, reject, with)
  PROVE  RejectInv'
<1>1. f \in Pairs /\ Made(f, pairs)
  BY DEF IndInv, TypeOK, References
<1>2. /\ Resolve(f, reject, with, jobs)
      /\ UNCHANGED <<pairs, held, handled, running, attached, started>>
  BY DEF CallSettler
<1>. QED BY <1>1, <1>2, CallRejects

LEMMA HandlerEndsRejects ==
  ASSUME IndInv, OrderInv, RejectInv, NEW reject \in BOOLEAN, NEW with \in Resolutions,
         HandlerEnds(reject, with)
  PROVE  RejectInv'
<1>1. running.type = "handler" /\ running \in Frames
  BY DEF HandlerEnds, IndInv, TypeOK
<1>2. PICK f \in Pairs : f = running.reaction.to
  BY <1>1, FrameTypes, ReactionTypes
<1>3. Made(f, pairs) /\ f \in Own(running)
  BY <1>1, <1>2 DEF IndInv, References, Own
<1>4. /\ Resolve(f, reject, with, jobs) /\ running' = None
      /\ UNCHANGED <<pairs, held, handled, attached, started>>
  BY <1>2 DEF HandlerEnds
<1>. QED BY <1>3, <1>4, CallRejects

LEMMA ThenEndsRejects ==
  ASSUME IndInv, OrderInv, RejectInv, NEW throws \in BOOLEAN, ThenEnds(throws)
  PROVE  RejectInv'
<1>1. CASE throws
  <2>1. running.type = "then" /\ running \in Frames
    BY DEF ThenEnds, IndInv, TypeOK
  <2>2. PICK f \in Pairs : f = running.to
    BY <2>1, FrameTypes
  <2>3. Made(f, pairs) /\ f \in held
    BY <2>1, <2>2 DEF IndInv, References, RejectInv, Owners
  <2>4. /\ Resolve(f, TRUE, "plain", jobs) /\ running' = None
        /\ UNCHANGED <<pairs, held, handled, attached, started>>
    BY <1>1, <2>2 DEF ThenEnds
  <2>5. "plain" \in Resolutions
    BY DEF Resolutions
  <2>. QED BY <2>3, <2>4, <2>5, CallRejects
<1>2. CASE ~throws
  BY <1>2, SameRejects DEF ThenEnds
<1>. QED BY <1>1, <1>2

\* The handler gets the pair of its reaction; a reaction without one finds its pair
\* unspent, and rejects the promise that waits for it.
LEMMA RunReactionRejects ==
  ASSUME IndInv, OrderInv, RejectInv, NEW with \in Resolutions, RunReaction(with)
  PROVE  RejectInv'
<1>1. PICK job \in Jobs : job = Head(jobs) /\ job.type = "reaction"
  BY TailQueue DEF RunReaction, IndInv, TypeOK
<1>2. PICK r \in Reactions, p \in Promises, b \in BOOLEAN :
        r = job.reaction /\ p = job.on /\ b = job.reject
  BY <1>1, JobTypes
<1>3. jobs # <<>> /\ running = None /\ On(Head(jobs), p)
  BY <1>1, <1>2 DEF RunReaction, On
<1>4. PICK f \in Pairs : f = r.to /\ Made(f, pairs)
  BY <1>1, <1>2, <1>3, TailQueue, ReactionTypes DEF IndInv, TypeOK, References
<1>5. /\ state[p] # "pending" /\ Len(started[p]) + 1 \in 1 .. Len(attached[p])
      /\ Head(jobs) = Job(p, attached[p][Len(started[p]) + 1], state[p] = "rejected")
  BY <1>3, TailOrdered
<1>6. r = attached[p][Len(started[p]) + 1]
  BY <1>1, <1>2, <1>5 DEF Job
<1>7. state[p] = "rejected" => b = TRUE
  BY <1>1, <1>2, <1>5 DEF Job
<1>8. PICK d : d = started' /\ OneMore(started, d, p, r)
  BY <1>1, <1>2 DEF RunReaction, IndInv, TypeOK, OneMore
<1>9. UNCHANGED <<pairs, held, handled, attached>>
  BY DEF RunReaction
<1>10. CASE Handles(r.kind, b)
  <2>1. running' = [type |-> "handler", reaction |-> r] /\ UNCHANGED <<state, reported, resolved>>
    BY <1>1, <1>2, <1>10 DEF RunReaction
  <2>2. Owners'
    BY <1>3, <1>5, <1>6, <1>8, <1>9, <2>1, StartedOwners DEF RejectInv
  <2>3. state[p] = "rejected" => Passes(r, state)
    BY <1>7, <1>10 DEF Handles, Passes
  <2>4. AllTravel(state, attached, d, reported)
    BY <1>8, <2>3, StartTravels DEF RejectInv
  <2>. QED BY <1>8, <1>9, <2>1, <2>2, <2>4 DEF RejectInv
<1>11. CASE ~Handles(r.kind, b)
  <2>1. Resolve(f, b, with, Tail(jobs)) /\ running' = None
    BY <1>1, <1>2, <1>3, <1>4, <1>11 DEF RunReaction
  <2>3. /\ resolved' \subseteq resolved \cup {f}
        /\ AllTravel(state', attached, started, reported')
        /\ f \notin resolved /\ b => state'[f[1]] = "rejected"
        /\ \A x \in Promises : state[x] # "pending" => state'[x] = state[x]
    BY <1>4, <2>1, ResolveTravels
  <2>4. Owners' /\ r.to \notin resolved
    BY <1>3, <1>4, <1>5, <1>6, <1>8, <1>9, <2>1, <2>3, StartedOwners DEF RejectInv
  <2>5. state'[p] = "rejected" => Passes(r, state')
    BY <1>4, <1>5, <1>7, <2>3, <2>4 DEF Passes
  <2>6. AllTravel(state', attached, d, reported')
    BY <1>8, <2>3, <2>5, StartTravels
  <2>. QED BY <1>8, <1>9, <2>4, <2>6 DEF RejectInv
<1>. QED BY <1>10, <1>11

LEMMA RunThenableRejects ==
  ASSUME IndInv, RejectInv, RunThenable
  PROVE  RejectInv'
<1>1. PICK job \in Jobs : job = Head(jobs) /\ job.type = "thenable" /\ jobs # <<>>
  BY TailQueue DEF RunThenable, IndInv, TypeOK
<1>2. PICK p \in Promises : p = job.promise
  BY <1>1, JobTypes
<1>3. PICK f : f = NewPair(p)
  OBVIOUS
<1>4. pairs \in [Promises -> Nat] /\ pairs[p] < MaxPairs[p] /\ pairs[p] \in Nat
  <2>1. Thenable(Head(jobs), p) /\ jobs \in Seq(Jobs)
    BY <1>1, <1>2, HistoryTypes DEF Thenable
  <2>. QED BY <1>1, <2>1, TailQueue, PairsTypes DEF IndInv, Authority
<1>5. f \in Pairs /\ ~Made(f, pairs)
  <2>1. pairs[p] + 1 \in 1 .. MaxPairs[p] /\ ~(pairs[p] + 1 <= pairs[p])
    BY <1>4, PairsAssumption
  <2>. QED BY <1>3, <2>1 DEF NewPair, Pairs, Made
<1>6. /\ pairs' \in [Promises -> Nat] /\ Made(f, pairs')
      /\ \A x \in Promises : pairs[x] <= pairs'[x]
  <2>1. pairs' = [pairs EXCEPT ![p] = pairs[p] + 1]
    BY <1>1, <1>2 DEF RunThenable
  <2>. QED BY <1>3, <1>4, <2>1 DEF NewPair, Made
<1>7. f \notin held \cup resolved \cup Own(running) /\ Free(attached, started, {f})
  BY <1>5, NewIsFree
<1>8. UNCHANGED <<state, resolved, reported, started>>
  BY DEF RunThenable
<1>9. CASE job.of = "foreign"
  <2>1. /\ running' = [type |-> "then", to |-> f] /\ held' = held \cup {f}
        /\ UNCHANGED <<handled, attached>>
    BY <1>1, <1>2, <1>3, <1>9 DEF RunThenable
  <2>2. Owners'
    BY <1>7, <1>8, <2>1, HeldOwners DEF RejectInv
  <2>3. AttachedMade(attached, pairs')
    BY <1>6, AttachedMadeStays
  <2>. QED BY <1>8, <2>1, <2>2, <2>3 DEF RejectInv
<1>10. CASE job.of # "foreign"
  <2>1. PICK q \in Promises : q = job.of
    BY <1>1, <1>10, JobTypes
  <2>2. PICK r : r = [kind |-> "follow", to |-> f]
    OBVIOUS
  <2>3. Attach(q, r, Tail(jobs)) /\ UNCHANGED <<running, held>>
    BY <1>1, <1>2, <1>3, <1>10, <2>1, <2>2 DEF RunThenable, Follower
  <2>4. r \in Reactions /\ r.to = f
    BY <1>5, <2>2 DEF Reactions, Kinds
  <2>5. OneMore(attached, attached', q, r) /\ handled' = handled \cup {q}
    BY <2>3, AttachMeans
  <2>6. Owners'
    BY <1>7, <1>8, <2>3, <2>4, <2>5, AttachedOwners DEF RejectInv
  <2>7. AttachedMade(attached', pairs') /\ HandledHave(handled', attached')
    BY <1>6, <2>4, <2>5, AttachedHistory
  <2>8. AllTravel(state, attached', started, reported)
    BY <2>4, <2>5, AttachTravels DEF RejectInv
  <2>. QED BY <1>8, <2>6, <2>7, <2>8 DEF RejectInv
<1>. QED BY <1>9, <1>10

LEMMA NextRejects ==
  ASSUME IndInv, OrderInv, RejectInv, [Next]_vars
  PROVE  RejectInv'
<1>1. CASE StartScript \/ ScriptEnds
  BY <1>1, SameRejects DEF StartScript, ScriptEnds
<1>2. CASE \E with \in Resolutions : RunReaction(with)
  BY <1>2, RunReactionRejects
<1>3. CASE RunThenable BY <1>3, RunThenableRejects
<1>4. CASE \E p \in Promises : NewPromise(p) \/ Await(p)
  BY <1>4, NewPromiseRejects, AwaitRejects
<1>5. CASE \E p, q \in Promises, kind \in Kinds \ {"follow"} : Then(p, q, kind)
  BY <1>5, ThenRejects
<1>6. CASE \E reject \in BOOLEAN, with \in Resolutions, f \in held : CallSettler(f, reject, with)
  BY <1>6, CallSettlerRejects
<1>7. CASE \E reject \in BOOLEAN, with \in Resolutions : HandlerEnds(reject, with)
  BY <1>7, HandlerEndsRejects
<1>8. CASE \E throws \in BOOLEAN : ThenEnds(throws)
  BY <1>8, ThenEndsRejects
<1>9. CASE UNCHANGED vars
  BY <1>9, SameRejects DEF vars
<1>. QED BY <1>1, <1>2, <1>3, <1>4, <1>5, <1>6, <1>7, <1>8, <1>9 DEF Next

LEMMA InitRejects == Init => RejectInv
<1>. SUFFICES ASSUME Init PROVE RejectInv
  OBVIOUS
<1>1. \A p \in Promises : attached[p] = <<>> /\ started[p] = <<>> /\ state[p] = "unborn"
  BY DEF Init
<1>2. Len(<<>>) = 0
  BY EmptySeq
<1>3. \A p \in Promises, k \in Nat, f \in Pairs : ~Waits(attached, started, p, k, f)
  BY <1>1, <1>2 DEF Waits
<1>4. Owners
  BY <1>3 DEF Owners, Alone, Free, Own, Init, None
<1>5. AttachedMade(attached, pairs)
  BY <1>1, <1>2 DEF AttachedMade, MadeReactions
<1>6. HandledHave(handled, attached) /\ AllTravel(state, attached, started, reported)
  BY <1>1 DEF Init, HandledHave, AllTravel, Travels
<1>. QED BY <1>4, <1>5, <1>6 DEF RejectInv

LEMMA RejectInvariance == Spec => []RejectInv
<1>1. IndInv /\ OrderInv /\ RejectInv /\ [Next]_vars => RejectInv'
  BY NextRejects
<1>. QED BY InitRejects, Invariance, OrderInvariance, <1>1, PTL DEF Spec

\* No rejection is swallowed: the host hears of a rejected promise that nobody asked
\* for, and a reaction that has no handler for the error rejects the promise that waits
\* for it, whose pair it always finds unspent (fulfill_or_reject_promise,
\* js_promise_resolve_function_call).
THEOREM RejectionsAreHeard == Spec => []RejectionsTravel
<1>1. IndInv /\ RejectInv => RejectionsTravel
  BY TheyTravel
<1>. QED BY <1>1, Invariance, RejectInvariance, PTL
=============================================================================
