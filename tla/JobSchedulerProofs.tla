-------------------------- MODULE JobSchedulerProofs --------------------------
(***************************************************************************)
(* Proofs about JobScheduler for any finite set of threads and any sets of  *)
(* queues and jobs.  What is proved of JobQueue holds of the workers, whose *)
(* steps are steps of JobQueue.                                             *)
(***************************************************************************)
EXTENDS JobScheduler, JobQueueProofs

-------------------------------------------------------------------------------
(* The steps of the workers are steps of JobQueue *)

\* A thread takes a step of JobQueue, or leaves its variables alone.
LEMMA SchedStepQueue ==
    ASSUME SchedTypeOK, SchedNext
    PROVE  [Next]_vars
<1>1. ASSUME NEW t \in Threads, CallPush(t)
      PROVE  PushStep(t)
  BY <1>1 DEF CallPush, PushStep, TimerJobs
<1>2. ASSUME NEW t \in Threads,
             Reserve(t) \/ DispatchEnd(t) \/ DistributeBegin(t) \/ TakeDue(t)
               \/ DistributeEnd(t) \/ LoopEnd(t) \/ Tick(t)
      PROVE  UNCHANGED vars
  BY <1>2 DEF Reserve, DispatchEnd, DistributeBegin, TakeDue, DistributeEnd, LoopEnd, Tick
<1>3. ASSUME NEW t \in Threads, JobEnds(t)
      PROVE  ExecStep(t)
  BY <1>3 DEF JobEnds, ExecStep
<1>4. ASSUME NEW t \in Threads, GlobalWork(t)
      PROVE  ExecStep(t)
  BY <1>4 DEF GlobalWork, ExecStep
<1>5. ASSUME NEW t \in Threads, PushTimer(t)
      PROVE  PushStep(t)
  <2>1. PICK i \in items[t] : PushCount(t, i.queue, i.job, TRUE)
    BY <1>5 DEF PushTimer
  <2>2. i.queue \in Queues /\ i.job \in Jobs
    BY DEF SchedTypeOK, TimerItems
  <2>3. QED
    BY <2>1, <2>2 DEF PushStep
<1>6. ASSUME NEW t \in Threads, QueueStep(t)
      PROVE  PushStep(t) \/ ExecStep(t)
  BY <1>6 DEF QueueStep, PushStep, ExecStep
<1>7. ASSUME NEW t \in Threads, ContinueInTime(t) \/ HandOverLate(t)
      PROVE  ExecStep(t)
  BY <1>7 DEF ContinueInTime, HandOverLate, ExecStep
<1>8. ASSUME NEW i \in TimerItems, BecomeDue(i)
      PROVE  UNCHANGED vars
  BY <1>8 DEF BecomeDue
<1>9. QED
  BY <1>1, <1>2, <1>3, <1>4, <1>5, <1>6, <1>7, <1>8 DEF SchedNext, LoopStep, Next

-------------------------------------------------------------------------------
(* Type correctness, and one distributor at a time *)

\* No thread has taken items, and none distributes, in the initial state.
LEMMA InitOneDistributor == SchedInit => OneDistributor
<1> SUFFICES ASSUME SchedInit
             PROVE  OneDistributor
  OBVIOUS
<1>1. /\ phase \in [Threads -> Phases] /\ slice \in [Threads -> 0 .. 2]
      /\ waiting \subseteq TimerItems /\ due \subseteq TimerItems
      /\ items \in [Threads -> SUBSET TimerItems]
      /\ \A t \in Threads : items[t] = {} /\ phase[t] = "dispatch"
  BY DEF SchedInit, Phases
<1>2. distributing \in BOOLEAN /\ ~distributing
  BY DEF SchedInit
<1>3. QED
  BY <1>1, <1>2 DEF OneDistributor, SchedTypeOK

\* The exchange of _distributing lets one thread pass until it is reset.
LEMMA OneDistributorStep ==
    ASSUME OneDistributor, [SchedNext]_allVars
    PROVE  OneDistributor'
<1> USE DEF OneDistributor, SchedTypeOK, Phases
<1>1. ASSUME NEW t \in Threads, CallPush(t) \/ QueueStep(t) \/ JobEnds(t)
               \/ GlobalWork(t) \/ ContinueInTime(t) \/ HandOverLate(t)
      PROVE  OneDistributor'
  <2>1. UNCHANGED schedVars
    BY <1>1 DEF CallPush, QueueStep, JobEnds, GlobalWork, ContinueInTime, HandOverLate
  <2>2. QED
    BY <2>1 DEF schedVars, timerVars
<1>2. ASSUME NEW t \in Threads, Reserve(t)
      PROVE  OneDistributor'
  BY <1>2 DEF Reserve, TimerItems
<1>3. ASSUME NEW t \in Threads, DispatchEnd(t)
      PROVE  OneDistributor'
  BY <1>3 DEF DispatchEnd, ToPhase, timerVars
<1>4. ASSUME NEW t \in Threads, DistributeBegin(t)
      PROVE  OneDistributor'
  <2>1. CASE distributing
    BY <1>4, <2>1 DEF DistributeBegin, ToPhase
  <2>2. CASE ~distributing
    BY <1>4, <2>2 DEF DistributeBegin, ToPhase
  <2>3. QED
    BY <2>1, <2>2
<1>5. ASSUME NEW t \in Threads, TakeDue(t)
      PROVE  OneDistributor'
  BY <1>5 DEF TakeDue, ToPhase
<1>6. ASSUME NEW t \in Threads, PushTimer(t)
      PROVE  OneDistributor'
  BY <1>6 DEF PushTimer
<1>7. ASSUME NEW t \in Threads, DistributeEnd(t)
      PROVE  OneDistributor'
  BY <1>7 DEF DistributeEnd, ToPhase
<1>8. ASSUME NEW t \in Threads, LoopEnd(t)
      PROVE  OneDistributor'
  BY <1>8 DEF LoopEnd, ToPhase, timerVars
<1>9. ASSUME NEW t \in Threads, Tick(t)
      PROVE  OneDistributor'
  BY <1>9 DEF Tick, timerVars
<1>10. ASSUME NEW i \in TimerItems, BecomeDue(i)
       PROVE  OneDistributor'
  BY <1>10 DEF BecomeDue
<1>11. ASSUME UNCHANGED allVars
       PROVE  OneDistributor'
  BY <1>11 DEF allVars, schedVars, timerVars
<1>12. QED
  BY <1>1, <1>2, <1>3, <1>4, <1>5, <1>6, <1>7, <1>8, <1>9, <1>10, <1>11
     DEF SchedNext, LoopStep

\* One thread at a time distributes the timer's items, and the flag shows it.
THEOREM DistributorAlone == SchedSpec => []OneDistributor
BY InitOneDistributor, OneDistributorStep, PTL DEF SchedSpec

\* The worker loop, the clock and the timer only take steps of JobQueue.
LEMMA SchedulerTakesSteps == SchedSpec => Spec
<1>1. SchedInit => Init
  BY DEF SchedInit
<1>2. OneDistributor /\ [SchedNext]_allVars => [Next]_vars
  <2>1. UNCHANGED allVars => UNCHANGED vars
    BY DEF allVars
  <2>2. OneDistributor => SchedTypeOK
    BY DEF OneDistributor
  <2>3. QED
    BY <2>1, <2>2, SchedStepQueue
<1>3. QED
  BY <1>1, <1>2, DistributorAlone, PTL DEF SchedSpec, Spec

\* The workers run the jobs of a queue one at a time, a queue with jobs is in the
\* hands of exactly one of them or of GGlobalQueue, and its count adds up.
THEOREM SchedulerSafe ==
    SchedSpec => [](MutualExclusion /\ SingleResponsible /\ CountBalance)
BY SchedulerTakesSteps, MutuallyExclusive, SinglyResponsible, CountBalanced, PTL

-------------------------------------------------------------------------------
(* Distribute only pushes *)

\* A worker in Distribute executes nothing, and what it pushes it only pushes.
OnlyPushes ==
    \A t \in Threads : phase[t] \in {"take", "push"} =>
        execPc[t] = "none" /\ (pushPc[t] # "none" => pushOnly[t])

LEMMA OnlyPushesStep ==
    ASSUME TypeOK, SchedTypeOK, OnlyPushes, [SchedNext]_allVars
    PROVE  OnlyPushes'
<1> USE DEF TypeOK, SchedTypeOK, OnlyPushes
\* The steps of a handler, a job or the global queue are taken outside Distribute.
<1>1. ASSUME NEW t \in Threads, CallPush(t) \/ GlobalWork(t) \/ JobEnds(t)
               \/ ContinueInTime(t) \/ HandOverLate(t)
      PROVE  OnlyPushes'
  <2>1. phase[t] \notin {"take", "push"}
    BY <1>1 DEF CallPush, GlobalWork, JobEnds, ContinueInTime, HandOverLate, EndJob,
                Continue, HandOver
  <2>2. phase' = phase
    BY <1>1 DEF CallPush, GlobalWork, JobEnds, ContinueInTime, HandOverLate, schedVars
  <2>3. \A u \in Threads : u # t =>
            execPc'[u] = execPc[u] /\ pushPc'[u] = pushPc[u] /\ pushOnly'[u] = pushOnly[u]
    BY <1>1 DEF CallPush, GlobalWork, JobEnds, ContinueInTime, HandOverLate, PushCount,
                PopGlobal, EndJob, Continue, HandOver, pushVars, execVars
  <2>4. QED
    BY <2>1, <2>2, <2>3
<1>2. ASSUME NEW t \in Threads, QueueStep(t)
      PROVE  OnlyPushes'
  <2>1. phase' = phase
    BY <1>2 DEF QueueStep, schedVars
  <2>2. CASE PushFirst(t) \/ PushLater(t) \/ PushGlobal(t)
    <3>1. execPc' = execPc
      BY <2>2 DEF PushFirst, PushLater, PushGlobal, AppendJob, execVars
    <3>2. \A u \in Threads : pushPc'[u] # "none" =>
              pushPc[u] # "none" /\ pushOnly'[u] = pushOnly[u]
      BY <2>2 DEF PushFirst, PushLater, PushGlobal, ClearFrame
    <3>3. QED
      BY <2>1, <3>1, <3>2
  <2>3. CASE PushExecute(t)
    <3>1. phase[t] \notin {"take", "push"}
      BY <2>3 DEF PushExecute
    <3>2. \A u \in Threads : u # t =>
              execPc'[u] = execPc[u] /\ pushPc'[u] = pushPc[u] /\ pushOnly'[u] = pushOnly[u]
      BY <2>3 DEF PushExecute, ClearFrame
    <3>3. QED
      BY <2>1, <3>1, <3>2
  <2>4. CASE PopAll(t) \/ StartJob(t) \/ FinishBatch(t)
    <3>1. phase[t] \notin {"take", "push"}
      BY <2>4 DEF PopAll, StartJob, FinishBatch
    <3>2. UNCHANGED pushVars /\ \A u \in Threads : u # t => execPc'[u] = execPc[u]
      BY <2>4 DEF PopAll, StartJob, FinishBatch
    <3>3. QED
      BY <2>1, <3>1, <3>2 DEF pushVars
  <2>5. QED
    BY <1>2, <2>2, <2>3, <2>4 DEF QueueStep
<1>3. ASSUME NEW t \in Threads, PushTimer(t)
      PROVE  OnlyPushes'
  <2>1. PICK i \in items[t] : PushCount(t, i.queue, i.job, TRUE)
    BY <1>3 DEF PushTimer
  <2>2. /\ execPc' = execPc /\ phase' = phase /\ pushOnly'[t]
        /\ \A u \in Threads : u # t => pushPc'[u] = pushPc[u] /\ pushOnly'[u] = pushOnly[u]
    BY <1>3, <2>1 DEF PushTimer, PushCount, execVars
  <2>3. QED
    BY <2>2
\* Distribute begins in the loop, where the thread is in no Push and no Execute.
<1>4. ASSUME NEW t \in Threads,
             \/ Reserve(t) \/ DispatchEnd(t) \/ DistributeBegin(t) \/ TakeDue(t)
             \/ DistributeEnd(t) \/ LoopEnd(t) \/ Tick(t)
      PROVE  OnlyPushes'
  <2>1. UNCHANGED <<execPc, pushPc, pushOnly>>
    BY <1>4 DEF Reserve, DispatchEnd, DistributeBegin, TakeDue, DistributeEnd, LoopEnd,
                Tick, vars, pushVars, execVars
  <2>2. \A u \in Threads : phase'[u] \in {"take", "push"} =>
            phase[u] \in {"take", "push"} \/ AtLoop(u)
    BY <1>4 DEF Reserve, DispatchEnd, DistributeBegin, TakeDue, DistributeEnd, LoopEnd,
                Tick, ToPhase
  <2>3. QED
    BY <2>1, <2>2 DEF AtLoop
<1>5. ASSUME NEW i \in TimerItems, BecomeDue(i)
      PROVE  OnlyPushes'
  BY <1>5 DEF BecomeDue, vars, pushVars, execVars
<1>6. ASSUME UNCHANGED allVars
      PROVE  OnlyPushes'
  BY <1>6 DEF allVars, schedVars, vars, pushVars, execVars
<1>7. QED
  BY <1>1, <1>2, <1>3, <1>4, <1>5, <1>6 DEF SchedNext, LoopStep

\* The worker that distributes the timer's items executes no queue before it has
\* reset the flag.
THEOREM DistributorOnlyPushes == SchedSpec => []DistributorRunsNothing
<1>1. SchedInit => OnlyPushes
  BY DEF SchedInit, OnlyPushes
<1>2. TypeOK /\ SchedTypeOK /\ OnlyPushes /\ [SchedNext]_allVars => OnlyPushes'
  BY OnlyPushesStep
<1>3. TypeOK /\ OnlyPushes => DistributorRunsNothing
  BY DEF TypeOK, OnlyPushes, DistributorRunsNothing
<1>4. OneDistributor => SchedTypeOK
  BY DEF OneDistributor
<1>5. SchedSpec => []TypeOK
  BY SchedulerTakesSteps, TypeCorrect, PTL
<1>6. QED
  BY <1>1, <1>2, <1>3, <1>4, <1>5, DistributorAlone, PTL DEF SchedSpec

-------------------------------------------------------------------------------
(* A job is in one place *)

\* j is in the sequence s.
In(j, s) == \E i \in DOMAIN s : s[i] = j

\* The jobs that JobQueue calls live, by where they are.
IsLive(j) ==
    \/ \E t \in Threads : pushPc[t] \in {"first", "later"} /\ pushJob[t] = j
    \/ \E t \in Threads : In(j, batch[t])
    \/ \E q \in Queues : In(j, jobs[q])

\* The items of the timer, by where they are.
IsItem(i) ==
    \/ i \in waiting
    \/ i \in due
    \/ \E t \in Threads : i \in items[t]

\* An item is in one place, and no two items have the same job, nor an item the
\* job of a queue.
ItemsOnce ==
    /\ waiting \cap due = {}
    /\ \A t \in Threads : items[t] \cap (waiting \cup due) = {}
    /\ \A i, k \in TimerItems : IsItem(i) /\ IsItem(k) /\ i.job = k.job => i = k
    /\ \A i \in TimerItems : IsItem(i) => ~IsLive(i.job)

\* What the two sets of jobs contain.
JobsAgree ==
    /\ \A j : j \in LiveJobs <=> IsLive(j)
    /\ SchedTypeOK => \A j : j \in TimerJobs <=> \E i \in TimerItems : IsItem(i) /\ i.job = j

\* They contain these in every state, the next one too.
LEMMA JobsAgreeAlways == JobsAgree
<1>1. ASSUME NEW j
      PROVE  j \in LiveJobs <=> IsLive(j)
  <2> DEFINE Pushed == {pushJob[t] : t \in {u \in Threads : pushPc[u] \in {"first", "later"}}}
             Taken == UNION {{batch[t][i] : i \in DOMAIN batch[t]} : t \in Threads}
             Queued == UNION {{jobs[q][i] : i \in DOMAIN jobs[q]} : q \in Queues}
  <2>1. j \in Pushed <=> \E t \in Threads : pushPc[t] \in {"first", "later"} /\ pushJob[t] = j
    OBVIOUS
  <2>2. j \in Taken <=> \E t \in Threads : In(j, batch[t])
    BY DEF In
  <2>3. j \in Queued <=> \E q \in Queues : In(j, jobs[q])
    BY DEF In
  <2>4. LiveJobs = Pushed \cup Taken \cup Queued
    BY DEF LiveJobs
  <2> HIDE DEF Pushed, Taken, Queued
  <2>5. QED
    BY <2>1, <2>2, <2>3, <2>4 DEF IsLive
<1>2. ASSUME SchedTypeOK, NEW j
      PROVE  j \in TimerJobs <=> \E i \in TimerItems : IsItem(i) /\ i.job = j
  BY <1>2 DEF TimerJobs, IsItem, SchedTypeOK
<1>3. QED
  BY <1>1, <1>2 DEF JobsAgree

\* What the operations on sequences do to their elements.
LEMMA InSequences ==
    ASSUME NEW S, NEW s \in Seq(S), NEW e \in S
    PROVE  /\ \A j : ~In(j, <<>>)
           /\ \A j : In(j, Append(s, e)) => In(j, s) \/ j = e
           /\ \A j : s # <<>> /\ In(j, Tail(s)) => In(j, s)
<1>1. \A j : ~In(j, <<>>)
  BY DEF In
<1>2. \A j : In(j, Append(s, e)) => In(j, s) \/ j = e
  BY AppendProperties, LenProperties DEF In
<1>3. ASSUME s # <<>>, NEW j, In(j, Tail(s))
      PROVE  In(j, s)
  <2>1. PICK i \in DOMAIN Tail(s) : Tail(s)[i] = j
    BY <1>3 DEF In
  <2>2. i \in 1 .. Len(s) - 1 /\ Tail(s)[i] = s[i + 1] /\ Len(s) \in Nat
    BY <1>3, <2>1, HeadTailProperties, LenProperties
  <2>3. i + 1 \in DOMAIN s
    BY <2>2, LenProperties
  <2>4. QED
    BY <2>1, <2>2, <2>3 DEF In
<1>4. QED
  BY <1>1, <1>2, <1>3

\* Jobs come to the queues by PushCount alone.
LEMMA LiveOnlyFalls ==
    ASSUME TypeOK, NEW t \in Threads,
           \/ PushFirst(t) \/ PushLater(t) \/ PushExecute(t) \/ PushGlobal(t)
           \/ ExecStep(t)
    PROVE  \A j : IsLive(j)' => IsLive(j)
<1> USE DEF TypeOK
<1>1. CASE PushFirst(t) \/ PushLater(t)
  <2>1. pushTo[t] \in Queues /\ pushJob[t] \in Jobs /\ pushPc[t] \in {"first", "later"}
    BY <1>1 DEF PushFirst, PushLater
  <2>2. /\ jobs' = [jobs EXCEPT ![pushTo[t]] = Append(@, pushJob[t])] /\ batch' = batch
        /\ \A u \in Threads : pushPc'[u] \in {"first", "later"} =>
               u # t /\ pushPc'[u] = pushPc[u] /\ pushJob'[u] = pushJob[u]
    BY <1>1 DEF PushFirst, PushLater, AppendJob, ClearFrame, execVars
  <2>3. \A q \in Queues : \A j : In(j, jobs'[q]) => In(j, jobs[q]) \/ j = pushJob[t]
    BY <2>1, <2>2, InSequences
  <2>4. QED
    BY <2>1, <2>2, <2>3 DEF IsLive
<1>2. CASE PushExecute(t) \/ PushGlobal(t)
  <2>1. /\ jobs' = jobs /\ batch' = batch
        /\ \A u \in Threads : pushPc'[u] \in {"first", "later"} =>
               pushPc'[u] = pushPc[u] /\ pushJob'[u] = pushJob[u]
    BY <1>2 DEF PushExecute, PushGlobal, ClearFrame, execVars
  <2>2. QED
    BY <2>1 DEF IsLive
<1>3. CASE PopAll(t)
  <2>1. LCurrentJobQueue[t] \in Queues
    BY <1>3 DEF PopAll
  <2>2. /\ \A u \in Threads : batch'[u] = batch[u] \/ batch'[u] = jobs[LCurrentJobQueue[t]]
        /\ \A q \in Queues : jobs'[q] = jobs[q] \/ jobs'[q] = <<>>
        /\ pushPc' = pushPc /\ pushJob' = pushJob
    BY <1>3 DEF PopAll, pushVars
  <2>3. \A j : ~In(j, <<>>)
    BY DEF In
  <2>4. QED
    BY <2>1, <2>2, <2>3 DEF IsLive
<1>4. CASE EndJob(t)
  <2>1. batch[t] \in Seq(Jobs) /\ batch[t] # <<>>
    BY <1>4 DEF EndJob
  <2>2. \A j : In(j, Tail(batch[t])) => In(j, batch[t])
    <3>1. Head(batch[t]) \in Jobs
      BY <2>1
    <3>2. QED
      BY <2>1, <3>1, InSequences
  <2>3. /\ \A u \in Threads : batch'[u] = IF u = t THEN Tail(batch[t]) ELSE batch[u]
        /\ jobs' = jobs /\ pushPc' = pushPc /\ pushJob' = pushJob
    BY <1>4 DEF EndJob, pushVars
  <2>4. QED
    BY <2>2, <2>3 DEF IsLive
<1>5. CASE PopGlobal(t) \/ StartJob(t) \/ FinishBatch(t) \/ Continue(t) \/ HandOver(t)
  <2>1. batch' = batch /\ jobs' = jobs /\ pushPc' = pushPc /\ pushJob' = pushJob
    BY <1>5 DEF PopGlobal, StartJob, FinishBatch, Continue, HandOver, pushVars
  <2>2. QED
    BY <2>1 DEF IsLive
<1>6. QED
  BY <1>1, <1>2, <1>3, <1>4, <1>5 DEF ExecStep

\* PushCount brings the job it pushes.
LEMMA LiveRises ==
    ASSUME TypeOK, NEW t \in Threads, NEW q \in Queues, NEW p \in Jobs, NEW only \in BOOLEAN,
           PushCount(t, q, p, only)
    PROVE  \A j : IsLive(j)' => IsLive(j) \/ j = p
<1>1. /\ batch' = batch /\ jobs' = jobs
      /\ \A u \in Threads : pushJob'[u] = IF u = t THEN p ELSE pushJob[u]
      /\ \A u \in Threads : u # t => pushPc'[u] = pushPc[u]
  BY DEF PushCount, TypeOK, execVars
<1>2. QED
  BY <1>1 DEF IsLive

\* ItemsOnce holds on if neither the timer nor the queues get anything new.
LEMMA NothingNew ==
    ASSUME ItemsOnce, UNCHANGED timerVars, \A j : IsLive(j)' => IsLive(j)
    PROVE  ItemsOnce'
BY DEF ItemsOnce, IsItem, timerVars

\* An item moves from the timer's heap to the list of the distributor and to its
\* queue; a job is pushed, or reserved, when it is nowhere else.
LEMMA ItemsOnceStep ==
    ASSUME TypeOK, OneDistributor, ItemsOnce, [SchedNext]_allVars
    PROVE  ItemsOnce'
<1> USE DEF OneDistributor
<1>1. JobsAgree /\ JobsAgree'
  BY JobsAgreeAlways, PTL
<1>2. (UNCHANGED vars) => \A j : IsLive(j)' <=> IsLive(j)
  BY DEF vars, pushVars, execVars, IsLive, In
<1>3. ASSUME NEW t \in Threads, CallPush(t)
      PROVE  ItemsOnce'
  <2>1. PICK q \in Queues, p \in Jobs : p \notin TimerJobs /\ PushCount(t, q, p, FALSE)
    BY <1>3 DEF CallPush
  <2>2. \A j : IsLive(j)' => IsLive(j) \/ j = p
    BY <2>1, LiveRises
  <2>3. \A i \in TimerItems : IsItem(i) => i.job # p
    BY <1>1, <2>1 DEF JobsAgree
  <2>4. UNCHANGED timerVars
    BY <1>3 DEF CallPush, schedVars
  <2>5. QED
    BY <2>2, <2>3, <2>4 DEF ItemsOnce, IsItem, timerVars
<1>4. ASSUME NEW t \in Threads, Reserve(t)
      PROVE  ItemsOnce'
  <2>1. PICK q \in Queues, p \in Jobs :
            /\ p \notin TimerJobs /\ p \notin LiveJobs
            /\ waiting' = waiting \cup {[queue |-> q, job |-> p]}
    BY <1>4 DEF Reserve
  <2> DEFINE new == [queue |-> q, job |-> p]
  <2>2. new \in TimerItems /\ new.job = p
    BY DEF TimerItems
  <2>3. \A i \in TimerItems : IsItem(i) => i.job # p
    BY <1>1, <2>1 DEF JobsAgree
  <2>4. due' = due /\ items' = items /\ waiting' = waiting \cup {new} /\ UNCHANGED vars
    BY <1>4, <2>1 DEF Reserve
  <2>5. ~IsLive(p)
    BY <1>1, <2>1 DEF JobsAgree
  <2>6. ~IsItem(new)
    BY <2>2, <2>3
  <2>7. \A i : IsItem(i)' <=> IsItem(i) \/ i = new
    BY <2>4 DEF IsItem
  <2> HIDE DEF new
  <2>8. /\ waiting' \cap due' = {}
        /\ \A u \in Threads : items'[u] \cap (waiting' \cup due') = {}
    BY <2>4, <2>6 DEF ItemsOnce, IsItem
  <2>9. \A i, k \in TimerItems : IsItem(i)' /\ IsItem(k)' /\ i.job = k.job => i = k
    BY <2>2, <2>3, <2>7 DEF ItemsOnce
  <2>10. \A i \in TimerItems : IsItem(i)' => ~IsLive(i.job)'
    BY <1>2, <2>2, <2>4, <2>5, <2>7 DEF ItemsOnce
  <2>11. QED
    BY <2>8, <2>9, <2>10 DEF ItemsOnce
<1>5. ASSUME NEW t \in Threads,
             \/ DispatchEnd(t) \/ DistributeBegin(t) \/ DistributeEnd(t)
             \/ LoopEnd(t) \/ Tick(t)
      PROVE  ItemsOnce'
  <2>1. UNCHANGED <<vars, waiting, due, items>>
    BY <1>5 DEF DispatchEnd, DistributeBegin, DistributeEnd, LoopEnd, Tick, timerVars
  <2>2. QED
    BY <1>2, <2>1 DEF ItemsOnce, IsItem
<1>6. ASSUME NEW t \in Threads, TakeDue(t)
      PROVE  ItemsOnce'
  <2>1. items[t] = {}
    BY <1>6 DEF TakeDue, SchedTypeOK
  <2>2. /\ UNCHANGED <<vars, waiting>> /\ due' = {}
        /\ \A u \in Threads : items'[u] = IF u = t THEN due ELSE items[u]
    BY <1>6 DEF TakeDue, SchedTypeOK
  <2>3. \A i : IsItem(i)' <=> IsItem(i)
    BY <2>1, <2>2 DEF IsItem
  <2>4. QED
    BY <1>2, <2>2, <2>3 DEF ItemsOnce
<1>7. ASSUME NEW t \in Threads, PushTimer(t)
      PROVE  ItemsOnce'
  <2>1. PICK i \in items[t] : /\ PushCount(t, i.queue, i.job, TRUE)
                              /\ items' = [items EXCEPT ![t] = @ \ {i}]
    BY <1>7 DEF PushTimer
  <2>2. i \in TimerItems /\ i.queue \in Queues /\ i.job \in Jobs /\ IsItem(i)
    BY DEF SchedTypeOK, TimerItems, IsItem
  <2>3. \A j : IsLive(j)' => IsLive(j) \/ j = i.job
    BY <2>1, <2>2, LiveRises
  <2>4. /\ UNCHANGED <<waiting, due>>
        /\ \A u \in Threads : items'[u] = IF u = t THEN items[u] \ {i} ELSE items[u]
    BY <1>7, <2>1 DEF PushTimer, SchedTypeOK
  <2>5. \A u \in Threads : u # t => i \notin items[u]
    <3>1. \A u \in Threads : items[u] # {} => phase[u] = "push"
      BY DEF SchedTypeOK
    <3>2. QED
      BY <2>1, <3>1
  <2>6. \A k : IsItem(k)' => IsItem(k) /\ k # i
    BY <2>4, <2>5 DEF IsItem, ItemsOnce
  <2>7. QED
    BY <2>2, <2>3, <2>4, <2>6 DEF ItemsOnce
<1>8. ASSUME NEW t \in Threads,
             QueueStep(t) \/ JobEnds(t) \/ GlobalWork(t) \/ ContinueInTime(t) \/ HandOverLate(t)
      PROVE  ItemsOnce'
  <2>1. /\ UNCHANGED timerVars
        /\ \/ PushFirst(t) \/ PushLater(t) \/ PushExecute(t) \/ PushGlobal(t)
           \/ ExecStep(t)
    BY <1>8 DEF QueueStep, JobEnds, GlobalWork, ContinueInTime, HandOverLate, schedVars,
                ExecStep
  <2>2. QED
    BY <2>1, LiveOnlyFalls, NothingNew
<1>9. ASSUME NEW i \in TimerItems, BecomeDue(i)
      PROVE  ItemsOnce'
  <2>1. /\ i \in waiting /\ waiting' = waiting \ {i} /\ due' = due \cup {i}
        /\ UNCHANGED <<vars, items>>
    BY <1>9 DEF BecomeDue
  <2>2. \A k : IsItem(k)' <=> IsItem(k)
    BY <2>1 DEF IsItem
  <2>3. QED
    BY <1>2, <2>1, <2>2 DEF ItemsOnce
<1>10. ASSUME UNCHANGED allVars
       PROVE  ItemsOnce'
  BY <1>2, <1>10, NothingNew DEF allVars, schedVars
<1>11. QED
  BY <1>3, <1>4, <1>5, <1>6, <1>7, <1>8, <1>9, <1>10 DEF SchedNext, LoopStep

\* A job is held by the timer or by the queues, never by both: it is not pushed
\* while an item still has it, and no item is pushed twice.
THEOREM TimerJobsOnce == SchedSpec => []TimerJobOnce
<1>1. SchedInit => ItemsOnce
  BY DEF SchedInit, Init, ItemsOnce, IsItem
<1>2. TypeOK /\ OneDistributor /\ ItemsOnce /\ [SchedNext]_allVars => ItemsOnce'
  BY ItemsOnceStep
<1>3. OneDistributor /\ ItemsOnce => TimerJobOnce
  BY JobsAgreeAlways DEF OneDistributor, JobsAgree, ItemsOnce, TimerJobOnce
<1>4. SchedSpec => []TypeOK
  BY SchedulerTakesSteps, TypeCorrect, PTL
<1>5. QED
  BY <1>1, <1>2, <1>3, <1>4, DistributorAlone, PTL DEF SchedSpec

\* Whatever worker executes a queue, its jobs run one at a time and in order.
THEOREM SchedulerSerial == SchedSpec => ImplementsSerialQueue
BY SchedulerTakesSteps, JobQueueImplementsSerial, PTL

===============================================================================
