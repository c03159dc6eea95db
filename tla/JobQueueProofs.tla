---------------------------- MODULE JobQueueProofs ----------------------------
(***************************************************************************)
(* Proofs about JobQueue for any finite set of threads and any sets of      *)
(* queues and jobs.                                                         *)
(***************************************************************************)
EXTENDS JobQueue, FiniteSetTheorems, SequenceTheorems, TLAPS

-------------------------------------------------------------------------------
(* Type correctness *)

\* The variables have their types in the initial state.
LEMMA InitType == Init => TypeOK
BY NullAssumption DEF Init, TypeOK, PushPcs, ExecPcs

\* Every step of Push keeps the types.
LEMMA PushStepType ==
    ASSUME TypeOK, NEW t \in Threads, PushStep(t)
    PROVE  TypeOK'
<1>1. ASSUME NEW q \in Queues, NEW j \in Jobs, NEW only \in BOOLEAN,
             PushCount(t, q, j, only)
      PROVE  TypeOK'
  BY <1>1, NullAssumption
     DEF TypeOK, PushCount, MayPush, execVars, PushPcs, ExecPcs
<1>2. ASSUME AppendJob(t), pushPc[t] # "none"
      PROVE  jobs' \in [Queues -> Seq(Jobs)]
  <2>1. pushTo[t] \in Queues /\ pushJob[t] \in Jobs
    BY <1>2 DEF AppendJob, TypeOK
  <2>2. QED
    BY <1>2, <2>1 DEF AppendJob, TypeOK
<1>3. CASE PushFirst(t)
  BY <1>2, <1>3, NullAssumption
     DEF TypeOK, PushFirst, AppendJob, execVars, PushPcs, ExecPcs
<1>4. CASE PushLater(t)
  BY <1>2, <1>4, NullAssumption
     DEF TypeOK, PushLater, AppendJob, ClearFrame, execVars, PushPcs, ExecPcs
<1>5. CASE PushExecute(t)
  BY <1>5, NullAssumption DEF TypeOK, PushExecute, ClearFrame, PushPcs, ExecPcs
<1>6. CASE PushGlobal(t)
  BY <1>6, NullAssumption
     DEF TypeOK, PushGlobal, ClearFrame, execVars, PushPcs, ExecPcs
<1>7. QED
  BY <1>1, <1>3, <1>4, <1>5, <1>6 DEF PushStep

\* Every step of Execute keeps the types.
LEMMA ExecStepType ==
    ASSUME TypeOK, NEW t \in Threads, ExecStep(t)
    PROVE  TypeOK'
<1>1. CASE PopGlobal(t)
  BY <1>1, NullAssumption DEF TypeOK, PopGlobal, pushVars, PushPcs, ExecPcs
<1>2. CASE PopAll(t)
  <2>1. LCurrentJobQueue[t] \in Queues
    BY <1>2 DEF PopAll, TypeOK
  <2>2. QED
    BY <1>2, <2>1, NullAssumption DEF TypeOK, PopAll, pushVars, PushPcs, ExecPcs
<1>3. CASE StartJob(t)
  BY <1>3, NullAssumption DEF TypeOK, StartJob, pushVars, PushPcs, ExecPcs
<1>4. CASE EndJob(t)
  <2>1. Tail(batch[t]) \in Seq(Jobs)
    BY <1>4 DEF EndJob, TypeOK
  <2>2. batch' \in [Threads -> Seq(Jobs)]
    BY <1>4, <2>1 DEF EndJob, TypeOK
  <2>3. QED
    BY <1>4, <2>2, NullAssumption DEF TypeOK, EndJob, pushVars, PushPcs, ExecPcs
<1>5. CASE FinishBatch(t)
  <2>1. LCurrentJobQueue[t] \in Queues
    BY <1>5 DEF FinishBatch, TypeOK
  <2>2. jobCount' \in [Queues -> Int]
    BY <1>5, <2>1 DEF TypeOK, FinishBatch
  <2>3. batchCount' \in [Threads -> Nat] /\ batch[t] = <<>> /\ execPc[t] = "run"
    BY <1>5 DEF TypeOK, FinishBatch
  <2>4. CASE jobCount[LCurrentJobQueue[t]] = batchCount[t]
    <3>1. execPc' = [execPc EXCEPT ![t] = "none"]
            /\ LCurrentJobQueue' = [LCurrentJobQueue EXCEPT ![t] = NoQueue]
      BY <1>5, <2>4 DEF FinishBatch
    <3>2. UNCHANGED <<jobs, globalQueue, pushVars, batch, dropped>>
      BY <1>5 DEF FinishBatch
    <3>3. QED
      BY <2>2, <2>3, <3>1, <3>2, NullAssumption DEF TypeOK, pushVars, PushPcs, ExecPcs
  <2>5. CASE jobCount[LCurrentJobQueue[t]] # batchCount[t]
    <3>1. execPc' = [execPc EXCEPT ![t] = "check"] /\ UNCHANGED LCurrentJobQueue
      BY <1>5, <2>5 DEF FinishBatch
    <3>2. UNCHANGED <<jobs, globalQueue, pushVars, batch, dropped>>
      BY <1>5 DEF FinishBatch
    <3>3. QED
      BY <2>1, <2>2, <2>3, <3>1, <3>2, NullAssumption
         DEF TypeOK, pushVars, PushPcs, ExecPcs
  <2>6. QED
    BY <2>4, <2>5
<1>6. CASE Continue(t)
  BY <1>6, NullAssumption DEF TypeOK, Continue, pushVars, PushPcs, ExecPcs
<1>7. CASE HandOver(t)
  BY <1>7, NullAssumption DEF TypeOK, HandOver, pushVars, PushPcs, ExecPcs
<1>8. QED
  BY <1>1, <1>2, <1>3, <1>4, <1>5, <1>6, <1>7 DEF ExecStep

\* Clearing a queue keeps the types.
LEMMA ClearJobsType ==
    ASSUME TypeOK, NEW q \in Queues, ClearJobs(q)
    PROVE  TypeOK'
<1>1. Len(jobs[q]) \in Nat
  BY DEF TypeOK
<1>2. QED
  BY <1>1, NullAssumption DEF TypeOK, ClearJobs, pushVars, execVars, PushPcs, ExecPcs

\* The types hold in every reachable state.
THEOREM TypeCorrect == Spec => []TypeOK
<1>1. TypeOK /\ [Next]_vars => TypeOK'
  <2> SUFFICES ASSUME TypeOK, [Next]_vars
               PROVE  TypeOK'
    OBVIOUS
  <2>1. CASE UNCHANGED vars
    BY <2>1 DEF TypeOK, vars, pushVars, execVars
  <2>2. QED
    BY <2>1, PushStepType, ExecStepType, ClearJobsType DEF Next
<1>2. QED
  BY <1>1, InitType, PTL DEF Spec

-------------------------------------------------------------------------------
(* What the count stands for *)

\* The pushers on their way to a queue are finitely many.
LEMMA CountedFinite ==
    ASSUME NEW q \in Queues
    PROVE  IsFiniteSet(Counted(q)) /\ Cardinality(Counted(q)) \in Nat
<1>1. Counted(q) \subseteq Threads
  BY DEF Counted
<1>2. QED
  BY <1>1, ThreadsAssumption, FS_Subset, FS_CardinalityType

\* The jobs nobody has taken are at least those in the queue.
LEMMA BaseType ==
    ASSUME TypeOK, NEW q \in Queues
    PROVE  Base(q) \in Nat /\ Base(q) >= Len(jobs[q]) /\ Len(jobs[q]) \in Nat
<1>1. Len(jobs[q]) \in Nat /\ dropped[q] \in Nat
  BY DEF TypeOK
<1>2. QED
  BY <1>1, CountedFinite DEF Base

\* A step that moves neither jobs nor announced pushers keeps what they sum to.
LEMMA BaseSame ==
    ASSUME NEW q \in Queues, UNCHANGED <<jobs, dropped>>, Counted(q)' = Counted(q)
    PROVE  Base(q)' = Base(q)
BY DEF Base

\* fetch_add announces one job more.
LEMMA BasePushCount ==
    ASSUME TypeOK, NEW t \in Threads, NEW q \in Queues, NEW j \in Jobs,
           NEW only \in BOOLEAN, PushCount(t, q, j, only), NEW p \in Queues
    PROVE  Base(p)' = IF p = q THEN Base(p) + 1 ELSE Base(p)
<1>1. CASE p = q
  <2>1. t \notin Counted(p) /\ Counted(p)' = Counted(p) \cup {t}
    BY <1>1 DEF PushCount, MayPush, Counted, TypeOK
  <2>2. Cardinality(Counted(p)') = Cardinality(Counted(p)) + 1
    BY <2>1, CountedFinite, FS_AddElement
  <2>3. Len(jobs[p]) \in Nat /\ dropped[p] \in Nat /\ UNCHANGED <<jobs, dropped>>
    BY DEF TypeOK, PushCount
  <2>4. QED
    BY <1>1, <2>2, <2>3, CountedFinite DEF Base
<1>2. CASE p # q
  <2>1. Counted(p)' = Counted(p)
    BY <1>2, NullAssumption DEF PushCount, MayPush, Counted, TypeOK
  <2>2. QED
    BY <1>2, <2>1, BaseSame DEF PushCount
<1>3. QED
  BY <1>1, <1>2

\* The push under the lock turns an announced job into a queued one.
LEMMA BaseAppendJob ==
    ASSUME TypeOK, NEW t \in Threads, pushPc[t] \in {"first", "later"}, AppendJob(t),
           \/ pushPc' = [pushPc EXCEPT ![t] = "queued"] /\ UNCHANGED pushTo
           \/ ClearFrame(t),
           NEW p \in Queues
    PROVE  Base(p)' = Base(p)
<1>1. pushTo[t] \in Queues /\ pushJob[t] \in Jobs
  BY DEF AppendJob, TypeOK
<1>2. CASE p = pushTo[t]
  <2>1. t \in Counted(p) /\ Counted(p)' = Counted(p) \ {t}
    BY <1>1, <1>2, NullAssumption DEF AppendJob, ClearFrame, Counted, TypeOK
  <2>2. Cardinality(Counted(p)') = Cardinality(Counted(p)) - 1
    BY <2>1, CountedFinite, FS_RemoveElement
  <2>3. Len(jobs'[p]) = Len(jobs[p]) + 1 /\ Len(jobs[p]) \in Nat
    BY <1>1, <1>2 DEF AppendJob, TypeOK
  <2>4. dropped[p] \in Nat /\ UNCHANGED dropped
    BY DEF AppendJob, TypeOK
  <2>5. Cardinality(Counted(p)) \in Nat
    BY CountedFinite
  <2>6. Base(p)' = Len(jobs'[p]) + dropped'[p] + Cardinality(Counted(p)')
    BY DEF Base
  <2>7. QED
    BY <2>2, <2>3, <2>4, <2>5, <2>6 DEF Base
<1>3. CASE p # pushTo[t]
  <2>1. Counted(p)' = Counted(p)
    BY <1>1, <1>3, NullAssumption DEF AppendJob, ClearFrame, Counted, TypeOK
  <2>2. jobs'[p] = jobs[p] /\ UNCHANGED dropped
    BY <1>3 DEF AppendJob, TypeOK
  <2>3. QED
    BY <2>1, <2>2 DEF Base
<1>4. QED
  BY <1>2, <1>3

-------------------------------------------------------------------------------
(* Every step preserves the inductive invariant *)

\* Initially nobody is responsible for anything and all counts are zero.
LEMMA InitInvariant == Init => IInv
<1> SUFFICES ASSUME Init
             PROVE  IInv
  OBVIOUS
<1>1. TypeOK
  BY InitType
<1>2. ASSUME NEW t \in Threads, NEW q \in Queues
      PROVE  ~Executes(t, q) /\ ~PushesFirst(t, q)
  BY NullAssumption DEF Init, Executes, PushesFirst
<1>3. DOMAIN globalQueue = {}
  BY DEF Init
<1>4. Frames
  BY DEF Init, Frames
<1>5. Exclusive
  BY <1>2, <1>3
     DEF Exclusive, ExecutorsDiffer, PushersDiffer, ExecutorNoPusher, EntriesDiffer,
         EntriesFree
<1>6. HeldIffCounted
  BY <1>2, <1>3 DEF Init, HeldIffCounted, IsHeld
<1>7. ASSUME NEW q \in Queues
      PROVE  Base(q) = 0
  <2>1. Counted(q) = {}
    BY DEF Init, Counted
  <2>2. Cardinality(Counted(q)) = 0
    BY <2>1, FS_EmptySet
  <2>3. QED
    BY <2>2 DEF Base, Init
<1>8. CountBalance
  BY <1>2, <1>7 DEF Init, CountBalance
<1>9. QED
  BY <1>1, <1>4, <1>5, <1>6, <1>8 DEF IInv

\* The count is never negative.
LEMMA CountNatural ==
    ASSUME IInv, NEW q \in Queues
    PROVE  jobCount[q] \in Nat
<1> USE DEF IInv
<1>1. CASE \E u \in Threads : Executes(u, q)
  <2>1. PICK u \in Threads : Executes(u, q)
    BY <1>1
  <2>2. jobCount[q] = Base(q) + batchCount[u]
    BY <2>1 DEF CountBalance
  <2>3. batchCount[u] \in Nat
    BY DEF TypeOK
  <2>4. QED
    BY <2>2, <2>3, BaseType
<1>2. CASE \A u \in Threads : ~Executes(u, q)
  <2>1. jobCount[q] = Base(q)
    BY <1>2 DEF CountBalance
  <2>2. QED
    BY <2>1, BaseType
<1>3. QED
  BY <1>1, <1>2

\* fetch_add: the thread that saw zero becomes responsible, and nobody was.
LEMMA PushCountInvariant ==
    ASSUME IInv, NEW t \in Threads, NEW q \in Queues, NEW j \in Jobs,
           NEW only \in BOOLEAN, PushCount(t, q, j, only)
    PROVE  IInv'
<1> USE DEF IInv
<1>1. TypeOK'
  BY PushStepType DEF PushStep
<1>2. Frames'
  BY DEF TypeOK, Frames, PushCount, MayPush, execVars
<1>3. \A p \in Queues : jobCount[p] \in Nat
  BY CountNatural
<1>4. UNCHANGED <<LCurrentJobQueue, globalQueue, batchCount>>
  BY DEF PushCount, execVars
<1>5. jobCount[q] = 0 => ~IsHeld(q)
  BY DEF HeldIffCounted
<1>6. ASSUME NEW u \in Threads, NEW p \in Queues
      PROVE  PushesFirst(u, p)' <=>
               PushesFirst(u, p) \/ (u = t /\ p = q /\ jobCount[q] = 0)
  BY NullAssumption DEF TypeOK, PushesFirst, PushCount, MayPush
<1>7. Exclusive'
  <2>1. ExecutorsDiffer'
    BY <1>4 DEF Exclusive, ExecutorsDiffer, Executes
  <2>2. PushersDiffer'
    BY <1>5, <1>6 DEF Exclusive, PushersDiffer, IsHeld
  <2>3. ExecutorNoPusher'
    BY <1>4, <1>5, <1>6 DEF Exclusive, ExecutorNoPusher, IsHeld, Executes
  <2>4. EntriesDiffer'
    BY <1>4 DEF Exclusive, EntriesDiffer
  <2>5. EntriesFree'
    BY <1>4, <1>5, <1>6 DEF TypeOK, Exclusive, EntriesFree, IsHeld, Executes
  <2>6. QED
    BY <2>1, <2>2, <2>3, <2>4, <2>5 DEF Exclusive
<1>8. HeldIffCounted'
  <2>1. jobCount' = [jobCount EXCEPT ![q] = @ + 1]
    BY DEF PushCount
  <2>2. ASSUME NEW p \in Queues
        PROVE  IsHeld(p)' <=> IsHeld(p) \/ (p = q /\ jobCount[q] = 0)
    BY <1>4, <1>6 DEF IsHeld, Executes
  <2>3. QED
    BY <1>3, <2>1, <2>2 DEF HeldIffCounted, TypeOK
<1>9. CountBalance'
  <2>1. ASSUME NEW p \in Queues
        PROVE  /\ Base(p)' = IF p = q THEN Base(p) + 1 ELSE Base(p)
               /\ jobCount'[p] = IF p = q THEN jobCount[p] + 1 ELSE jobCount[p]
               /\ Base(p) \in Nat
    BY BasePushCount, BaseType DEF PushCount, TypeOK
  <2>2. \A u \in Threads : batchCount[u] \in Nat
    BY DEF TypeOK
  <2>3. QED
    BY <1>3, <1>4, <2>1, <2>2 DEF CountBalance, Executes
<1>10. QED
  BY <1>1, <1>2, <1>7, <1>8, <1>9

\* The push into the queue changes neither the count nor who is responsible.
LEMMA AppendInvariant ==
    ASSUME IInv, NEW t \in Threads, PushFirst(t) \/ PushLater(t)
    PROVE  IInv'
<1> USE DEF IInv
<1>1. TypeOK'
  BY PushStepType DEF PushStep
<1>2. Frames'
  BY DEF TypeOK, Frames, PushFirst, PushLater, AppendJob, ClearFrame, execVars
<1>3. ASSUME NEW u \in Threads, NEW q \in Queues
      PROVE  PushesFirst(u, q)' <=> PushesFirst(u, q)
  BY NullAssumption
     DEF TypeOK, PushesFirst, PushFirst, PushLater, AppendJob, ClearFrame
<1>4. UNCHANGED <<LCurrentJobQueue, batchCount, jobCount, globalQueue>>
  BY DEF PushFirst, PushLater, AppendJob, execVars
<1>5. Exclusive'
  BY <1>3, <1>4
     DEF TypeOK, Exclusive, ExecutorsDiffer, PushersDiffer, ExecutorNoPusher,
         EntriesDiffer, EntriesFree, Executes
<1>6. HeldIffCounted'
  BY <1>3, <1>4 DEF HeldIffCounted, IsHeld, Executes
<1>7. ASSUME NEW q \in Queues
      PROVE  Base(q)' = Base(q)
  BY BaseAppendJob DEF PushFirst, PushLater
<1>8. CountBalance'
  BY <1>4, <1>7 DEF CountBalance, Executes
<1>9. QED
  BY <1>1, <1>2, <1>5, <1>6, <1>8

\* The first pusher becomes the executor.
LEMMA PushExecuteInvariant ==
    ASSUME IInv, NEW t \in Threads, PushExecute(t)
    PROVE  IInv'
<1> USE DEF IInv
<1>1. TypeOK'
  BY PushStepType DEF PushStep
<1>2. Frames'
  BY DEF TypeOK, Frames, PushExecute, ClearFrame
<1> DEFINE q == pushTo[t]
<1>3. q \in Queues /\ batchCount[t] = 0 /\ PushesFirst(t, q)
  BY DEF TypeOK, Frames, PushExecute, PushesFirst
<1>4. UNCHANGED <<jobCount, globalQueue, batchCount>>
  BY DEF PushExecute
<1>5. ASSUME NEW u \in Threads, NEW p \in Queues
      PROVE  /\ PushesFirst(u, p)' <=> PushesFirst(u, p) /\ u # t
             /\ Executes(u, p)' <=> Executes(u, p) \/ (u = t /\ p = q)
  BY <1>3, NullAssumption DEF TypeOK, PushesFirst, Executes, PushExecute, ClearFrame
<1>6. Exclusive'
  <2>1. ExecutorsDiffer'
    BY <1>3, <1>5 DEF Exclusive, ExecutorsDiffer, ExecutorNoPusher
  <2>2. PushersDiffer'
    BY <1>5 DEF Exclusive, PushersDiffer
  <2>3. ExecutorNoPusher'
    BY <1>3, <1>5 DEF Exclusive, ExecutorNoPusher, PushersDiffer
  <2>4. EntriesDiffer'
    BY <1>4 DEF Exclusive, EntriesDiffer
  <2>5. ASSUME NEW i \in DOMAIN globalQueue, NEW u \in Threads
        PROVE  ~Executes(u, globalQueue[i])' /\ ~PushesFirst(u, globalQueue[i])'
    <3>1. globalQueue[i] \in Queues /\ UNCHANGED globalQueue[i]
      BY <1>4 DEF TypeOK
    <3>2. globalQueue[i] # q
      BY <1>3 DEF Exclusive, EntriesFree
    <3>3. QED
      BY <1>4, <1>5, <3>1, <3>2 DEF Exclusive, EntriesFree, Executes, PushesFirst
  <2>6. QED
    BY <1>4, <2>1, <2>2, <2>3, <2>4, <2>5
       DEF Exclusive, EntriesFree, Executes, PushesFirst
<1>7. HeldIffCounted'
  <2>1. ASSUME NEW p \in Queues
        PROVE  IsHeld(p)' <=> IsHeld(p)
    <3>1. PushesFirst(t, p) => p = q
      BY DEF PushesFirst
    <3>2. QED
      BY <1>3, <1>4, <1>5, <3>1 DEF IsHeld
  <2>2. QED
    BY <1>4, <2>1 DEF HeldIffCounted
<1>8. CountBalance'
  <2>1. ASSUME NEW p \in Queues
        PROVE  Base(p)' = Base(p) /\ Base(p) \in Nat
    <3>1. Counted(p)' = Counted(p)
      BY NullAssumption DEF TypeOK, Counted, PushExecute, ClearFrame
    <3>2. QED
      BY <3>1, BaseSame, BaseType DEF PushExecute
  <2>2. \A u \in Threads : ~Executes(u, q)
    BY <1>3 DEF Exclusive, ExecutorNoPusher
  <2>3. QED
    BY <1>3, <1>4, <1>5, <2>1, <2>2 DEF CountBalance
<1>9. QED
  BY <1>1, <1>2, <1>6, <1>7, <1>8

\* What a push on GGlobalQueue does to its entries.
LEMMA EntryAppended ==
    ASSUME TypeOK, NEW q \in Queues, globalQueue' = Append(globalQueue, q),
           NEW n, n = Len(globalQueue) + 1
    PROVE  /\ n \notin DOMAIN globalQueue
           /\ DOMAIN globalQueue' = DOMAIN globalQueue \cup {n}
           /\ globalQueue'[n] = q
           /\ \A i \in DOMAIN globalQueue :
                 globalQueue'[i] = globalQueue[i] /\ globalQueue[i] \in Queues
<1>1. globalQueue \in Seq(Queues)
  BY DEF TypeOK
<1>2. /\ globalQueue' \in Seq(Queues)
      /\ Len(globalQueue') = n
      /\ \A i \in 1 .. Len(globalQueue) : globalQueue'[i] = globalQueue[i]
      /\ globalQueue'[n] = q
  BY <1>1, AppendProperties
<1>3. /\ DOMAIN globalQueue = 1 .. Len(globalQueue)
      /\ DOMAIN globalQueue' = 1 .. n
      /\ Len(globalQueue) \in Nat
  BY <1>1, <1>2, LenProperties
<1>4. \A i \in DOMAIN globalQueue : globalQueue[i] \in Queues
  BY <1>1, <1>3, ElementOfSeq
<1>5. QED
  BY <1>2, <1>3, <1>4

\* What a pop from GGlobalQueue does to its entries.
LEMMA EntryPopped ==
    ASSUME TypeOK, globalQueue # <<>>, globalQueue' = Tail(globalQueue)
    PROVE  /\ 1 \in DOMAIN globalQueue
           /\ Head(globalQueue) = globalQueue[1] /\ globalQueue[1] \in Queues
           /\ \A i \in DOMAIN globalQueue' :
                 /\ i \in Nat /\ i # 0 /\ i + 1 \in DOMAIN globalQueue
                 /\ globalQueue'[i] = globalQueue[i + 1]
                 /\ globalQueue[i + 1] \in Queues
           /\ \A i \in DOMAIN globalQueue :
                 i # 1 => \E k \in DOMAIN globalQueue' : globalQueue'[k] = globalQueue[i]
<1>1. globalQueue \in Seq(Queues)
  BY DEF TypeOK
<1>2. /\ globalQueue' \in Seq(Queues)
      /\ Len(globalQueue') = Len(globalQueue) - 1
      /\ \A i \in 1 .. Len(globalQueue') : globalQueue'[i] = globalQueue[i + 1]
  BY <1>1, HeadTailProperties
<1>3. /\ DOMAIN globalQueue = 1 .. Len(globalQueue)
      /\ DOMAIN globalQueue' = 1 .. Len(globalQueue')
      /\ Len(globalQueue) \in Nat \ {0}
  BY <1>1, <1>2, LenProperties, EmptySeq
<1>4. \A i \in DOMAIN globalQueue : globalQueue[i] \in Queues
  BY <1>1, <1>3, ElementOfSeq
<1>5. 1 \in DOMAIN globalQueue /\ Head(globalQueue) = globalQueue[1]
  BY <1>1, <1>3
<1>6. \A i \in DOMAIN globalQueue' :
         i \in Nat /\ i # 0 /\ i + 1 \in DOMAIN globalQueue
  BY <1>2, <1>3
<1>7. ASSUME NEW i \in DOMAIN globalQueue, i # 1
      PROVE  \E k \in DOMAIN globalQueue' : globalQueue'[k] = globalQueue[i]
  <2>1. i - 1 \in 1 .. Len(globalQueue') /\ (i - 1) + 1 = i
    BY <1>2, <1>3, <1>7
  <2>2. globalQueue'[i - 1] = globalQueue[i]
    BY <1>2, <2>1
  <2>3. QED
    BY <1>3, <2>1, <2>2
<1>8. QED
  BY <1>2, <1>3, <1>4, <1>5, <1>6, <1>7

\* The first pusher leaves the queue to GGlobalQueue.
LEMMA PushGlobalInvariant ==
    ASSUME IInv, NEW t \in Threads, PushGlobal(t)
    PROVE  IInv'
<1> USE DEF IInv
<1>1. TypeOK'
  BY PushStepType DEF PushStep
<1>2. Frames'
  BY DEF TypeOK, Frames, PushGlobal, ClearFrame, execVars
<1>q. PICK q \in Queues : q = pushTo[t]
  BY DEF TypeOK, PushGlobal
<1> DEFINE n == Len(globalQueue) + 1
<1>3. PushesFirst(t, q)
  BY <1>q DEF PushGlobal, PushesFirst
<1>4. UNCHANGED <<jobCount, LCurrentJobQueue, batchCount>>
  BY DEF PushGlobal, execVars
<1>5. ASSUME NEW u \in Threads, NEW p \in Queues
      PROVE  /\ PushesFirst(u, p)' <=> PushesFirst(u, p) /\ u # t
             /\ Executes(u, p)' <=> Executes(u, p)
  BY <1>3, <1>4, NullAssumption
     DEF TypeOK, PushesFirst, Executes, PushGlobal, ClearFrame
<1>6. /\ n \notin DOMAIN globalQueue
      /\ DOMAIN globalQueue' = DOMAIN globalQueue \cup {n}
      /\ globalQueue'[n] = q
      /\ \A i \in DOMAIN globalQueue :
            globalQueue'[i] = globalQueue[i] /\ globalQueue[i] \in Queues
  BY <1>q, EntryAppended DEF PushGlobal
<1>7. \A i \in DOMAIN globalQueue : globalQueue[i] # q
  BY <1>3 DEF Exclusive, EntriesFree
<1>8. Exclusive'
  <2>1. ExecutorsDiffer' /\ PushersDiffer' /\ ExecutorNoPusher'
    BY <1>5 DEF Exclusive, ExecutorsDiffer, PushersDiffer, ExecutorNoPusher
  <2>2. EntriesDiffer'
    BY <1>6, <1>7 DEF Exclusive, EntriesDiffer
  <2>3. ASSUME NEW i \in DOMAIN globalQueue', NEW u \in Threads
        PROVE  ~Executes(u, globalQueue[i])' /\ ~PushesFirst(u, globalQueue[i])'
    <3>1. CASE i = n
      <4>1. ~Executes(u, q)' /\ ~PushesFirst(u, q)'
        <5>1. ~Executes(u, q)
          BY <1>3 DEF Exclusive, ExecutorNoPusher
        <5>2. PushesFirst(u, q) => u = t
          BY <1>3 DEF Exclusive, PushersDiffer
        <5>3. QED
          BY <1>3, <1>5, <5>1, <5>2 DEF Executes, PushesFirst
      <4>2. QED
        BY <1>6, <3>1, <4>1 DEF Executes, PushesFirst
    <3>2. CASE i \in DOMAIN globalQueue
      <4>1. globalQueue[i] \in Queues /\ globalQueue'[i] = globalQueue[i]
        BY <1>6, <3>2
      <4>2. ~Executes(u, globalQueue[i]) /\ ~PushesFirst(u, globalQueue[i])
        BY <3>2 DEF Exclusive, EntriesFree
      <4>3. QED
        BY <1>5, <4>1, <4>2 DEF Executes, PushesFirst
    <3>3. QED
      BY <1>6, <3>1, <3>2
  <2>4. QED
    BY <2>1, <2>2, <2>3 DEF Exclusive, EntriesFree
<1>9. HeldIffCounted'
  <2>1. ASSUME NEW p \in Queues
        PROVE  IsHeld(p)' <=> IsHeld(p)
    <3>1. PushesFirst(t, p) => p = q
      BY <1>q DEF PushesFirst
    <3>2. QED
      BY <1>3, <1>5, <1>6, <3>1 DEF IsHeld
  <2>2. QED
    BY <1>4, <2>1 DEF HeldIffCounted
<1>10. CountBalance'
  <2>1. ASSUME NEW p \in Queues
        PROVE  Base(p)' = Base(p)
    <3>1. Counted(p)' = Counted(p)
      BY NullAssumption DEF TypeOK, Counted, PushGlobal, ClearFrame
    <3>2. QED
      BY <3>1, BaseSame DEF PushGlobal
  <2>2. QED
    BY <1>4, <1>5, <2>1 DEF CountBalance
<1>11. QED
  BY <1>1, <1>2, <1>8, <1>9, <1>10

\* A worker takes the queue at the front of GGlobalQueue.
LEMMA PopGlobalInvariant ==
    ASSUME IInv, NEW t \in Threads, PopGlobal(t)
    PROVE  IInv'
<1> USE DEF IInv
<1>1. TypeOK'
  BY ExecStepType DEF ExecStep
<1>2. Frames'
  BY DEF TypeOK, Frames, PopGlobal
<1> DEFINE q == Head(globalQueue)
<1>3. /\ q \in Queues /\ q = globalQueue[1] /\ 1 \in DOMAIN globalQueue
      /\ batchCount[t] = 0
      /\ \A p \in Queues : ~Executes(t, p)
  BY NullAssumption DEF TypeOK, Frames, PopGlobal, Executes
<1>4. UNCHANGED <<jobCount, pushPc, pushTo, batchCount, jobs, dropped>>
  BY DEF PopGlobal, pushVars
<1>5. ASSUME NEW u \in Threads, NEW p \in Queues
      PROVE  /\ PushesFirst(u, p)' <=> PushesFirst(u, p)
             /\ Executes(u, p)' <=> Executes(u, p) \/ (u = t /\ p = q)
  BY <1>3, <1>4 DEF TypeOK, PushesFirst, Executes, PopGlobal
<1>6. /\ \A i \in DOMAIN globalQueue' :
            /\ i + 1 \in DOMAIN globalQueue /\ i # 0 /\ i \in Nat
            /\ globalQueue'[i] = globalQueue[i + 1]
            /\ globalQueue[i + 1] \in Queues
      /\ \A i \in DOMAIN globalQueue :
            i # 1 => \E k \in DOMAIN globalQueue' : globalQueue'[k] = globalQueue[i]
  BY EntryPopped DEF PopGlobal
<1>7. \A u \in Threads : ~Executes(u, q) /\ ~PushesFirst(u, q)
  BY <1>3 DEF Exclusive, EntriesFree
<1>8. Exclusive'
  <2>1. ExecutorsDiffer' /\ PushersDiffer' /\ ExecutorNoPusher'
    BY <1>3, <1>5, <1>7 DEF Exclusive, ExecutorsDiffer, PushersDiffer, ExecutorNoPusher
  <2>2. EntriesDiffer'
    BY <1>6 DEF Exclusive, EntriesDiffer
  <2>3. ASSUME NEW i \in DOMAIN globalQueue', NEW u \in Threads
        PROVE  ~Executes(u, globalQueue[i])' /\ ~PushesFirst(u, globalQueue[i])'
    <3>1. /\ i + 1 \in DOMAIN globalQueue /\ i + 1 # 1
          /\ globalQueue'[i] = globalQueue[i + 1]
          /\ globalQueue[i + 1] \in Queues
      BY <1>6
    <3>2. /\ ~Executes(u, globalQueue[i + 1]) /\ ~PushesFirst(u, globalQueue[i + 1])
          /\ globalQueue[i + 1] # q
      BY <1>3, <3>1 DEF Exclusive, EntriesFree, EntriesDiffer
    <3>3. QED
      BY <1>5, <3>1, <3>2 DEF Executes, PushesFirst
  <2>4. QED
    BY <2>1, <2>2, <2>3 DEF Exclusive, EntriesFree
<1>9. HeldIffCounted'
  <2>1. ASSUME NEW p \in Queues
        PROVE  IsHeld(p)' <=> IsHeld(p)
    BY <1>3, <1>5, <1>6 DEF IsHeld
  <2>2. QED
    BY <1>4, <2>1 DEF HeldIffCounted
<1>10. CountBalance'
  <2>1. ASSUME NEW p \in Queues
        PROVE  Base(p)' = Base(p) /\ Base(p) \in Nat
    BY <1>4, BaseType DEF Base, Counted
  <2>2. QED
    BY <1>3, <1>4, <1>5, <1>7, <2>1 DEF CountBalance
<1>11. QED
  BY <1>1, <1>2, <1>8, <1>9, <1>10

\* A step that moves no responsibility keeps it exclusive, and held as before.
LEMMA SameHolders ==
    ASSUME IInv, UNCHANGED <<LCurrentJobQueue, pushPc, pushTo, globalQueue>>
    PROVE  Exclusive' /\ \A q \in Queues : IsHeld(q)' <=> IsHeld(q)
BY DEF IInv, Exclusive, ExecutorsDiffer, PushersDiffer, ExecutorNoPusher, EntriesDiffer,
       EntriesFree, IsHeld, Executes, PushesFirst

\* The executor takes all jobs of its queue into its vector.
LEMMA PopAllInvariant ==
    ASSUME IInv, NEW t \in Threads, PopAll(t)
    PROVE  IInv'
<1> USE DEF IInv
<1>1. TypeOK'
  BY ExecStepType DEF ExecStep
<1>2. PICK q \in Queues : q = LCurrentJobQueue[t]
  BY DEF TypeOK, PopAll
<1>3. Frames'
  BY DEF TypeOK, Frames, PopAll
<1>4. /\ UNCHANGED <<LCurrentJobQueue, pushPc, pushTo, globalQueue, jobCount, dropped>>
      /\ jobs' = [jobs EXCEPT ![q] = <<>>]
      /\ batchCount' = [batchCount EXCEPT ![t] = Len(jobs[q])]
  BY <1>2 DEF PopAll, pushVars
<1>5. Exclusive' /\ HeldIffCounted'
  BY <1>4, SameHolders DEF HeldIffCounted
<1>6. CountBalance'
  <2>1. ASSUME NEW p \in Queues
        PROVE  Base(p)' = IF p = q THEN Base(p) - Len(jobs[q]) ELSE Base(p)
    <3>1. Cardinality(Counted(p))' = Cardinality(Counted(p))
      BY <1>4 DEF Counted
    <3>2. Len(jobs'[p]) = IF p = q THEN 0 ELSE Len(jobs[p])
      BY <1>4 DEF TypeOK
    <3>3. Len(jobs[p]) \in Nat /\ dropped[p] \in Nat
      BY DEF TypeOK
    <3>4. QED
      BY <1>4, <3>1, <3>2, <3>3, CountedFinite DEF Base
  <2>2. batchCount[t] = 0 /\ Executes(t, q)
    BY <1>2 DEF Frames, PopAll, Executes
  <2>3. \A u \in Threads : Executes(u, q) => u = t
    BY <2>2 DEF Exclusive, ExecutorsDiffer
  <2>4. \A u \in Threads, p \in Queues : Executes(u, p)' <=> Executes(u, p)
    BY <1>4 DEF Executes
  <2>5. ASSUME NEW p \in Queues, NEW u \in Threads, Executes(u, p)
        PROVE  jobCount[p] = Base(p)' + batchCount'[u]
    <3>1. jobCount[p] = Base(p) + batchCount[u] /\ Base(p) \in Nat /\ Len(jobs[p]) \in Nat
      BY <2>5, BaseType DEF CountBalance
    <3>2. CASE p = q
      <4>1. u = t
        BY <2>3, <2>5, <3>2
      <4>2. batchCount'[t] = Len(jobs[q])
        BY <1>4 DEF TypeOK
      <4>3. QED
        BY <2>1, <2>2, <3>1, <3>2, <4>1, <4>2
    <3>3. CASE p # q
      <4>1. u # t
        BY <1>2, <2>5, <3>3 DEF Executes
      <4>2. batchCount'[u] = batchCount[u]
        BY <1>4, <4>1 DEF TypeOK
      <4>3. QED
        BY <2>1, <3>1, <3>3, <4>2
    <3>4. QED
      BY <3>2, <3>3
  <2>6. ASSUME NEW p \in Queues, \A u \in Threads : ~Executes(u, p)
        PROVE  jobCount[p] = Base(p)'
    <3>1. p # q
      BY <2>2, <2>6
    <3>2. QED
      BY <2>1, <2>6, <3>1 DEF CountBalance
  <2>7. QED
    BY <1>4, <2>4, <2>5, <2>6 DEF CountBalance
<1>7. QED
  BY <1>1, <1>3, <1>5, <1>6

\* Running jobs and looking at the clock move nothing; nor does a clear, which
\* turns queued jobs into dropped ones.
LEMMA QuietInvariant ==
    ASSUME IInv,
           \/ \E t \in Threads : StartJob(t) \/ EndJob(t) \/ Continue(t)
           \/ \E q \in Queues : ClearJobs(q),
           TypeOK'
    PROVE  IInv'
<1> USE DEF IInv
<1>1. Frames'
  <2>1. ASSUME NEW t \in Threads, StartJob(t) \/ EndJob(t)
        PROVE  Frames'
    <3>1. execPc'[t] \in {"run", "inJob"}
      BY <2>1 DEF TypeOK, StartJob, EndJob
    <3>2. ASSUME NEW u \in Threads, u # t
          PROVE  /\ execPc'[u] = execPc[u] /\ batch'[u] = batch[u]
                 /\ batchCount'[u] = batchCount[u]
      BY <2>1, <3>2 DEF TypeOK, StartJob, EndJob
    <3>3. QED
      BY <3>1, <3>2 DEF Frames
  <2>2. ASSUME NEW t \in Threads, Continue(t)
        PROVE  Frames'
    BY <2>2 DEF TypeOK, Frames, Continue
  <2>3. ASSUME NEW q \in Queues, ClearJobs(q)
        PROVE  Frames'
    BY <2>3 DEF Frames, ClearJobs, execVars
  <2>4. QED
    BY <2>1, <2>2, <2>3
<1>2. UNCHANGED <<LCurrentJobQueue, pushPc, pushTo, globalQueue, jobCount, batchCount>>
  BY DEF StartJob, EndJob, Continue, ClearJobs, pushVars, execVars
<1>3. Exclusive' /\ HeldIffCounted'
  BY <1>2, SameHolders DEF HeldIffCounted
<1>4. ASSUME NEW p \in Queues
      PROVE  Base(p)' = Base(p)
  <2>1. Counted(p)' = Counted(p)
    BY <1>2 DEF Counted
  <2>2. CASE \E t \in Threads : StartJob(t) \/ EndJob(t) \/ Continue(t)
    BY <2>1, <2>2, BaseSame DEF StartJob, EndJob, Continue
  <2>3. ASSUME NEW q \in Queues, ClearJobs(q)
        PROVE  Base(p)' = Base(p)
    <3>1. Len(jobs[p]) \in Nat /\ dropped[p] \in Nat
      BY DEF TypeOK
    <3>2. Len(jobs'[p]) + dropped'[p] = Len(jobs[p]) + dropped[p]
      BY <2>3, <3>1 DEF TypeOK, ClearJobs
    <3>3. QED
      BY <2>1, <3>2 DEF Base
  <2>4. QED
    BY <2>2, <2>3
<1>5. CountBalance'
  BY <1>2, <1>4 DEF CountBalance, Executes
<1>6. QED
  BY <1>1, <1>3, <1>5

\* The executor subtracts what it ran: at zero nobody is responsible any more,
\* above zero it still is.
LEMMA FinishBatchInvariant ==
    ASSUME IInv, NEW t \in Threads, FinishBatch(t)
    PROVE  IInv'
<1> USE DEF IInv
<1>1. TypeOK'
  BY ExecStepType DEF ExecStep
<1>2. PICK q \in Queues : q = LCurrentJobQueue[t]
  BY DEF TypeOK, FinishBatch
<1>3. Frames'
  <2>1. CASE jobCount[q] = batchCount[t]
    BY <1>2, <2>1 DEF TypeOK, Frames, FinishBatch
  <2>2. CASE jobCount[q] # batchCount[t]
    BY <1>2, <2>2 DEF TypeOK, Frames, FinishBatch
  <2>3. QED
    BY <2>1, <2>2
<1>4. /\ UNCHANGED <<pushPc, pushTo, globalQueue, jobs, dropped>>
      /\ jobCount' = [jobCount EXCEPT ![q] = @ - batchCount[t]]
      /\ batchCount' = [batchCount EXCEPT ![t] = 0]
  BY <1>2 DEF FinishBatch, pushVars
<1>5. ASSUME NEW p \in Queues
      PROVE  Base(p)' = Base(p) /\ Base(p) \in Nat
  BY <1>4, BaseType DEF Base, Counted
<1>6. Executes(t, q) /\ jobCount[q] = Base(q) + batchCount[t] /\ batchCount[t] \in Nat
  BY <1>2 DEF Executes, CountBalance, TypeOK
<1>7. \A u \in Threads, p \in Queues : PushesFirst(u, p)' <=> PushesFirst(u, p)
  BY <1>4 DEF PushesFirst
<1>8. \A u \in Threads : (Executes(u, q) => u = t) /\ ~PushesFirst(u, q)
  BY <1>6 DEF Exclusive, ExecutorsDiffer, ExecutorNoPusher
<1>9. CASE jobCount[q] = batchCount[t]
  <2>1. ASSUME NEW u \in Threads, NEW p \in Queues
        PROVE  Executes(u, p)' <=> Executes(u, p) /\ u # t
    BY <1>2, <1>9, NullAssumption DEF TypeOK, FinishBatch, Executes
  <2>2. Exclusive'
    <3>1. ExecutorsDiffer' /\ PushersDiffer' /\ ExecutorNoPusher' /\ EntriesDiffer'
      BY <1>4, <1>7, <2>1
         DEF Exclusive, ExecutorsDiffer, PushersDiffer, ExecutorNoPusher, EntriesDiffer
    <3>2. ASSUME NEW i \in DOMAIN globalQueue, NEW u \in Threads
          PROVE  ~Executes(u, globalQueue[i])' /\ ~PushesFirst(u, globalQueue[i])'
      <4>1. globalQueue[i] \in Queues
        BY DEF TypeOK
      <4>2. QED
        BY <1>4, <1>7, <2>1, <4>1 DEF Exclusive, EntriesFree, Executes, PushesFirst
    <3>3. QED
      BY <1>4, <3>1, <3>2 DEF Exclusive, EntriesFree
  <2>3. ASSUME NEW p \in Queues
        PROVE  IsHeld(p)' <=> IsHeld(p) /\ p # q
    <3>1. CASE p = q
      <4>1. \A i \in DOMAIN globalQueue : globalQueue[i] # q
        BY <1>6 DEF Exclusive, EntriesFree
      <4>2. QED
        BY <1>4, <1>7, <1>8, <2>1, <3>1, <4>1 DEF IsHeld
    <3>2. CASE p # q
      <4>1. ~Executes(t, p)
        BY <1>2, <3>2 DEF Executes
      <4>2. QED
        BY <1>4, <1>7, <2>1, <3>2, <4>1 DEF IsHeld
    <3>3. QED
      BY <3>1, <3>2
  <2>4. ASSUME NEW p \in Queues
        PROVE  jobCount'[p] = IF p = q THEN 0 ELSE jobCount[p]
    BY <1>4, <1>6, <1>9 DEF TypeOK
  <2>5. HeldIffCounted'
    BY <2>3, <2>4 DEF HeldIffCounted
  <2>6. ASSUME NEW p \in Queues, NEW u \in Threads, Executes(u, p)'
        PROVE  jobCount'[p] = Base(p)' + batchCount'[u]
    <3>1. Executes(u, p) /\ u # t /\ p # q
      BY <1>8, <2>1, <2>6
    <3>2. batchCount'[u] = batchCount[u]
      BY <1>4, <3>1 DEF TypeOK
    <3>3. QED
      BY <1>5, <2>4, <3>1, <3>2 DEF CountBalance
  <2>7. ASSUME NEW p \in Queues, \A u \in Threads : ~Executes(u, p)'
        PROVE  jobCount'[p] = Base(p)'
    <3>1. CASE p = q
      BY <1>5, <1>6, <1>9, <2>4, <3>1
    <3>2. CASE p # q
      <4>1. \A u \in Threads : ~Executes(u, p)
        BY <1>2, <2>1, <2>7, <3>2 DEF Executes
      <4>2. QED
        BY <1>5, <2>4, <3>2, <4>1 DEF CountBalance
    <3>3. QED
      BY <3>1, <3>2
  <2>8. CountBalance'
    BY <2>6, <2>7 DEF CountBalance
  <2>9. QED
    BY <1>1, <1>3, <2>2, <2>5, <2>8
<1>10. CASE jobCount[q] # batchCount[t]
  <2>1. UNCHANGED LCurrentJobQueue
    BY <1>2, <1>10 DEF FinishBatch
  <2>2. Exclusive' /\ \A p \in Queues : IsHeld(p)' <=> IsHeld(p)
    BY <1>4, <2>1, SameHolders
  <2>3. jobCount'[q] = Base(q) /\ jobCount'[q] > 0 /\ jobCount[q] > 0
    BY <1>4, <1>5, <1>6, <1>10 DEF TypeOK
  <2>4. \A p \in Queues : p # q => jobCount'[p] = jobCount[p]
    BY <1>4 DEF TypeOK
  <2>5. HeldIffCounted'
    BY <2>2, <2>3, <2>4 DEF HeldIffCounted
  <2>6. ASSUME NEW p \in Queues, NEW u \in Threads, Executes(u, p)'
        PROVE  jobCount'[p] = Base(p)' + batchCount'[u]
    <3>1. Executes(u, p)
      BY <2>1, <2>6 DEF Executes
    <3>2. CASE p = q
      <4>1. batchCount'[u] = 0
        BY <1>4, <1>8, <3>1, <3>2 DEF TypeOK
      <4>2. QED
        BY <1>5, <2>3, <3>2, <4>1
    <3>3. CASE p # q
      <4>1. u # t
        BY <1>2, <3>1, <3>3 DEF Executes
      <4>2. batchCount'[u] = batchCount[u]
        BY <1>4, <4>1 DEF TypeOK
      <4>3. QED
        BY <1>5, <2>4, <3>1, <3>3, <4>2 DEF CountBalance
    <3>4. QED
      BY <3>2, <3>3
  <2>7. ASSUME NEW p \in Queues, \A u \in Threads : ~Executes(u, p)'
        PROVE  jobCount'[p] = Base(p)'
    <3>1. p # q /\ \A u \in Threads : ~Executes(u, p)
      BY <1>6, <2>1, <2>7 DEF Executes
    <3>2. QED
      BY <1>5, <2>4, <3>1 DEF CountBalance
  <2>8. CountBalance'
    BY <2>6, <2>7 DEF CountBalance
  <2>9. QED
    BY <1>1, <1>3, <2>2, <2>5, <2>8
<1>11. QED
  BY <1>9, <1>10

\* The executor leaves the queue, which still has jobs, to GGlobalQueue.
LEMMA HandOverInvariant ==
    ASSUME IInv, NEW t \in Threads, HandOver(t)
    PROVE  IInv'
<1> USE DEF IInv
<1>1. TypeOK'
  BY ExecStepType DEF ExecStep
<1>2. Frames'
  BY DEF TypeOK, Frames, HandOver
<1>q. PICK q \in Queues : q = LCurrentJobQueue[t]
  BY DEF TypeOK, HandOver
<1> DEFINE n == Len(globalQueue) + 1
<1>3. Executes(t, q) /\ batchCount[t] = 0
  BY <1>q DEF Executes, HandOver, Frames
<1>4. UNCHANGED <<jobCount, jobs, dropped, pushPc, pushTo, batchCount>>
  BY DEF HandOver, pushVars
<1>5. ASSUME NEW u \in Threads, NEW p \in Queues
      PROVE  /\ PushesFirst(u, p)' <=> PushesFirst(u, p)
             /\ Executes(u, p)' <=> Executes(u, p) /\ u # t
  BY <1>4, NullAssumption DEF TypeOK, PushesFirst, Executes, HandOver
<1>6. /\ n \notin DOMAIN globalQueue
      /\ DOMAIN globalQueue' = DOMAIN globalQueue \cup {n}
      /\ globalQueue'[n] = q
      /\ \A i \in DOMAIN globalQueue :
            globalQueue'[i] = globalQueue[i] /\ globalQueue[i] \in Queues
  BY <1>q, EntryAppended DEF HandOver
<1>7. \A i \in DOMAIN globalQueue : globalQueue[i] # q
  BY <1>3 DEF Exclusive, EntriesFree
<1>8. Exclusive'
  <2>1. ExecutorsDiffer' /\ PushersDiffer' /\ ExecutorNoPusher'
    BY <1>5 DEF Exclusive, ExecutorsDiffer, PushersDiffer, ExecutorNoPusher
  <2>2. EntriesDiffer'
    BY <1>6, <1>7 DEF Exclusive, EntriesDiffer
  <2>3. ASSUME NEW i \in DOMAIN globalQueue', NEW u \in Threads
        PROVE  ~Executes(u, globalQueue[i])' /\ ~PushesFirst(u, globalQueue[i])'
    <3>1. CASE i = n
      <4>1. ~Executes(u, q)' /\ ~PushesFirst(u, q)'
        <5>1. ~PushesFirst(u, q)
          BY <1>3 DEF Exclusive, ExecutorNoPusher
        <5>2. Executes(u, q) => u = t
          BY <1>3 DEF Exclusive, ExecutorsDiffer
        <5>3. QED
          BY <1>3, <1>5, <5>1, <5>2 DEF Executes, PushesFirst
      <4>2. QED
        BY <1>6, <3>1, <4>1 DEF Executes, PushesFirst
    <3>2. CASE i \in DOMAIN globalQueue
      <4>1. globalQueue[i] \in Queues /\ globalQueue'[i] = globalQueue[i]
        BY <1>6, <3>2
      <4>2. ~Executes(u, globalQueue[i]) /\ ~PushesFirst(u, globalQueue[i])
        BY <3>2 DEF Exclusive, EntriesFree
      <4>3. QED
        BY <1>5, <4>1, <4>2 DEF Executes, PushesFirst
    <3>3. QED
      BY <1>6, <3>1, <3>2
  <2>4. QED
    BY <2>1, <2>2, <2>3 DEF Exclusive, EntriesFree
<1>9. HeldIffCounted'
  <2>1. ASSUME NEW p \in Queues
        PROVE  IsHeld(p)' <=> IsHeld(p)
    <3>1. Executes(t, p) => p = q
      BY <1>q DEF Executes
    <3>2. QED
      BY <1>3, <1>5, <1>6, <3>1 DEF IsHeld
  <2>2. QED
    BY <1>4, <2>1 DEF HeldIffCounted
<1>10. CountBalance'
  <2>1. ASSUME NEW p \in Queues
        PROVE  Base(p)' = Base(p) /\ Base(p) \in Nat
    BY <1>4, BaseType DEF Base, Counted
  <2>2. jobCount[q] = Base(q)
    BY <1>3, <2>1 DEF CountBalance
  <2>3. \A p \in Queues : Executes(t, p) => p = q
    BY <1>q DEF Executes
  <2>4. ASSUME NEW p \in Queues, NEW u \in Threads, Executes(u, p)'
        PROVE  jobCount'[p] = Base(p)' + batchCount'[u]
    BY <1>4, <1>5, <2>1, <2>4 DEF CountBalance
  <2>5. ASSUME NEW p \in Queues, \A u \in Threads : ~Executes(u, p)'
        PROVE  jobCount'[p] = Base(p)'
    <3>1. CASE p = q
      BY <1>4, <2>1, <2>2, <3>1
    <3>2. CASE p # q
      <4>1. \A u \in Threads : ~Executes(u, p)
        BY <1>5, <2>3, <2>5, <3>2
      <4>2. QED
        BY <1>4, <2>1, <4>1 DEF CountBalance
    <3>3. QED
      BY <3>1, <3>2
  <2>6. QED
    BY <2>4, <2>5 DEF CountBalance
<1>11. QED
  BY <1>1, <1>2, <1>8, <1>9, <1>10

-------------------------------------------------------------------------------
(* The theorems *)

\* Every step keeps the inductive invariant.
LEMMA NextInvariant ==
    ASSUME IInv, [Next]_vars
    PROVE  IInv'
<1>1. ASSUME NEW t \in Threads, PushStep(t)
      PROVE  IInv'
  BY <1>1, PushCountInvariant, AppendInvariant, PushExecuteInvariant,
     PushGlobalInvariant DEF PushStep
<1>2. ASSUME NEW t \in Threads, ExecStep(t)
      PROVE  IInv'
  <2>1. TypeOK'
    BY <1>2, ExecStepType DEF IInv
  <2>2. QED
    BY <1>2, <2>1, PopGlobalInvariant, PopAllInvariant, QuietInvariant,
       FinishBatchInvariant, HandOverInvariant DEF ExecStep
<1>3. ASSUME NEW q \in Queues, ClearJobs(q)
      PROVE  IInv'
  <2>1. TypeOK'
    BY <1>3, ClearJobsType DEF IInv
  <2>2. QED
    BY <1>3, <2>1, QuietInvariant
<1>4. CASE UNCHANGED vars
  <2>1. TypeOK' /\ Frames'
    BY <1>4 DEF IInv, TypeOK, Frames, vars, pushVars, execVars
  <2>2. UNCHANGED <<LCurrentJobQueue, pushPc, pushTo, globalQueue, jobCount, jobs,
                    dropped, batchCount>>
    BY <1>4 DEF vars, pushVars, execVars
  <2>3. Exclusive' /\ HeldIffCounted'
    BY <2>2, SameHolders DEF IInv, HeldIffCounted
  <2>4. CountBalance'
    BY <2>2 DEF IInv, CountBalance, Base, Counted, Executes
  <2>5. QED
    BY <2>1, <2>3, <2>4 DEF IInv
<1>5. QED
  BY <1>1, <1>2, <1>3, <1>4 DEF Next

\* The responsibility for a queue is exclusive, held exactly while its count is
\* positive, and the count adds up, in every reachable state.
THEOREM InvariantHolds == Spec => []IInv
BY InitInvariant, NextInvariant, PTL DEF Spec

\* _jobCount always is what lines 7, 37 and 42 take it for.
THEOREM CountBalanced == Spec => []CountBalance
<1>1. IInv => CountBalance
  BY DEF IInv
<1>2. QED
  BY <1>1, InvariantHolds, PTL

\* No two threads ever run jobs of one queue at the same time.
THEOREM MutuallyExclusive == Spec => []MutualExclusion
<1>1. IInv => MutualExclusion
  BY NullAssumption
     DEF IInv, TypeOK, Exclusive, ExecutorsDiffer, Executes, MutualExclusion
<1>2. QED
  BY <1>1, InvariantHolds, PTL

\* A queue with jobs is in exactly one pair of hands, a queue without in none.
THEOREM SinglyResponsible == Spec => []SingleResponsible
<1>1. ASSUME IInv, NEW q \in Queues
      PROVE  Responsible(q) = IF jobCount[q] > 0 THEN 1 ELSE 0
  <2> DEFINE X == {t \in Threads : Executes(t, q)}
             Y == {t \in Threads : PushesFirst(t, q)}
             Z == Places(q)
  <2>1. jobCount[q] > 0 <=> X # {} \/ Y # {} \/ Z # {}
    BY <1>1 DEF IInv, HeldIffCounted, IsHeld, Places
  <2>2. \A a \in X, b \in Y : FALSE
    BY <1>1 DEF IInv, Exclusive, ExecutorNoPusher
  <2>3. \A a \in X \cup Y, i \in Z : FALSE
    BY <1>1 DEF IInv, Exclusive, EntriesFree, Places
  <2>4. /\ \A a, b \in X : a = b
        /\ \A a, b \in Y : a = b
        /\ \A i, k \in Z : i = k
    BY <1>1 DEF IInv, Exclusive, ExecutorsDiffer, PushersDiffer, EntriesDiffer, Places
  <2>5. Responsible(q) = Cardinality(X) + Cardinality(Y) + Cardinality(Z)
    BY DEF Responsible
  <2> HIDE DEF X, Y, Z
  <2>6. Cardinality({}) = 0
    BY FS_EmptySet
  <2>7. \A S : (\A a, b \in S : a = b) /\ S # {} => Cardinality(S) = 1
    <3>1. SUFFICES ASSUME NEW S, \A a, b \in S : a = b, S # {}
                   PROVE  Cardinality(S) = 1
      OBVIOUS
    <3>2. PICK a \in S : S = {a}
      BY <3>1
    <3>3. QED
      BY <3>2, FS_Singleton
  <2>8. CASE X # {}
    <3>1. Y = {} /\ Z = {} /\ Cardinality(X) = 1
      BY <2>2, <2>3, <2>4, <2>7, <2>8
    <3>2. QED
      BY <2>1, <2>5, <2>6, <2>8, <3>1
  <2>9. CASE Y # {}
    <3>1. X = {} /\ Z = {} /\ Cardinality(Y) = 1
      BY <2>2, <2>3, <2>4, <2>7, <2>9
    <3>2. QED
      BY <2>1, <2>5, <2>6, <2>9, <3>1
  <2>10. CASE Z # {}
    <3>1. X = {} /\ Y = {} /\ Cardinality(Z) = 1
      BY <2>3, <2>4, <2>7, <2>10
    <3>2. QED
      BY <2>1, <2>5, <2>6, <2>10, <3>1
  <2>11. CASE X = {} /\ Y = {} /\ Z = {}
    BY <2>1, <2>5, <2>6, <2>11
  <2>12. QED
    BY <2>8, <2>9, <2>10, <2>11
<1>2. IInv => SingleResponsible
  BY <1>1 DEF SingleResponsible
<1>3. QED
  BY <1>2, InvariantHolds, PTL

-------------------------------------------------------------------------------
(* JobQueue implements SerialQueue *)

\* What is left of the vector of t behind the job it runs, and that job.
Rest(t) == IF execPc[t] = "inJob" THEN Tail(batch[t]) ELSE batch[t]
Current(t) == IF execPc[t] = "inJob" THEN Head(batch[t]) ELSE NoJob

\* The refinement mapping, by who executes a queue.
BarsAgree ==
    /\ pendingBar = [q \in Queues |-> pendingBar[q]]
    /\ runningBar = [q \in Queues |-> runningBar[q]]
    /\ \A q \in Queues, t \in Threads :
           Executes(t, q) => pendingBar[q] = Rest(t) \o jobs[q] /\ runningBar[q] = Current(t)
    /\ \A q \in Queues :
           (\A t \in Threads : ~Executes(t, q)) =>
               pendingBar[q] = jobs[q] /\ runningBar[q] = NoJob

\* With one executor at most the mapping is what it seems.
LEMMA BarsAre == IInv => BarsAgree
<1> SUFFICES ASSUME IInv
             PROVE  BarsAgree
  OBVIOUS
<1>1. pendingBar = [q \in Queues |-> pendingBar[q]]
  BY DEF pendingBar
<1>2. runningBar = [q \in Queues |-> runningBar[q]]
  BY DEF runningBar
<1>3. ASSUME NEW q \in Queues, NEW t \in Threads, Executes(t, q)
      PROVE  pendingBar[q] = Rest(t) \o jobs[q] /\ runningBar[q] = Current(t)
  <2>1. \A u \in Threads : Executes(u, q) <=> u = t
    BY <1>3 DEF IInv, Exclusive, ExecutorsDiffer
  <2>2. Executor(q) = t /\ IsExecuted(q)
    BY <2>1 DEF Executor, IsExecuted
  <2>3. QED
    BY <2>2 DEF pendingBar, runningBar, IsRunning, Rest, Current
<1>4. ASSUME NEW q \in Queues, \A t \in Threads : ~Executes(t, q)
      PROVE  pendingBar[q] = jobs[q] /\ runningBar[q] = NoJob
  BY <1>4 DEF pendingBar, runningBar, IsRunning, IsExecuted
<1>5. QED
  BY <1>1, <1>2, <1>3, <1>4 DEF BarsAgree

\* What is left of a vector is a sequence of jobs.
LEMMA RestType ==
    ASSUME TypeOK, NEW t \in Threads
    PROVE  Rest(t) \in Seq(Jobs)
<1>1. batch[t] \in Seq(Jobs) /\ (execPc[t] = "inJob" => batch[t] # <<>>)
  BY DEF TypeOK
<1>2. QED
  BY <1>1, HeadTailProperties DEF Rest

\* A queue whose jobs and executor a step leaves alone.
Untouched(q) ==
    /\ jobs'[q] = jobs[q]
    /\ \A t \in Threads : /\ Executes(t, q)' <=> Executes(t, q)
                          /\ Executes(t, q) => Rest(t)' = Rest(t) /\ Current(t)' = Current(t)

\* SerialQueue does not see such a step on the queue.
LEMMA UntouchedSame ==
    ASSUME BarsAgree, BarsAgree', NEW q \in Queues, Untouched(q)
    PROVE  pendingBar'[q] = pendingBar[q] /\ runningBar'[q] = runningBar[q]
<1>1. CASE \E t \in Threads : Executes(t, q)
  <2>1. PICK t \in Threads : Executes(t, q)
    BY <1>1
  <2>2. /\ pendingBar[q] = Rest(t) \o jobs[q] /\ runningBar[q] = Current(t)
        /\ pendingBar'[q] = Rest(t)' \o jobs'[q] /\ runningBar'[q] = Current(t)'
    BY <2>1 DEF BarsAgree, Untouched
  <2>3. QED
    BY <2>1, <2>2 DEF Untouched
<1>2. CASE \A t \in Threads : ~Executes(t, q)
  BY <1>2 DEF BarsAgree, Untouched
<1>3. QED
  BY <1>1, <1>2

\* A step that SerialQueue does not see on any queue is no step of it.
LEMMA NoSerialStep ==
    ASSUME BarsAgree, BarsAgree',
           \A q \in Queues : pendingBar'[q] = pendingBar[q] /\ runningBar'[q] = runningBar[q]
    PROVE  UNCHANGED Serial!vars
<1>1. pendingBar' = pendingBar
  BY DEF BarsAgree
<1>2. runningBar' = runningBar
  BY DEF BarsAgree
<1>3. QED
  BY <1>1, <1>2 DEF Serial!vars

\* A step that it sees on one queue.
LEMMA OneSerialStep ==
    ASSUME BarsAgree, BarsAgree', NEW q \in Queues,
           \A p \in Queues : p # q => Untouched(p)
    PROVE  /\ pendingBar' = [pendingBar EXCEPT ![q] = pendingBar'[q]]
           /\ runningBar' = [runningBar EXCEPT ![q] = runningBar'[q]]
<1>1. \A p \in Queues : p # q => pendingBar'[p] = pendingBar[p] /\ runningBar'[p] = runningBar[p]
  BY UntouchedSame
<1>2. pendingBar' = [pendingBar EXCEPT ![q] = pendingBar'[q]]
  BY <1>1 DEF BarsAgree
<1>3. runningBar' = [runningBar EXCEPT ![q] = runningBar'[q]]
  BY <1>1 DEF BarsAgree
<1>4. QED
  BY <1>2, <1>3

\* A job that is pushed into the queue is submitted.
LEMMA AppendSerial ==
    ASSUME IInv, BarsAgree, BarsAgree', NEW t \in Threads, PushFirst(t) \/ PushLater(t)
    PROVE  Serial!Next
<1>1. PICK q \in Queues, j \in Jobs : q = pushTo[t] /\ j = pushJob[t]
  BY DEF IInv, TypeOK, PushFirst, PushLater
<1>2. /\ jobs' = [jobs EXCEPT ![q] = Append(jobs[q], j)]
      /\ UNCHANGED <<execPc, batch, LCurrentJobQueue>>
  BY <1>1 DEF IInv, TypeOK, PushFirst, PushLater, AppendJob, execVars
<1>3. \A p \in Queues : p # q => Untouched(p)
  BY <1>2 DEF IInv, TypeOK, Untouched, Executes, Rest, Current
<1>4. jobs'[q] = Append(jobs[q], j) /\ jobs[q] \in Seq(Jobs)
  BY <1>2 DEF IInv, TypeOK
<1>5. pendingBar'[q] = Append(pendingBar[q], j) /\ runningBar'[q] = runningBar[q]
  <2>1. ASSUME NEW u \in Threads, Executes(u, q)
        PROVE  pendingBar'[q] = Append(pendingBar[q], j) /\ runningBar'[q] = runningBar[q]
    <3>1. /\ pendingBar[q] = Rest(u) \o jobs[q] /\ runningBar[q] = Current(u)
          /\ pendingBar'[q] = Rest(u) \o Append(jobs[q], j) /\ runningBar'[q] = Current(u)
      <4>1. Executes(u, q)' /\ Rest(u)' = Rest(u) /\ Current(u)' = Current(u)
        BY <1>2, <2>1 DEF Executes, Rest, Current
      <4>2. pendingBar[q] = Rest(u) \o jobs[q] /\ runningBar[q] = Current(u)
        BY <2>1 DEF BarsAgree
      <4>3. pendingBar'[q] = Rest(u)' \o jobs'[q] /\ runningBar'[q] = Current(u)'
        BY <4>1 DEF BarsAgree
      <4>4. QED
        BY <1>4, <4>1, <4>2, <4>3
    <3>2. Rest(u) \in Seq(Jobs)
      BY RestType DEF IInv
    <3>3. Rest(u) \o Append(jobs[q], j) = Append(Rest(u) \o jobs[q], j)
      BY <1>4, <3>2
    <3>4. QED
      BY <3>1, <3>3
  <2>2. ASSUME \A u \in Threads : ~Executes(u, q)
        PROVE  pendingBar'[q] = Append(pendingBar[q], j) /\ runningBar'[q] = runningBar[q]
    BY <1>2, <1>4, <2>2 DEF BarsAgree, Executes
  <2>3. QED
    BY <2>1, <2>2
<1>6. pendingBar' = [pendingBar EXCEPT ![q] = Append(@, j)]
  BY <1>3, <1>5, OneSerialStep
<1>7. runningBar' = runningBar
  <2>1. runningBar' = [runningBar EXCEPT ![q] = runningBar[q]]
    BY <1>3, <1>5, OneSerialStep
  <2>2. QED
    BY <2>1 DEF BarsAgree
<1>8. Serial!Submit(q, j)
  BY <1>6, <1>7 DEF Serial!Submit
<1>9. QED
  BY <1>8 DEF Serial!Next

\* The head and the tail of a vector followed by the queue.
LEMMA ConcatHead ==
    ASSUME NEW S, NEW r \in Seq(S), NEW s \in Seq(S), r # <<>>
    PROVE  /\ r \o s # <<>>
           /\ Head(r \o s) = Head(r)
           /\ Tail(r \o s) = Tail(r) \o s
<1>1. Len(r) \in Nat \ {0} /\ Len(s) \in Nat
  BY EmptySeq, LenProperties
<1>2. r \o s \in Seq(S) /\ Len(r \o s) = Len(r) + Len(s) /\ (r \o s)[1] = r[1]
  BY <1>1, ConcatProperties
<1>3. r \o s # <<>>
  BY <1>1, <1>2, EmptySeq
<1>4. Tail(r) \in Seq(S) /\ Len(Tail(r)) = Len(r) - 1
      /\ \A i \in 1 .. Len(Tail(r)) : Tail(r)[i] = r[i + 1]
  BY HeadTailProperties
<1>5. /\ Tail(r \o s) \in Seq(S) /\ Len(Tail(r \o s)) = Len(r \o s) - 1
      /\ \A i \in 1 .. Len(Tail(r \o s)) : Tail(r \o s)[i] = (r \o s)[i + 1]
  BY <1>2, <1>3, HeadTailProperties
<1>6. /\ Tail(r) \o s \in Seq(S) /\ Len(Tail(r) \o s) = Len(Tail(r)) + Len(s)
      /\ \A i \in 1 .. Len(Tail(r)) + Len(s) : (Tail(r) \o s)[i] =
             IF i <= Len(Tail(r)) THEN Tail(r)[i] ELSE s[i - Len(Tail(r))]
  BY <1>4, ConcatProperties
<1>7. ASSUME NEW i \in 1 .. Len(Tail(r \o s))
      PROVE  Tail(r \o s)[i] = (Tail(r) \o s)[i]
  <2>1. (r \o s)[i + 1] = IF i + 1 <= Len(r) THEN r[i + 1] ELSE s[i + 1 - Len(r)]
    BY <1>1, <1>2, <1>5, ConcatProperties
  <2>2. QED
    BY <1>1, <1>2, <1>4, <1>5, <1>6, <2>1
<1>8. Tail(r \o s) = Tail(r) \o s
  BY <1>1, <1>2, <1>4, <1>5, <1>6, <1>7, SeqEqual
<1>9. Head(r \o s) = Head(r)
  BY <1>2
<1>10. QED
  BY <1>3, <1>8, <1>9

\* A job that is called begins.
LEMMA StartSerial ==
    ASSUME IInv, BarsAgree, BarsAgree', NEW t \in Threads, StartJob(t)
    PROVE  Serial!Next
<1>1. PICK q \in Queues : q = LCurrentJobQueue[t]
  BY DEF IInv, TypeOK, StartJob
<1>2. /\ execPc[t] = "run" /\ batch[t] # <<>> /\ batch[t] \in Seq(Jobs)
      /\ jobs[q] \in Seq(Jobs)
      /\ execPc' = [execPc EXCEPT ![t] = "inJob"]
      /\ UNCHANGED <<jobs, batch, LCurrentJobQueue>>
  BY DEF IInv, TypeOK, StartJob
<1>3. \A p \in Queues : p # q => Untouched(p)
  BY <1>1, <1>2 DEF IInv, TypeOK, Untouched, Executes, Rest, Current
<1>4. /\ Executes(t, q) /\ Executes(t, q)'
      /\ execPc'[t] = "inJob"
  BY <1>1, <1>2 DEF IInv, TypeOK, Executes
<1>5. /\ pendingBar[q] = batch[t] \o jobs[q] /\ runningBar[q] = NoJob
      /\ pendingBar'[q] = Tail(batch[t]) \o jobs[q] /\ runningBar'[q] = Head(batch[t])
  BY <1>2, <1>4 DEF BarsAgree, Rest, Current
<1>6. /\ batch[t] \o jobs[q] # <<>>
      /\ Head(batch[t] \o jobs[q]) = Head(batch[t])
      /\ Tail(batch[t] \o jobs[q]) = Tail(batch[t]) \o jobs[q]
  BY <1>2, ConcatHead
<1>7. /\ pendingBar' = [pendingBar EXCEPT ![q] = Tail(@)]
      /\ runningBar' = [runningBar EXCEPT ![q] = Head(pendingBar[q])]
  BY <1>3, <1>5, <1>6, OneSerialStep
<1>8. Serial!Begin(q)
  BY <1>5, <1>6, <1>7 DEF Serial!Begin
<1>9. QED
  BY <1>8 DEF Serial!Next

\* A job that returns is finished.
LEMMA EndSerial ==
    ASSUME IInv, BarsAgree, BarsAgree', NEW t \in Threads, EndJob(t)
    PROVE  Serial!Next
<1>1. PICK q \in Queues : q = LCurrentJobQueue[t]
  BY DEF IInv, TypeOK, EndJob
<1>2. /\ execPc[t] = "inJob" /\ batch[t] # <<>> /\ batch[t] \in Seq(Jobs)
      /\ execPc' = [execPc EXCEPT ![t] = "run"]
      /\ batch' = [batch EXCEPT ![t] = Tail(batch[t])]
      /\ UNCHANGED <<jobs, LCurrentJobQueue>>
  BY DEF IInv, TypeOK, EndJob
<1>3. \A p \in Queues : p # q => Untouched(p)
  BY <1>1, <1>2 DEF IInv, TypeOK, Untouched, Executes, Rest, Current
<1>4. /\ Executes(t, q) /\ Executes(t, q)'
      /\ execPc'[t] = "run" /\ batch'[t] = Tail(batch[t])
  BY <1>1, <1>2 DEF IInv, TypeOK, Executes
<1>5. /\ pendingBar[q] = Tail(batch[t]) \o jobs[q] /\ runningBar[q] = Head(batch[t])
      /\ pendingBar'[q] = Tail(batch[t]) \o jobs[q] /\ runningBar'[q] = NoJob
  <2>1. Rest(t) = Tail(batch[t]) /\ Current(t) = Head(batch[t])
    BY <1>2 DEF Rest, Current
  <2>2. Rest(t)' = Tail(batch[t]) /\ Current(t)' = NoJob
    BY <1>4 DEF Rest, Current
  <2>3. jobs'[q] = jobs[q]
    BY <1>2
  <2>4. pendingBar[q] = Rest(t) \o jobs[q] /\ runningBar[q] = Current(t)
    BY <1>4 DEF BarsAgree
  <2>5. pendingBar'[q] = Rest(t)' \o jobs'[q] /\ runningBar'[q] = Current(t)'
    BY <1>4 DEF BarsAgree
  <2>6. QED
    BY <2>1, <2>2, <2>3, <2>4, <2>5
<1>6. runningBar[q] # NoJob
  BY <1>2, <1>5, HeadTailProperties, NullAssumption
<1>7. runningBar' = [runningBar EXCEPT ![q] = NoJob]
  BY <1>3, <1>5, OneSerialStep
<1>8. pendingBar' = pendingBar
  <2>1. pendingBar' = [pendingBar EXCEPT ![q] = pendingBar[q]]
    BY <1>3, <1>5, OneSerialStep
  <2>2. QED
    BY <2>1 DEF BarsAgree
<1>9. Serial!Finish(q)
  BY <1>6, <1>7, <1>8 DEF Serial!Finish
<1>10. QED
  BY <1>9 DEF Serial!Next

\* A clear discards what waits in the queue, not what the executor has taken.
LEMMA ClearSerial ==
    ASSUME IInv, BarsAgree, BarsAgree', NEW q \in Queues, ClearJobs(q)
    PROVE  Serial!Next
<1>1. /\ jobs' = [jobs EXCEPT ![q] = <<>>] /\ jobs'[q] = <<>> /\ jobs[q] \in Seq(Jobs)
      /\ UNCHANGED <<execPc, batch, LCurrentJobQueue>>
  BY DEF IInv, TypeOK, ClearJobs, execVars
<1>2. \A p \in Queues : p # q => Untouched(p)
  BY <1>1 DEF IInv, TypeOK, Untouched, Executes, Rest, Current
<1>3. /\ runningBar'[q] = runningBar[q]
      /\ \E kept \in 0 .. Len(pendingBar[q]) : pendingBar'[q] = SubSeq(pendingBar[q], 1, kept)
  <2>1. ASSUME NEW t \in Threads, Executes(t, q)
        PROVE  <1>3!:
    <3>1. /\ pendingBar[q] = Rest(t) \o jobs[q] /\ runningBar[q] = Current(t)
          /\ pendingBar'[q] = Rest(t) \o <<>> /\ runningBar'[q] = Current(t)
      <4>1. Executes(t, q)' /\ Rest(t)' = Rest(t) /\ Current(t)' = Current(t)
        BY <1>1, <2>1 DEF Executes, Rest, Current
      <4>2. pendingBar[q] = Rest(t) \o jobs[q] /\ runningBar[q] = Current(t)
        BY <2>1 DEF BarsAgree
      <4>3. pendingBar'[q] = Rest(t)' \o jobs'[q] /\ runningBar'[q] = Current(t)'
        BY <4>1 DEF BarsAgree
      <4>4. QED
        BY <1>1, <4>1, <4>2, <4>3
    <3>2. Rest(t) \in Seq(Jobs)
      BY RestType DEF IInv
    <3>3. /\ Rest(t) \o <<>> = SubSeq(Rest(t) \o jobs[q], 1, Len(Rest(t)))
          /\ Len(Rest(t)) \in 0 .. Len(Rest(t) \o jobs[q])
      BY <1>1, <3>2
    <3>4. QED
      BY <3>1, <3>3
  <2>2. ASSUME \A t \in Threads : ~Executes(t, q)
        PROVE  <1>3!:
    <3>1. /\ pendingBar[q] = jobs[q] /\ runningBar[q] = NoJob
          /\ pendingBar'[q] = <<>> /\ runningBar'[q] = NoJob
      BY <1>1, <2>2 DEF BarsAgree, Executes
    <3>2. <<>> = SubSeq(jobs[q], 1, 0) /\ 0 \in 0 .. Len(jobs[q])
      BY <1>1, LenProperties
    <3>3. QED
      BY <3>1, <3>2
  <2>3. QED
    BY <2>1, <2>2
<1>4. runningBar' = runningBar
  <2>1. runningBar' = [runningBar EXCEPT ![q] = runningBar[q]]
    BY <1>2, <1>3, OneSerialStep
  <2>2. QED
    BY <2>1 DEF BarsAgree
<1>5. PICK kept \in 0 .. Len(pendingBar[q]) : pendingBar'[q] = SubSeq(pendingBar[q], 1, kept)
  BY <1>3
<1>6. pendingBar' = [pendingBar EXCEPT ![q] = SubSeq(@, 1, kept)]
  BY <1>2, <1>5, OneSerialStep
<1>7. Serial!Discard(q)
  BY <1>4, <1>6 DEF Serial!Discard
<1>8. QED
  BY <1>7 DEF Serial!Next

\* A thread that comes to a queue has an empty vector.
LEMMA TakeSerial ==
    ASSUME IInv, BarsAgree, BarsAgree', NEW t \in Threads, PushExecute(t) \/ PopGlobal(t)
    PROVE  UNCHANGED Serial!vars
<1>1. PICK q \in Queues : /\ LCurrentJobQueue' = [LCurrentJobQueue EXCEPT ![t] = q]
                          /\ \A u \in Threads : ~Executes(u, q)
  <2>1. CASE PushExecute(t)
    <3>1. pushTo[t] \in Queues /\ PushesFirst(t, pushTo[t])
      BY <2>1 DEF IInv, TypeOK, PushExecute, PushesFirst
    <3>2. \A u \in Threads : ~Executes(u, pushTo[t])
      BY <3>1 DEF IInv, Exclusive, ExecutorNoPusher
    <3>3. QED
      BY <2>1, <3>1, <3>2 DEF PushExecute
  <2>2. CASE PopGlobal(t)
    <3>1. /\ 1 \in DOMAIN globalQueue /\ Head(globalQueue) = globalQueue[1]
          /\ globalQueue[1] \in Queues
      BY <2>2, EntryPopped DEF IInv, PopGlobal
    <3>2. \A u \in Threads : ~Executes(u, globalQueue[1])
      BY <3>1 DEF IInv, Exclusive, EntriesFree
    <3>3. QED
      BY <2>2, <3>1, <3>2 DEF PopGlobal
  <2>3. QED
    BY <2>1, <2>2
<1>2. /\ LCurrentJobQueue[t] = NoQueue /\ batch[t] = <<>>
      /\ execPc' = [execPc EXCEPT ![t] = "popAll"]
      /\ UNCHANGED <<jobs, batch>>
  BY DEF IInv, TypeOK, Frames, PushExecute, PopGlobal
<1>3. \A p \in Queues : p # q => Untouched(p)
  BY <1>1, <1>2, NullAssumption DEF IInv, TypeOK, Untouched, Executes, Rest, Current
<1>4. pendingBar'[q] = pendingBar[q] /\ runningBar'[q] = runningBar[q]
  <2>1. pendingBar[q] = jobs[q] /\ runningBar[q] = NoJob
    BY <1>1 DEF BarsAgree
  <2>2. Executes(t, q)' /\ Rest(t)' = <<>> /\ Current(t)' = NoJob /\ jobs'[q] = jobs[q]
    BY <1>1, <1>2 DEF IInv, TypeOK, Executes, Rest, Current
  <2>3. pendingBar'[q] = Rest(t)' \o jobs'[q] /\ runningBar'[q] = Current(t)'
    BY <2>2 DEF BarsAgree
  <2>4. <<>> \o jobs[q] = jobs[q]
    BY ConcatEmptySeq DEF IInv, TypeOK
  <2>5. QED
    BY <2>1, <2>2, <2>3, <2>4
<1>5. QED
  BY <1>3, <1>4, UntouchedSame, NoSerialStep

\* So has an executor that goes on to the next round, or leaves its queue.
LEMMA LeaveSerial ==
    ASSUME IInv, IInv', BarsAgree, BarsAgree', NEW t \in Threads,
           FinishBatch(t) \/ HandOver(t) \/ Continue(t)
    PROVE  UNCHANGED Serial!vars
<1>1. PICK q \in Queues : q = LCurrentJobQueue[t]
  BY DEF IInv, TypeOK, FinishBatch, HandOver, Continue
<1>2. /\ execPc[t] # "inJob" /\ batch[t] = <<>>
      /\ \E pc \in {"none", "popAll", "check"} : execPc' = [execPc EXCEPT ![t] = pc]
      /\ UNCHANGED <<jobs, batch>>
      /\ \A u \in Threads : u # t => LCurrentJobQueue'[u] = LCurrentJobQueue[u]
      /\ LCurrentJobQueue'[t] \in {q, NoQueue}
  BY <1>1 DEF IInv, TypeOK, Frames, FinishBatch, HandOver, Continue
<1>3. \A p \in Queues : p # q => Untouched(p)
  <2>1. ASSUME NEW p \in Queues, p # q, NEW u \in Threads
        PROVE  /\ Executes(u, p)' <=> Executes(u, p)
               /\ Executes(u, p) => u # t
    BY <1>1, <1>2, <2>1, NullAssumption DEF Executes
  <2>2. \A u \in Threads : u # t => Rest(u)' = Rest(u) /\ Current(u)' = Current(u)
    BY <1>2 DEF IInv, TypeOK, Rest, Current
  <2>3. QED
    BY <1>2, <2>1, <2>2 DEF Untouched
<1>4. pendingBar'[q] = pendingBar[q] /\ runningBar'[q] = runningBar[q]
  <2>1. Executes(t, q) /\ Rest(t) = <<>> /\ Current(t) = NoJob
    BY <1>1, <1>2 DEF Executes, Rest, Current
  <2>2. pendingBar[q] = Rest(t) \o jobs[q] /\ runningBar[q] = Current(t)
    BY <2>1 DEF BarsAgree
  <2>3. <<>> \o jobs[q] = jobs[q] /\ jobs'[q] = jobs[q]
    BY <1>2, ConcatEmptySeq DEF IInv, TypeOK
  <2>4. CASE Executes(t, q)'
    <3>1. Rest(t)' = <<>> /\ Current(t)' = NoJob
      BY <1>2 DEF IInv, TypeOK, Rest, Current
    <3>2. pendingBar'[q] = Rest(t)' \o jobs'[q] /\ runningBar'[q] = Current(t)'
      BY <2>4 DEF BarsAgree
    <3>3. QED
      BY <2>1, <2>2, <2>3, <3>1, <3>2
  <2>5. CASE ~Executes(t, q)'
    <3>1. \A u \in Threads : Executes(u, q) => u = t
      BY <2>1 DEF IInv, Exclusive, ExecutorsDiffer
    <3>2. \A u \in Threads : ~Executes(u, q)'
      BY <1>2, <2>5, <3>1 DEF Executes
    <3>3. pendingBar'[q] = jobs'[q] /\ runningBar'[q] = NoJob
      BY <3>2 DEF BarsAgree
    <3>4. QED
      BY <2>1, <2>2, <2>3, <3>3
  <2>6. QED
    BY <2>4, <2>5
<1>5. QED
  BY <1>3, <1>4, UntouchedSame, NoSerialStep

\* The jobs that an executor takes still wait, in the same order.
LEMMA PopAllSerial ==
    ASSUME IInv, BarsAgree, BarsAgree', NEW t \in Threads, PopAll(t)
    PROVE  UNCHANGED Serial!vars
<1>1. PICK q \in Queues : q = LCurrentJobQueue[t]
  BY DEF IInv, TypeOK, PopAll
<1>2. /\ execPc[t] = "popAll" /\ batch[t] = <<>>
      /\ execPc' = [execPc EXCEPT ![t] = "run"]
      /\ batch' = [batch EXCEPT ![t] = jobs[q]]
      /\ jobs' = [jobs EXCEPT ![q] = <<>>]
      /\ UNCHANGED LCurrentJobQueue
  BY <1>1 DEF IInv, Frames, PopAll
<1>3. \A p \in Queues : p # q => Untouched(p)
  BY <1>1, <1>2 DEF IInv, TypeOK, Untouched, Executes, Rest, Current
<1>4. pendingBar'[q] = pendingBar[q] /\ runningBar'[q] = runningBar[q]
  <2>1. Executes(t, q) /\ Rest(t) = <<>> /\ Current(t) = NoJob
    BY <1>1, <1>2 DEF Executes, Rest, Current
  <2>2. Executes(t, q)' /\ Rest(t)' = jobs[q] /\ Current(t)' = NoJob /\ jobs'[q] = <<>>
    BY <1>1, <1>2 DEF IInv, TypeOK, Executes, Rest, Current
  <2>3. pendingBar[q] = Rest(t) \o jobs[q] /\ runningBar[q] = Current(t)
    BY <2>1 DEF BarsAgree
  <2>4. pendingBar'[q] = Rest(t)' \o jobs'[q] /\ runningBar'[q] = Current(t)'
    BY <2>2 DEF BarsAgree
  <2>5. <<>> \o jobs[q] = jobs[q] /\ jobs[q] \o <<>> = jobs[q]
    BY ConcatEmptySeq DEF IInv, TypeOK
  <2>6. QED
    BY <2>1, <2>2, <2>3, <2>4, <2>5
<1>5. QED
  BY <1>3, <1>4, UntouchedSame, NoSerialStep

\* Every step is one of SerialQueue, or SerialQueue does not see it.
LEMMA NextSerial ==
    ASSUME IInv, IInv', [Next]_vars
    PROVE  [Serial!Next]_Serial!vars
<1>1. BarsAgree /\ BarsAgree'
  <2>1. BarsAgree
    BY BarsAre
  <2>2. BarsAgree'
    BY BarsAre, PTL
  <2>3. QED
    BY <2>1, <2>2
<1>2. ASSUME UNCHANGED <<jobs, execVars>>
      PROVE  UNCHANGED Serial!vars
  <2>1. \A q \in Queues : Untouched(q)
    BY <1>2 DEF execVars, Untouched, Executes, Rest, Current
  <2>2. QED
    BY <1>1, <2>1, UntouchedSame, NoSerialStep
<1>3. ASSUME NEW t \in Threads, PushStep(t)
      PROVE  [Serial!Next]_Serial!vars
  <2>1. ASSUME PushGlobal(t) \/ (\E q \in Queues, j \in Jobs, only \in BOOLEAN :
                                    PushCount(t, q, j, only))
        PROVE  UNCHANGED <<jobs, execVars>>
    BY <2>1 DEF PushGlobal, PushCount
  <2>2. QED
    BY <1>1, <1>2, <1>3, <2>1, AppendSerial, TakeSerial DEF PushStep
<1>4. ASSUME NEW t \in Threads, ExecStep(t)
      PROVE  [Serial!Next]_Serial!vars
  BY <1>1, <1>4, TakeSerial, PopAllSerial, StartSerial, EndSerial, LeaveSerial DEF ExecStep
<1>5. ASSUME NEW q \in Queues, ClearJobs(q)
      PROVE  Serial!Next
  BY <1>1, <1>5, ClearSerial
<1>6. ASSUME UNCHANGED vars
      PROVE  UNCHANGED <<jobs, execVars>>
  BY <1>6 DEF vars
<1>7. QED
  BY <1>2, <1>3, <1>4, <1>5, <1>6 DEF Next

\* The jobs of a queue are executed one at a time, in the order in which they were
\* pushed, each once, and only a clear drops any, whatever threads execute them.
THEOREM JobQueueImplementsSerial == Spec => ImplementsSerialQueue
<1>1. Init => Serial!Init
  <2> SUFFICES ASSUME Init
               PROVE  Serial!Init
    OBVIOUS
  <2>1. \A q \in Queues : ~IsExecuted(q)
    BY NullAssumption DEF Init, IsExecuted, Executes
  <2>2. pendingBar = [q \in Queues |-> <<>>] /\ runningBar = [q \in Queues |-> NoJob]
    BY <2>1 DEF Init, pendingBar, runningBar, IsRunning
  <2>3. QED
    BY <2>2 DEF Serial!Init
<1>2. IInv /\ IInv' /\ [Next]_vars => [Serial!Next]_Serial!vars
  BY NextSerial
<1>3. QED
  BY <1>1, <1>2, InvariantHolds, PTL DEF Spec, ImplementsSerialQueue, Serial!Spec

-------------------------------------------------------------------------------
(* Where nothing is cleared an executor stops when no job is left *)

\* No queue has lost a job to ClearJobs.
NothingDropped == \A q \in Queues : dropped[q] = 0

\* The program as it is: nothing calls ClearJobs.
NeverClears == MaxDropped = 0

\* Without a clear nothing is dropped.
LEMMA NothingDroppedStep ==
    ASSUME NeverClears, TypeOK, NothingDropped, [Next]_vars
    PROVE  NothingDropped'
<1>1. ASSUME NEW q \in Queues, ClearJobs(q)
      PROVE  FALSE
  <2>1. jobs[q] \in Seq(Jobs) /\ jobs[q] # <<>> /\ dropped[q] + Len(jobs[q]) <= 0
    BY <1>1 DEF TypeOK, ClearJobs, NeverClears
  <2>2. Len(jobs[q]) \in Nat \ {0}
    BY <2>1, EmptySeq
  <2>3. QED
    BY <2>1, <2>2 DEF NothingDropped
<1>2. ASSUME NEW t \in Threads, PushStep(t) \/ ExecStep(t)
      PROVE  UNCHANGED dropped
  BY <1>2 DEF PushStep, ExecStep, PushCount, PushFirst, PushLater, AppendJob, PushExecute,
              PushGlobal, PopGlobal, PopAll, StartJob, EndJob, FinishBatch, Continue, HandOver
<1>3. QED
  BY <1>1, <1>2 DEF NothingDropped, Next, vars

\* The executor of an empty queue, with no pusher on the way, finds its count zero.
LEMMA StopStep ==
    ASSUME IInv, NothingDropped, [Next]_vars, NEW t \in Threads, NEW q,
           q = LCurrentJobQueue[t],
           execPc[t] = "run", batch[t] = <<>>, jobs[q] = <<>>, Counted(q) = {}
    PROVE  execPc'[t] # "check"
<1>1. q \in Queues /\ Executes(t, q)
  BY DEF IInv, TypeOK, Executes
<1>2. jobCount[q] = batchCount[t]
  <2>1. Cardinality(Counted(q)) = 0 /\ Len(jobs[q]) = 0
    BY FS_EmptySet
  <2>2. dropped[q] = 0 /\ batchCount[t] \in Nat
    BY <1>1 DEF NothingDropped, IInv, TypeOK
  <2>3. jobCount[q] = Base(q) + batchCount[t]
    BY <1>1 DEF IInv, CountBalance
  <2>4. QED
    BY <2>1, <2>2, <2>3 DEF Base
<1>3. execPc \in [Threads -> ExecPcs]
  BY DEF IInv, TypeOK
<1>4. ASSUME NEW u \in Threads, FinishBatch(u)
      PROVE  execPc'[t] # "check"
  <2>1. CASE u = t
    BY <1>2, <1>3, <1>4, <2>1 DEF FinishBatch
  <2>2. CASE u # t
    BY <1>3, <1>4, <2>2 DEF FinishBatch
  <2>3. QED
    BY <2>1, <2>2
<1>5. ASSUME NEW u \in Threads, PushStep(u)
      PROVE  execPc'[t] # "check"
  BY <1>3, <1>5 DEF PushStep, PushCount, PushFirst, PushLater, AppendJob, PushExecute,
                    PushGlobal, execVars
<1>6. ASSUME NEW u \in Threads, ExecStep(u)
      PROVE  execPc'[t] # "check"
  BY <1>3, <1>4, <1>6 DEF ExecStep, PopGlobal, PopAll, StartJob, EndJob, Continue, HandOver
<1>7. ASSUME UNCHANGED vars \/ \E p \in Queues : ClearJobs(p)
      PROVE  execPc'[t] # "check"
  BY <1>7 DEF vars, execVars, ClearJobs
<1>8. QED
  BY <1>5, <1>6, <1>7 DEF Next

\* "If no job is left, stop" is true of the program as long as nothing calls
\* ClearJobs.
THEOREM StopsIfNeverCleared ==
    ASSUME NeverClears
    PROVE  Spec => StopsWhenEmpty
<1> DEFINE Stops(t) == LET q == LCurrentJobQueue[t] IN
               execPc[t] = "run" /\ batch[t] = <<>> /\ jobs[q] = <<>> /\ Counted(q) = {}
                 => execPc'[t] # "check"
<1>1. Init => NothingDropped
  BY DEF Init, NothingDropped
<1>2. TypeOK /\ NothingDropped /\ [Next]_vars => NothingDropped'
  BY NothingDroppedStep
<1>3. IInv /\ NothingDropped /\ [Next]_vars => [\A t \in Threads : Stops(t)]_vars
  BY StopStep
<1>4. QED
  BY <1>1, <1>2, <1>3, TypeCorrect, InvariantHolds, PTL DEF Spec, StopsWhenEmpty

===============================================================================
