------------------------------- MODULE JobQueue -------------------------------
(***************************************************************************)
(* JobQueue (ServerCore/JobQueue.cpp), the LockQueue it keeps its jobs in   *)
(* and the GlobalQueue through which threads hand queues to each other.     *)
(*                                                                         *)
(* Any thread may push a job on any queue.  The thread whose fetch_add      *)
(* found _jobCount = 0 becomes responsible for the queue: it executes it at *)
(* once, or, when it is already executing another queue or must only push,  *)
(* leaves the queue in GGlobalQueue for a worker to take.  One action is    *)
(* one atomic step of the code: an atomic read-modify-write, a critical     *)
(* section of a lock, or the start or the end of a job.  Thread-local       *)
(* assignments belong to the step before or after them.                     *)
(***************************************************************************)
EXTENDS Integers, Sequences, FiniteSets

CONSTANTS
    Threads,    \* the threads that push and execute jobs
    Queues,     \* the JobQueue objects
    Jobs,       \* the Job objects that may exist at one time
    NoQueue,    \* nullptr, for a JobQueue
    NoJob,      \* nullptr, for a Job
    MaxDropped  \* bound: the jobs that ClearJobs may drop, per queue

ASSUME ThreadsAssumption == IsFiniteSet(Threads)
ASSUME NullAssumption == NoQueue \notin Queues /\ NoJob \notin Jobs
ASSUME BoundAssumption == MaxDropped \in Nat

VARIABLES
    (* shared *)
    jobCount,           \* jobCount[q]: _jobCount
    jobs,               \* jobs[q]: _jobs, front first
    globalQueue,        \* the queues in GGlobalQueue, front first
    (* the call of Push a thread is in *)
    pushPc,             \* "none"; after line 7 "first" or "later" (prevCount is 0 or
                        \* not); "queued" after line 8, in a first pusher
    pushTo,             \* the queue it pushes on
    pushJob,            \* the job it pushes
    pushOnly,           \* the argument of the same name
    (* the call of Execute a thread is in *)
    execPc,             \* "none", "popAll", "run", "inJob" or "check"
    LCurrentJobQueue,   \* the queue it executes: the thread-local of that name
    batch,              \* what is left of the local vector jobs
    batchCount,         \* the local jobCount: the size of that vector
    (* history *)
    dropped             \* dropped[q]: jobs removed by ClearJobs

pushVars == <<pushPc, pushTo, pushJob, pushOnly>>
execVars == <<execPc, LCurrentJobQueue, batch, batchCount>>
vars == <<jobCount, jobs, globalQueue, pushVars, execVars, dropped>>

-------------------------------------------------------------------------------

PushPcs == {"none", "first", "later", "queued"}
ExecPcs == {"none", "popAll", "run", "inJob", "check"}

\* The values the variables may take.
TypeOK ==
    /\ jobCount \in [Queues -> Int]
    /\ jobs \in [Queues -> Seq(Jobs)]
    /\ globalQueue \in Seq(Queues)
    /\ pushPc \in [Threads -> PushPcs]
    /\ pushTo \in [Threads -> Queues \cup {NoQueue}]
    /\ pushJob \in [Threads -> Jobs \cup {NoJob}]
    /\ pushOnly \in [Threads -> BOOLEAN]
    /\ execPc \in [Threads -> ExecPcs]
    /\ LCurrentJobQueue \in [Threads -> Queues \cup {NoQueue}]
    /\ batch \in [Threads -> Seq(Jobs)]
    /\ batchCount \in [Threads -> Nat]
    /\ dropped \in [Queues -> Nat]
    /\ \A t \in Threads :
          /\ pushPc[t] = "none" <=> pushTo[t] = NoQueue
          /\ pushPc[t] = "none" <=> pushJob[t] = NoJob
          /\ execPc[t] = "none" <=> LCurrentJobQueue[t] = NoQueue
          /\ execPc[t] = "inJob" => batch[t] # <<>>

Init ==
    /\ jobCount = [q \in Queues |-> 0]
    /\ jobs = [q \in Queues |-> <<>>]
    /\ globalQueue = <<>>
    /\ pushPc = [t \in Threads |-> "none"]
    /\ pushTo = [t \in Threads |-> NoQueue]
    /\ pushJob = [t \in Threads |-> NoJob]
    /\ pushOnly = [t \in Threads |-> FALSE]
    /\ execPc = [t \in Threads |-> "none"]
    /\ LCurrentJobQueue = [t \in Threads |-> NoQueue]
    /\ batch = [t \in Threads |-> <<>>]
    /\ batchCount = [t \in Threads |-> 0]
    /\ dropped = [q \in Queues |-> 0]

\* The jobs some thread or queue holds.  Every DoAsync makes a new Job; a model
\* value stands for another Job once the one it stood for is destroyed.
LiveJobs ==
    {pushJob[t] : t \in {u \in Threads : pushPc[u] \in {"first", "later"}}}
      \cup (UNION {{batch[t][i] : i \in DOMAIN batch[t]} : t \in Threads})
      \cup (UNION {{jobs[q][i] : i \in DOMAIN jobs[q]} : q \in Queues})

\* A thread runs code that may call Push: a completion handler or the timer
\* (outside Execute), or a job.
MayPush(t) == pushPc[t] = "none" /\ execPc[t] \in {"none", "inJob"}

-------------------------------------------------------------------------------
(* Faulty variants of the steps below, used to test the properties. *)

\* The pusher looks at the queue itself instead of the previous count.
PushCountByLength(t, q, j, only) ==
    /\ MayPush(t)
    /\ j \notin LiveJobs
    /\ only => execPc[t] = "none"
    /\ jobCount' = [jobCount EXCEPT ![q] = @ + 1]
    /\ pushPc' = [pushPc EXCEPT ![t] = IF jobs[q] = <<>> THEN "first" ELSE "later"]
    /\ pushTo' = [pushTo EXCEPT ![t] = q]
    /\ pushJob' = [pushJob EXCEPT ![t] = j]
    /\ pushOnly' = [pushOnly EXCEPT ![t] = only]
    /\ UNCHANGED <<jobs, globalQueue, execVars, dropped>>

\* The executor subtracts one job per round.
FinishBatchOne(t) ==
    LET q == LCurrentJobQueue[t] IN
    /\ execPc[t] = "run"
    /\ batch[t] = <<>>
    /\ jobCount' = [jobCount EXCEPT ![q] = @ - 1]
    /\ batchCount' = [batchCount EXCEPT ![t] = 0]
    /\ IF jobCount[q] = 1
       THEN /\ execPc' = [execPc EXCEPT ![t] = "none"]
            /\ LCurrentJobQueue' = [LCurrentJobQueue EXCEPT ![t] = NoQueue]
       ELSE /\ execPc' = [execPc EXCEPT ![t] = "check"]
            /\ UNCHANGED LCurrentJobQueue
    /\ UNCHANGED <<jobs, globalQueue, pushVars, batch, dropped>>

\* The executor stops when its time is over and hands the queue to nobody.
HandOverForgotten(t) ==
    /\ execPc[t] = "check"
    /\ execPc' = [execPc EXCEPT ![t] = "none"]
    /\ LCurrentJobQueue' = [LCurrentJobQueue EXCEPT ![t] = NoQueue]
    /\ UNCHANGED <<jobCount, jobs, globalQueue, pushVars, batch, batchCount, dropped>>

\* The thread leaves the queue to another and still counts as executing it.
HandOverKeepsCurrent(t) ==
    /\ execPc[t] = "check"
    /\ globalQueue' = Append(globalQueue, LCurrentJobQueue[t])
    /\ execPc' = [execPc EXCEPT ![t] = "none"]
    /\ UNCHANGED <<jobCount, jobs, pushVars, LCurrentJobQueue, batch, batchCount, dropped>>

\* The jobs are taken from the back of the queue.
PopAllReversed(t) ==
    LET q == LCurrentJobQueue[t]
        n == Len(jobs[q]) IN
    /\ execPc[t] = "popAll"
    /\ execPc' = [execPc EXCEPT ![t] = "run"]
    /\ batch' = [batch EXCEPT ![t] = [i \in 1 .. n |-> jobs[q][n + 1 - i]]]
    /\ batchCount' = [batchCount EXCEPT ![t] = n]
    /\ jobs' = [jobs EXCEPT ![q] = <<>>]
    /\ UNCHANGED <<jobCount, globalQueue, pushVars, LCurrentJobQueue, dropped>>

-------------------------------------------------------------------------------
(* JobQueue::Push *)

\* Line 7: the count is raised before the job is in the queue.
PushCount(t, q, j, only) ==
    /\ MayPush(t)
    /\ j \notin LiveJobs
    /\ only => execPc[t] = "none"
    /\ jobCount' = [jobCount EXCEPT ![q] = @ + 1]
    /\ pushPc' = [pushPc EXCEPT ![t] = IF jobCount[q] = 0 THEN "first" ELSE "later"]
    /\ pushTo' = [pushTo EXCEPT ![t] = q]
    /\ pushJob' = [pushJob EXCEPT ![t] = j]
    /\ pushOnly' = [pushOnly EXCEPT ![t] = only]
    /\ UNCHANGED <<jobs, globalQueue, execVars, dropped>>

\* The frame of Push is left.
ClearFrame(t) ==
    /\ pushPc' = [pushPc EXCEPT ![t] = "none"]
    /\ pushTo' = [pushTo EXCEPT ![t] = NoQueue]
    /\ pushJob' = [pushJob EXCEPT ![t] = NoJob]
    /\ pushOnly' = [pushOnly EXCEPT ![t] = FALSE]

\* Line 8, under the queue's lock.
AppendJob(t) ==
    /\ jobs' = [jobs EXCEPT ![pushTo[t]] = Append(@, pushJob[t])]
    /\ UNCHANGED <<jobCount, globalQueue, execVars, dropped>>

\* Line 11: the first pusher goes on, any other returns.
PushFirst(t) ==
    /\ pushPc[t] = "first"
    /\ AppendJob(t)
    /\ pushPc' = [pushPc EXCEPT ![t] = "queued"]
    /\ UNCHANGED <<pushTo, pushJob, pushOnly>>

PushLater(t) ==
    /\ pushPc[t] = "later"
    /\ AppendJob(t)
    /\ ClearFrame(t)

\* Lines 14-17 and 30: the first pusher executes the queue itself.
PushExecute(t) ==
    /\ pushPc[t] = "queued"
    /\ LCurrentJobQueue[t] = NoQueue /\ ~pushOnly[t]
    /\ execPc' = [execPc EXCEPT ![t] = "popAll"]
    /\ LCurrentJobQueue' = [LCurrentJobQueue EXCEPT ![t] = pushTo[t]]
    /\ ClearFrame(t)
    /\ UNCHANGED <<jobCount, jobs, globalQueue, batch, batchCount, dropped>>

\* Lines 18-22: it executes another queue, or may only push.
PushGlobal(t) ==
    /\ pushPc[t] = "queued"
    /\ LCurrentJobQueue[t] # NoQueue \/ pushOnly[t]
    /\ globalQueue' = Append(globalQueue, pushTo[t])
    /\ ClearFrame(t)
    /\ UNCHANGED <<jobCount, jobs, execVars, dropped>>

-------------------------------------------------------------------------------
(* JobQueue::Execute, and the worker's GGlobalQueue->Pop() before it *)

\* ThreadManager::DoGlobalQueueWork takes a queue and calls Execute (line 30).
PopGlobal(t) ==
    /\ pushPc[t] = "none" /\ execPc[t] = "none"
    /\ globalQueue # <<>>
    /\ globalQueue' = Tail(globalQueue)
    /\ execPc' = [execPc EXCEPT ![t] = "popAll"]
    /\ LCurrentJobQueue' = [LCurrentJobQueue EXCEPT ![t] = Head(globalQueue)]
    /\ UNCHANGED <<jobCount, jobs, pushVars, batch, batchCount, dropped>>

\* Lines 34-37: LockQueue::PopAll holds the lock until the queue is empty.
PopAll(t) ==
    LET q == LCurrentJobQueue[t] IN
    /\ execPc[t] = "popAll"
    /\ execPc' = [execPc EXCEPT ![t] = "run"]
    /\ batch' = [batch EXCEPT ![t] = jobs[q]]
    /\ batchCount' = [batchCount EXCEPT ![t] = Len(jobs[q])]
    /\ jobs' = [jobs EXCEPT ![q] = <<>>]
    /\ UNCHANGED <<jobCount, globalQueue, pushVars, LCurrentJobQueue, dropped>>

\* Lines 38-39: the next job of the vector starts, and ends.
StartJob(t) ==
    /\ execPc[t] = "run"
    /\ batch[t] # <<>>
    /\ execPc' = [execPc EXCEPT ![t] = "inJob"]
    /\ UNCHANGED <<jobCount, jobs, globalQueue, pushVars, LCurrentJobQueue,
                   batch, batchCount, dropped>>

EndJob(t) ==
    /\ execPc[t] = "inJob" /\ pushPc[t] = "none"
    /\ execPc' = [execPc EXCEPT ![t] = "run"]
    /\ batch' = [batch EXCEPT ![t] = Tail(@)]
    /\ UNCHANGED <<jobCount, jobs, globalQueue, pushVars, LCurrentJobQueue,
                   batchCount, dropped>>

\* Lines 42-46: the count falls by the size of the vector; at zero, return.
FinishBatch(t) ==
    LET q == LCurrentJobQueue[t] IN
    /\ execPc[t] = "run"
    /\ batch[t] = <<>>
    /\ jobCount' = [jobCount EXCEPT ![q] = @ - batchCount[t]]
    /\ batchCount' = [batchCount EXCEPT ![t] = 0]
    /\ IF jobCount[q] = batchCount[t]
       THEN /\ execPc' = [execPc EXCEPT ![t] = "none"]
            /\ LCurrentJobQueue' = [LCurrentJobQueue EXCEPT ![t] = NoQueue]
       ELSE /\ execPc' = [execPc EXCEPT ![t] = "check"]
            /\ UNCHANGED LCurrentJobQueue
    /\ UNCHANGED <<jobs, globalQueue, pushVars, batch, dropped>>

\* Lines 48-49: there is time left for another round.
Continue(t) ==
    /\ execPc[t] = "check"
    /\ execPc' = [execPc EXCEPT ![t] = "popAll"]
    /\ UNCHANGED <<jobCount, jobs, globalQueue, pushVars, LCurrentJobQueue,
                   batch, batchCount, dropped>>

\* Lines 49-55: now >= LEndTickCount; the queue goes to GGlobalQueue.
HandOver(t) ==
    /\ execPc[t] = "check"
    /\ globalQueue' = Append(globalQueue, LCurrentJobQueue[t])
    /\ execPc' = [execPc EXCEPT ![t] = "none"]
    /\ LCurrentJobQueue' = [LCurrentJobQueue EXCEPT ![t] = NoQueue]
    /\ UNCHANGED <<jobCount, jobs, pushVars, batch, batchCount, dropped>>

-------------------------------------------------------------------------------

\* JobQueue::ClearJobs empties the queue and leaves _jobCount as it is.
ClearJobs(q) ==
    /\ jobs[q] # <<>>
    /\ dropped[q] + Len(jobs[q]) <= MaxDropped
    /\ jobs' = [jobs EXCEPT ![q] = <<>>]
    /\ dropped' = [dropped EXCEPT ![q] = @ + Len(jobs[q])]
    /\ UNCHANGED <<jobCount, globalQueue, pushVars, execVars>>

PushStep(t) ==
    \/ \E q \in Queues, j \in Jobs, only \in BOOLEAN : PushCount(t, q, j, only)
    \/ PushFirst(t)
    \/ PushLater(t)
    \/ PushExecute(t)
    \/ PushGlobal(t)

ExecStep(t) ==
    \/ PopGlobal(t)
    \/ PopAll(t)
    \/ StartJob(t)
    \/ EndJob(t)
    \/ FinishBatch(t)
    \/ Continue(t)
    \/ HandOver(t)

Next ==
    \/ \E t \in Threads : PushStep(t) \/ ExecStep(t)
    \/ \E q \in Queues : ClearJobs(q)

Spec == Init /\ [][Next]_vars

-------------------------------------------------------------------------------
(* Who is responsible for a queue, and what its count stands for. *)

Executes(t, q) == LCurrentJobQueue[t] = q
PushesFirst(t, q) == pushTo[t] = q /\ pushPc[t] \in {"first", "queued"}
Counted(q) == {t \in Threads : pushPc[t] \in {"first", "later"} /\ pushTo[t] = q}

Places(q) == {i \in DOMAIN globalQueue : globalQueue[i] = q}
Responsible(q) ==
    Cardinality({t \in Threads : Executes(t, q)})
      + Cardinality({t \in Threads : PushesFirst(t, q)})
      + Cardinality(Places(q))

\* Two threads never run jobs of the same queue at the same time: a Room needs
\* no lock because its jobs are serialised (JobQueue.cpp:10-17, Room.h).
MutualExclusion ==
    \A t, u \in Threads :
        execPc[t] = "inJob" /\ execPc[u] = "inJob"
          /\ LCurrentJobQueue[t] = LCurrentJobQueue[u] => t = u

\* A queue with a positive count is in the hands of exactly one thread or one
\* entry of GGlobalQueue, and a queue with count zero of none: no job is left
\* behind with nobody to run it, no queue is scheduled twice (lines 11-22, 42-54).
SingleResponsible ==
    \A q \in Queues : Responsible(q) = IF jobCount[q] > 0 THEN 1 ELSE 0

\* The jobs of q that no executor has taken yet, and those lost to ClearJobs.
Base(q) == Len(jobs[q]) + dropped[q] + Cardinality(Counted(q))

\* _jobCount counts the jobs in the queue, those announced by a pusher that has
\* not appended yet, those in its executor's vector, and for ever those that
\* ClearJobs dropped (lines 7, 8, 37, 42; JobQueue.h:35).
CountBalance ==
    \A q \in Queues :
        /\ \A t \in Threads : Executes(t, q) => jobCount[q] = Base(q) + batchCount[t]
        /\ (\A t \in Threads : ~Executes(t, q)) => jobCount[q] = Base(q)

\* "If no job is left, stop" (the comment of line 41): an executor that ran its
\* vector when the queue is empty and no pusher is on its way returns.
StopsWhenEmpty ==
    [][\A t \in Threads :
         LET q == LCurrentJobQueue[t] IN
         execPc[t] = "run" /\ batch[t] = <<>> /\ jobs[q] = <<>> /\ Counted(q) = {}
           => execPc'[t] # "check"]_vars

-------------------------------------------------------------------------------
(* The inductive invariant behind MutualExclusion, SingleResponsible and       *)
(* CountBalance: the responsibility for a queue, stated pair by pair.          *)

\* Outside lines 37-42 a thread has no vector.
Frames ==
    \A t \in Threads :
        execPc[t] \in {"none", "popAll", "check"} =>
            batch[t] = <<>> /\ batchCount[t] = 0

\* No two hold the responsibility for the same queue.
ExecutorsDiffer ==
    \A q \in Queues : \A t, u \in Threads : Executes(t, q) /\ Executes(u, q) => t = u
PushersDiffer ==
    \A q \in Queues : \A t, u \in Threads :
        PushesFirst(t, q) /\ PushesFirst(u, q) => t = u
ExecutorNoPusher ==
    \A q \in Queues : \A t, u \in Threads : ~(Executes(t, q) /\ PushesFirst(u, q))
EntriesDiffer ==
    \A i, k \in DOMAIN globalQueue : globalQueue[i] = globalQueue[k] => i = k
EntriesFree ==
    \A i \in DOMAIN globalQueue : \A t \in Threads :
        ~Executes(t, globalQueue[i]) /\ ~PushesFirst(t, globalQueue[i])
Exclusive ==
    /\ ExecutorsDiffer
    /\ PushersDiffer
    /\ ExecutorNoPusher
    /\ EntriesDiffer
    /\ EntriesFree

\* Somebody holds it exactly while the count is positive.
IsHeld(q) ==
    \/ \E t \in Threads : Executes(t, q) \/ PushesFirst(t, q)
    \/ \E i \in DOMAIN globalQueue : globalQueue[i] = q
HeldIffCounted == \A q \in Queues : jobCount[q] > 0 <=> IsHeld(q)

IInv == TypeOK /\ Frames /\ Exclusive /\ HeldIffCounted /\ CountBalance

-------------------------------------------------------------------------------
(* A JobQueue implements a SerialQueue: a job is submitted when it enters    *)
(* _jobs, begins when its executor calls it and ends when the call returns.  *)

Executor(q) == CHOOSE t \in Threads : Executes(t, q)
IsExecuted(q) == \E t \in Threads : Executes(t, q)
IsRunning(q) == IsExecuted(q) /\ execPc[Executor(q)] = "inJob"

pendingBar ==
    [q \in Queues |->
        IF IsRunning(q) THEN Tail(batch[Executor(q)]) \o jobs[q]
        ELSE IF IsExecuted(q) THEN batch[Executor(q)] \o jobs[q]
        ELSE jobs[q]]

runningBar ==
    [q \in Queues |-> IF IsRunning(q) THEN Head(batch[Executor(q)]) ELSE NoJob]

Serial == INSTANCE SerialQueue WITH pending <- pendingBar, running <- runningBar

\* Jobs of one queue are executed one at a time, in the order in which they
\* were queued, each once: every step of the threads is a step of SerialQueue
\* (JobQueue::Push and Execute against their purpose).
ImplementsSerialQueue == Serial!Spec

==============================================================================
