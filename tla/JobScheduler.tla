------------------------------ MODULE JobScheduler ------------------------------
(***************************************************************************)
(* The worker loop around the JobQueues: DoWorkerJob of Server.cpp, which   *)
(* dispatches I/O, distributes the timers that are due and executes queues  *)
(* of GGlobalQueue while its time slice lasts (ThreadManager.cpp), and the  *)
(* JobTimer (JobTimer.cpp).  The steps of Push and Execute are those of     *)
(* JobQueue; here they are taken where the loop, the clock and the timer    *)
(* allow them.  ClearJobs has no caller in the program and is left out.     *)
(*                                                                         *)
(* The clock is abstract.  slice[t] is where GetTickCount64 stands against  *)
(* LEndTickCount of the thread: 0 before, 1 equal, 2 after.  A timer item   *)
(* becomes due at some time.                                                *)
(***************************************************************************)
EXTENDS JobQueue

VARIABLES
    phase,          \* where the thread is in its loop
    slice,
    waiting,        \* the items of the JobTimer that are not due
    due,            \* the items that are due and not taken
    items,          \* items[t]: the items that Distribute has taken and not pushed
    distributing    \* _distributing

timerVars == <<waiting, due, items, distributing>>
schedVars == <<phase, slice, timerVars>>
allVars == <<vars, schedVars>>

-------------------------------------------------------------------------------

Phases == {"dispatch", "distribute", "take", "push", "global"}
TimerItems == [queue : Queues, job : Jobs]

\* The values of the added variables; only the distributing thread has items.
SchedTypeOK ==
    /\ phase \in [Threads -> Phases]
    /\ slice \in [Threads -> 0 .. 2]
    /\ waiting \subseteq TimerItems /\ due \subseteq TimerItems
    /\ items \in [Threads -> SUBSET TimerItems]
    /\ distributing \in BOOLEAN
    /\ \A t \in Threads : items[t] # {} => phase[t] = "push"

SchedInit ==
    /\ Init
    /\ phase = [t \in Threads |-> "dispatch"]
    /\ slice = [t \in Threads |-> 0]
    /\ waiting = {} /\ due = {}
    /\ items = [t \in Threads |-> {}]
    /\ distributing = FALSE

TimerJobs ==
    {i.job : i \in waiting \cup due} \cup UNION {{i.job : i \in items[t]} : t \in Threads}

\* The thread is in no Push and in no Execute.
AtLoop(t) == pushPc[t] = "none" /\ execPc[t] = "none"

ToPhase(t, p) == phase' = [phase EXCEPT ![t] = p]

-------------------------------------------------------------------------------
(* Faulty variants of the steps below, used to test the properties. *)

\* Every worker distributes, whether another one does or not.
DistributeBeginAlways(t) ==
    /\ phase[t] = "distribute" /\ AtLoop(t)
    /\ distributing' = TRUE
    /\ ToPhase(t, "take")
    /\ UNCHANGED <<vars, slice, waiting, due, items>>

\* The flag is not released.
DistributeEndForgotten(t) ==
    /\ phase[t] = "push" /\ AtLoop(t)
    /\ items[t] = {}
    /\ ToPhase(t, "global")
    /\ UNCHANGED <<vars, slice, timerVars>>

\* The items pushed are not removed from the list.
PushTimerTwice(t) ==
    /\ phase[t] = "push" /\ AtLoop(t)
    /\ \E i \in items[t] : PushCount(t, i.queue, i.job, TRUE)
    /\ UNCHANGED schedVars

\* The timer pushes as everybody does: a first pusher executes the queue at once.
PushTimerRuns(t) ==
    /\ phase[t] = "push" /\ AtLoop(t)
    /\ \E i \in items[t] :
          /\ PushCount(t, i.queue, i.job, FALSE)
          /\ items' = [items EXCEPT ![t] = @ \ {i}]
    /\ UNCHANGED <<phase, slice, waiting, due, distributing>>

\* The executor does not look at the clock: it goes on whenever jobs are left.
HandOverNever(t) == Continue(t) /\ UNCHANGED schedVars

\* The executor puts its queue before those that wait.
HandOverFirst(t) ==
    /\ slice[t] >= 1
    /\ execPc[t] = "check"
    /\ globalQueue' = <<LCurrentJobQueue[t]>> \o globalQueue
    /\ execPc' = [execPc EXCEPT ![t] = "none"]
    /\ LCurrentJobQueue' = [LCurrentJobQueue EXCEPT ![t] = NoQueue]
    /\ UNCHANGED <<jobCount, jobs, pushVars, batch, batchCount, dropped, schedVars>>

-------------------------------------------------------------------------------
(* DoWorkerJob *)

\* A completion handler calls DoAsync (Server.cpp:24; ClientPacketHandler.cpp), or
\* a job does.
CallPush(t) ==
    /\ phase[t] = "dispatch" \/ execPc[t] = "inJob"
    /\ \E q \in Queues, j \in Jobs \ TimerJobs : PushCount(t, q, j, FALSE)
    /\ UNCHANGED schedVars

\* One of them calls DoTimer: JobTimer::Reserve, under its lock.
Reserve(t) ==
    /\ MayPush(t)
    /\ phase[t] = "dispatch" \/ execPc[t] = "inJob"
    /\ \E q \in Queues, j \in Jobs \ (TimerJobs \cup LiveJobs) :
          waiting' = waiting \cup {[queue |-> q, job |-> j]}
    /\ UNCHANGED <<vars, phase, slice, due, items, distributing>>

\* Dispatch returns, after a handler or after its timeout.
DispatchEnd(t) ==
    /\ phase[t] = "dispatch" /\ AtLoop(t)
    /\ ToPhase(t, "distribute")
    /\ UNCHANGED <<vars, slice, timerVars>>

\* JobTimer::Distribute, line 18: one thread passes, any other goes on.
DistributeBegin(t) ==
    /\ phase[t] = "distribute" /\ AtLoop(t)
    /\ distributing' = TRUE
    /\ ToPhase(t, IF distributing THEN "global" ELSE "take")
    /\ UNCHANGED <<vars, slice, waiting, due, items>>

\* Lines 21-34, under the lock: all items that are due are taken.
TakeDue(t) ==
    /\ phase[t] = "take" /\ AtLoop(t)
    /\ items' = [items EXCEPT ![t] = due]
    /\ due' = {}
    /\ ToPhase(t, "push")
    /\ UNCHANGED <<vars, slice, waiting, distributing>>

\* Lines 36-42: each is pushed, and never executed here (pushOnly).
PushTimer(t) ==
    /\ phase[t] = "push" /\ AtLoop(t)
    /\ \E i \in items[t] :
          /\ PushCount(t, i.queue, i.job, TRUE)
          /\ items' = [items EXCEPT ![t] = @ \ {i}]
    /\ UNCHANGED <<phase, slice, waiting, due, distributing>>

\* Line 45.
DistributeEnd(t) ==
    /\ phase[t] = "push" /\ AtLoop(t)
    /\ items[t] = {}
    /\ distributing' = FALSE
    /\ ToPhase(t, "global")
    /\ UNCHANGED <<vars, slice, waiting, due, items>>

\* ThreadManager::DoGlobalQueueWork, lines 56-64: in time, a queue is executed.
GlobalWork(t) ==
    /\ phase[t] = "global"
    /\ slice[t] < 2
    /\ PopGlobal(t)
    /\ UNCHANGED schedVars

\* Lines 57-58 and 61-62: out of time or nothing to do; DoWorkerJob starts over
\* with a new slice (Server.cpp:20-22).
LoopEnd(t) ==
    /\ phase[t] = "global" /\ AtLoop(t)
    /\ slice[t] = 2 \/ globalQueue = <<>>
    /\ ToPhase(t, "dispatch")
    /\ slice' = [slice EXCEPT ![t] = 0]
    /\ UNCHANGED <<vars, timerVars>>

\* The steps of Push and Execute that do not look at the clock.
QueueStep(t) ==
    /\ \/ PushFirst(t)
       \/ PushLater(t)
       \/ PushExecute(t)
       \/ PushGlobal(t)
       \/ PopAll(t)
       \/ StartJob(t)
       \/ FinishBatch(t)
    /\ UNCHANGED schedVars

JobEnds(t) == EndJob(t) /\ UNCHANGED schedVars

\* JobQueue.cpp:48-49.
ContinueInTime(t) ==
    /\ slice[t] = 0
    /\ Continue(t)
    /\ UNCHANGED schedVars

HandOverLate(t) ==
    /\ slice[t] >= 1
    /\ HandOver(t)
    /\ UNCHANGED schedVars

-------------------------------------------------------------------------------
(* Time passes *)

Tick(t) ==
    /\ slice[t] < 2
    /\ slice' = [slice EXCEPT ![t] = @ + 1]
    /\ UNCHANGED <<vars, phase, timerVars>>

BecomeDue(i) ==
    /\ i \in waiting
    /\ waiting' = waiting \ {i}
    /\ due' = due \cup {i}
    /\ UNCHANGED <<vars, phase, slice, items, distributing>>

LoopStep(t) ==
    \/ DistributeBegin(t)
    \/ TakeDue(t)
    \/ PushTimer(t)
    \/ DistributeEnd(t)
    \/ LoopEnd(t)
    \/ QueueStep(t)
    \/ ContinueInTime(t)
    \/ HandOverLate(t)

SchedNext ==
    \/ \E t \in Threads :
          \/ CallPush(t) \/ Reserve(t) \/ DispatchEnd(t) \/ JobEnds(t)
          \/ LoopStep(t) \/ GlobalWork(t) \/ Tick(t)
    \/ \E i \in TimerItems : BecomeDue(i)

SchedSpec == SchedInit /\ [][SchedNext]_allVars

\* Threads run; Dispatch returns and a job ends although either may push again and
\* again; time passes, also for each timer item; and of the workers that reach DoGlobalQueueWork in time
\* again and again some takes a queue before its slice is over.
SchedFairness ==
    /\ \A t \in Threads :
          /\ WF_allVars(LoopStep(t))
          /\ WF_allVars(Tick(t))
          /\ SF_allVars(DispatchEnd(t))
          /\ SF_allVars(JobEnds(t))
    /\ SF_allVars(\E t \in Threads : GlobalWork(t))
    /\ \A i \in TimerItems : WF_allVars(BecomeDue(i))

FairSchedSpec == SchedSpec /\ SchedFairness

-------------------------------------------------------------------------------
(* Properties *)

\* "One thread at a time passes" (JobTimer.cpp:17): no two threads are between the
\* exchange and the store, and the flag tells whether one is.
OneDistributor ==
    /\ SchedTypeOK
    /\ \A t, u \in Threads :
          phase[t] \in {"take", "push"} /\ phase[u] \in {"take", "push"} => t = u
    /\ distributing <=> \E t \in Threads : phase[t] \in {"take", "push"}

\* A job is in one place: a timer item, or what JobQueue calls live.
TimerJobOnce == TimerJobs \cap LiveJobs = {}

\* No queue is executed inside Distribute, although its pushes are first pushes as
\* often as others: the executor would keep _distributing set, and the timers of all
\* workers waiting, for as long as its jobs take (JobTimer.cpp:18, 39; JobQueue.cpp:14-22).
DistributorRunsNothing ==
    \A t \in Threads : phase[t] \in {"take", "push"} => LCurrentJobQueue[t] = NoQueue

\* Every job that was pushed or reserved is executed, although other jobs push
\* without end: a queue that never gets empty is handed over when the slice of its
\* executor ends, and comes after the queues that wait (JobQueue.cpp:26-27, 48-54;
\* ThreadManager.cpp:52-66).  This takes that workers reach DoGlobalQueueWork again
\* and again before their slice is over: when Dispatch uses up every slice, the
\* queues in GGlobalQueue wait for ever.
InTime == \E t \in Threads : phase[t] = "global" /\ AtLoop(t) /\ slice[t] < 2

EveryJobRuns ==
    []<>InTime =>
        \A j \in Jobs :
            (j \in LiveJobs \cup TimerJobs) ~> (j \notin LiveJobs \cup TimerJobs)

\* No queue keeps a worker for ever, even if every job pushes another one on it:
\* the worker gets back to its I/O (JobQueue.cpp:26-27, 48-54).
ExecuteReturns == \A t \in Threads : execPc[t] # "none" ~> execPc[t] = "none"

================================================================================
