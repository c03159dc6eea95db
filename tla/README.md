# TLA+ models of IocpCppServer

IocpCppServer is a C++ game server for Windows: a networking and job library
(`GeonServer/ServerCore`), a chat server built on it (`GeonServer/Server`) and a
load generator (`GeonServer/DummyClient`). Every worker thread runs one loop:
take a completion from the I/O completion port and handle it, move the timers
that are due into their queues, execute queues of jobs. This directory models
the parts of the library where several threads meet, the buffers under them and
the chat server on top, checks the models with TLC on small instances and proves
their safety properties with TLAPS for all instances.

Paths below are relative to `src/GeonServer/ServerCore` unless they start with
another directory.

## 1. Inventory

| Component | State | Operations | Correct when |
|---|---|---|---|
| **JobQueue**, with **LockQueue** and **GlobalQueue** | `_jobs`, `_jobCount`; per thread `LCurrentJobQueue`; `GGlobalQueue` | `Push`, `Execute`, `ClearJobs`, `DoAsync` | one executor per queue; a non-empty queue is always in somebody's hands, and in one's only; jobs in order, each once |
| **JobTimer** | heap `_items`, flag `_distributing` | `Reserve`, `Distribute`, `Clear` | one distributor; each item pushed once, not before its tick |
| **Worker loop** (`Server/Server.cpp`, `ThreadManager`) | `LEndTickCount` per thread | `DoWorkerJob`, `DoGlobalQueueWork`, `DistributeReserveJobs` | every pushed job is executed some time; no queue captures a worker |
| **Session** | `_connected`, `_sendRegistered`, `_sendQueue`, `_recvBuffer`, four events with their `owner` and `sendBuffers` | `Send`, `Disconnect`, `Register*`, `Process*`, `HandleError` | one send under way; order kept; alive while the kernel uses it; no lost wake-up; callbacks in order; released once |
| **IocpCore** | the completion port | `Register`, `Dispatch` | a completion reaches the object that owns its event |
| **Service** | `_sessions`, `_sessionCount` | `AddSession`, `ReleaseSession`, `Broadcast`, `CreateSession`, `Start` | the set holds the connected sessions; the assertion of `ReleaseSession` holds |
| **Listener** | accept events, the listening socket | `StartAccept`, `RegisterAccept`, `ProcessAccept` | each accept event is registered again, with a session of its own |
| **Lock** | `_lockFlag` (16 bits owner, 16 bits read count), `_writeCount` | `WriteLock`, `WriteUnlock`, `ReadLock`, `ReadUnlock` | one writer or readers; recursion W-W and W-R; R-W forbidden |
| **DeadLockProfiler** (debug builds) | lock ids, order graph, per-thread lock stack | `PushLock`, `PopLock`, `CheckCycle` | crashes exactly when the recorded order has a cycle |
| **RecvBuffer**, framing in `PacketSession::OnRecv` | read and write position | `OnWrite`, `OnRead`, `Clean`, the header loop | the packets delivered are those sent, however the stream is cut |
| **SendBuffer** | chunks, open flag, used size, pool | `Open`, `Close`, `Pop`, `Push` | open buffers are disjoint; a chunk is recycled after its last user |
| **Game** (`Server/`) | players, `_currentPlayer`, `_room`, `Room::_players`, the session set | packet handlers, `Room::Enter/Leave/BroadCast`, `OnConnected/OnDisconnected` | the room holds the players of live sessions; chats in one order for all |
| **Database** | pool of connections, statement handles | `Pop`, `Push`, `Execute`, `Bind*` | a connection is used by one thread; all parameters bound before `Execute` |
| Start, shutdown, TLS | globals of `CoreGlobal.cpp` | constructor, destructor | destroyed after their users |
| Utilities, DummyClient, generated and vendored code | | | not modelled |

How they interact. `IocpCore::Dispatch` calls `Session::Dispatch` or
`Listener::Dispatch` on the worker that dequeued the completion. Session
callbacks run packet handlers, which call `DoAsync` on the `Room`, a `JobQueue`.
`DoAsync` may execute the queue on the spot, inside the completion handler, or
put it into `GGlobalQueue`, from where any worker takes it. Jobs call
`Session::Send`. `JobTimer::Distribute` pushes jobs without executing them.
`Session` enters and leaves the `Service` when it connects and disconnects.
`Lock` protects every container; `DeadLockProfiler` watches `Lock`.

What is hard: everything runs on any worker; the handlers of one session run on
several workers at once; atomics are combined without a lock (`_jobCount` with
`_jobs`, `_sendRegistered` with `_sendQueue`, `_connected`); the life of a
session hangs on the events the kernel holds; every kernel call may fail at
once. `PROJECT.json` lists the hazards one by one, with the property that would
notice each going wrong, or the reason why none does yet.

## 2. Modules

| Module | What it is |
|---|---|
| `SerialQueue` | what a job queue promises: jobs one at a time, in order, each at most once |
| `JobQueue` | `JobQueue.cpp`, `LockQueue.h`, `GlobalQueue.cpp`; refines `SerialQueue` |
| `JobScheduler` | the worker loop and the timer around `JobQueue` (it EXTENDS it), taking only steps of `JobQueue` on the queues |
| `SessionLife` | what a session promises to the class derived from it: the order of the callbacks |
| `Session` | one session, its service and the workers; refines `SessionLife` |
| `RWLock` | what a readers-writer lock promises |
| `Lock` | `Lock.cpp`: the lock word, recursion, crashes; refines `RWLock` |
| `DeadLockProfiler` | `DeadLockProfiler.cpp` around the calls of `Lock` (it EXTENDS it): the debug build |
| `Framing` | `RecvBuffer.cpp`, `ProcessRecv` and the header loop of `PacketSession::OnRecv` |
| `SendBuffer` | `SendBuffer.cpp` and `MakeSendBuffer`: chunks, pool and reference counts |
| `Accept` | `Listener.cpp`, the sets of `Service` and `GameSessionManager`, the life of several sessions |
| `Game` | the packet handlers, `GameSession` and `Room` on these sessions (it EXTENDS `Accept`) |
| `JobQueueProofs`, `JobSchedulerProofs`, `SessionProofs`, `LockProofs`, `ProfilerProofs`, `FramingProofs`, `SendBufferProofs`, `GameProofs` | the theorems about these modules (`ProfilerProofs` about `DeadLockProfiler`, `GameProofs` about `Accept` as well) |
| `MCJobQueue`, `MCJobScheduler`, `MCSession`, `MCLock`, `MCSendBuffer`, `MCGame` | symmetry sets and the lock names for TLC; `Framing` needs none |

Each component module has, before its actions, *faulty variants* of some of
them. They are no part of the specification: putting a variant in the place
of the action it resembles makes TLC report the property `PROJECT.json` pairs it
with, which shows that the property depends on that piece of code.

### JobQueue

One action is one atomic step: an atomic read-modify-write, a critical section,
or the start or end of a job; assignments to thread-local variables belong to a
neighbouring step. Several threads and queues; a thread may be in a job of one
queue (`execPc = "inJob"`) and in that job in a call of `Push` on any queue.

| Action | Code |
|---|---|
| `PushCount` | `fetch_add`, JobQueue.cpp:7 |
| `PushFirst`, `PushLater` | the push under the queue's lock, 8, and the test of 11 |
| `PushExecute`, `PushGlobal` | the two branches 14-22 |
| `PopGlobal` | `GGlobalQueue->Pop()` of ThreadManager.cpp:60 and the call of `Execute` |
| `PopAll` | 34-37. `LockQueue::PopAll` keeps its (recursive) lock over its calls of `Pop`, so it is one step |
| `StartJob`, `EndJob` | 38-39 |
| `FinishBatch` | `fetch_sub`, 42-46 |
| `Continue`, `HandOver` | the clock, 48-55; here either may happen |
| `ClearJobs` | JobQueue.h:35 |

`dropped` is a history variable: the jobs removed by `ClearJobs`, which
`_jobCount` keeps counting. A job is a model value; once the job it stands for
is destroyed the value is used for another one, so runs are infinite although
there are few values. `_jobCount` is an int32; it cannot reach 2^31 in a model
with finitely many live jobs unless `ClearJobs` is called for ever, which
`MaxDropped` cuts off.

### JobScheduler

Adds where a worker is in `DoWorkerJob` (`phase`), the clock against
`LEndTickCount` (`slice`: 0 before, 1 equal, 2 after - the code tests `>=` in
`Execute` and `>` in `DoGlobalQueueWork`, so the equal tick is a case of its
own) and the timer. An item is `waiting`, `due`, or in the `items` of the one
distributor. All its steps on queues are actions of `JobQueue`, conjoined with
the guard of the loop, so that the loop takes steps of `JobQueue` only (a lemma of
`JobSchedulerProofs`, and no property of a run); `ClearJobs` has no caller and is not
taken. `DistributorRunsNothing` is about what the loop itself decides: the distributor
pushes with `pushOnly` and so executes no queue while `_distributing` is set. The owner of
a reserved job is assumed alive, and items that are due come in no order.

### Session

A thread is in at most one completion handler (`handlerPc`), in it or alone in
one call of `Send` or `RegisterSend` (`sendPc`), and below these in one call of
`Disconnect` (`discPc`): three frames of its stack, the innermost one runs. The
two locks are taken as mutual exclusion; a critical section that contains no
other step is one action, and the two that do (`ProcessSend` calling
`RegisterSend`; `Broadcast` calling `Send`) keep `sessionLock` and `serviceLock`
between steps. Messages are numbered in the order in which they enter
`_sendQueue`. The kernel is external: an accepted operation completes later,
with bytes or with none (closed or failed connections are dispatched with no
bytes, IocpCore.cpp:37-44); a call fails at once with an error in `Errors`:
`"reset"` for the two codes that `HandleError` disconnects on, `"other"` for any
other code, `"disconnect"` for a failed `DisconnectEx`. `OnRecv` may return a
bad length. `OnConnected` and `OnRecv` may call `Send`.

The session starts where `ConnectEx` or the listener's accept is under way. A
`ConnectEx` that fails later is dispatched and handled like one that succeeds
(IocpCore.cpp:39-42), so it is the same step here; what is different afterwards,
that every call on the socket fails, is among the failures of the calls.

### Lock and DeadLockProfiler

A lock is its word in two halves, `owner` and `readCount`, and `writeCount`.
Threads use it through `WriteLockGuard` and `ReadLockGuard` only, as the code
does, so a thread gives its `guards` back in the reverse order; `call` is the
guard whose constructor is running. A compare-and-swap that fails is a step of its own
(`WriteFails`, `ReadFails`), and so is the load before `ReadLock`'s exchange
(`ReadLoad`), whose value may be stale when it is exchanged. The timeout may come
after any failed exchange, whatever the word is by then: the lock may already be free,
and `ReadLock` may have failed among readers only, because they changed the count
between its load and its exchange. `AddReader` adds one to the whole word: from the largest read count it would
carry into the owner bits. The assumption `ReadersAssumption` (all guards fit
into the count) is what keeps it from doing so, and `WordMatches` would notice.

| Action | Code |
|---|---|
| `Call` / `PushLock` | the constructor of a guard; in the debug build `DeadLockProfiler::PushLock` first |
| `WriteRecursive`, `ReadRecursive` | the owner locks again, Lock.cpp:12-18, 63-69 |
| `WriteAcquire`, `ReadAcquire` | the compare-and-swap that succeeds, 27-32, 77-79 |
| `WriteFails`, `ReadLoad`, `ReadFails` | a turn of the spinning loops that fails, 25-33, 75-80 |
| `WriteTimeout`, `ReadTimeout` | 35 and 82, after a failed turn |
| `WriteUnlock`, `WriteUnlockCrash`, `ReadUnlock` | 48-55, 95-98 |
| `PopLock`, `Mismatch`, `Release` | `DeadLockProfiler::PopLock`, then the unlock |

The checked composition is the debug build, `DeadLockProfiler!Spec`. Names are the
classes of the objects that own the locks. `Dfs` and `CheckCycle` are the code's
search, with the discovered order and the finished nodes; `HasCycle` is the
definition they are compared with. `SearchCorrect` says of the search alone that it
crashes on exactly the orders with a cycle, whichever ids they are among; `MCLock`
assumes it, so that TLC evaluates it on every order of three names. Two limits of the profiler show in what the
properties say: `SearchExact` compares the crash with the *recorded* order, which
holds an edge B to A after one thread has locked A, B and A again, so the crash
may accuse a program that cannot deadlock; and `NoSilentDeadlock` leaves out waits
among locks of one name, where the profiler records nothing. The run lets threads
break the rule "R -> W (X)" of Lock.h (`Upgrades`), and `CrashJustified` says what
the crashes of the unlocks then mean: `multipleUnlock` never happens, and
`unlockOrder` accuses a thread that wrote inside its own read guard. Of `timeout`
nothing is claimed, as it accuses nobody.

### Framing

A byte is named by its place in the stream; `bounds` says where the peer's packets
end, and is any cut of the stream into packets of at least a header and at most a
buffer. `Receive` is a completed `WSARecv` of any length up to the free space with
`OnWrite`; `ParsePacket` is one turn of the loop of `OnRecv`; `ParseEnd` is its end
with `OnRead`, `Clean` and `RegisterRecv`. What `header.size` reads where no header
is, and what `memcpy` leaves when source and destination overlap, is anything. The
sizes are constants: the code's are 4, 65536 and 10; nothing depends on the
values but through `HeaderSize <= BufferSize` and at least three buffers.

### SendBuffer

Places and sizes in chunks, not bytes. A reference is a thread's `current` chunk,
what `Pop` returned (`popped`) or the `region` of a buffer; `LastUse` says that a
reference given up is the last, and `Recycle` is the deleter `PushGlobal`. A
finished buffer may be dropped at any time by whatever thread (`Destroy`), because
sessions that send slowly keep it. `Pop` takes the latest chunk of the pool or a
new one; `Chunks` bounds how many there are.

### Accept and Game

`Accept` has the accept events (`pending` in the kernel or in their handler), the
life of each session and the two sets; the details of one session's life are those
of `Session`. `Game` adds the receive of each session (`recv`: registered, or the
place in the handler), the players, and the `Room`, a `JobQueue` of which only the
promise of `SerialQueue` is used: `DoAsync` appends to `jobs`, and one job at a
time is executed, by anybody. Of `Session` it uses the promise of `SessionLife`, for
each session: receives one at a time and after `OnConnected`, `OnDisconnected` once
and after `Disconnect`, but possibly while a receive is handled; on the server
`OnConnected` is one step, as it only adds the session to the manager.

| Action | Code |
|---|---|
| `RegisterAccept` | Listener.cpp:75-92, one attempt; the recursive call is the next |
| `AcceptCompleted` | `ProcessAccept` up to `ProcessConnect`, or its two failures |
| `AddSession`, `OnConnected` | `ProcessConnect` |
| `RecvBegin`, `RecvNothing`, `RecvEnd` | `ProcessRecv`; between begin and end the packets it holds are handled |
| `Handle_C_LOGIN`, `Handle_C_CHAT` | the handlers |
| `Handle_C_ENTER_GAME`, `EnterJob`, `EnterSend` | the handler in three steps: it sets `_currentPlayer` and reads it twice more |
| `OnDisconnected`, `Leave`, `Clear`, `ReleaseSession` | `ProcessDisconnect` on the worker of the disconnect |
| `EnterOrLeave`, `BroadCast`, `SendChat` | the jobs of the `Room` |

`Handle_C_ENTER_GAME` checks nothing, and neither does the model: a client may enter
before its login, with an index that was not offered, or again. The first two index
`_players` outside its bounds, which is a crash (`noPlayer`) here; the third replaces
`_currentPlayer`. A login is sent once, as DummyClient does. A null player is used by
`EnterSend`, or by a job of the `Room` that was reserved with it (`NullPlayerJob`).
A completed receive may be handled after `OnDisconnected`, or while it runs.

Four history variables say who is to blame: `late` has the sessions of which a handler
met `OnDisconnected`, `asked` what each client has sent (`"wrong"`: an enter before the
login or with a wrong index; `"again"`: a second enter), `repeats` counts the latter,
and `crashed` is the session whose handler or job used the missing player.
`CrashOnlyLate` says of that session, and not of any other, that it is late or its own
client was wrong, and that a null player needs the former. `NoGhost` excuses late
sessions, whose `Enter` may be pushed behind the `Leave`, and clients that entered
again, of whose two players `OnDisconnected` removes one. Lives are not reused: a
session object is connected once.

## 3. Runs

| Run | Instance | Shows |
|---|---|---|
| `jobqueue` | 3 threads, 2 queues, 4 jobs, at most 2 dropped per queue; symmetric | `TypeOK`, `MutualExclusion`, `SingleResponsible`, `CountBalance`, `ImplementsSerialQueue` |
| `jobqueue_clear` | 2 threads, 1 queue, 2 jobs, at most 1 dropped | violates `StopsWhenEmpty` (finding 1) |
| `scheduler` | 2 threads, 2 queues, 3 jobs; symmetric | `OneDistributor`, `TimerJobOnce`, `DistributorRunsNothing` |
| `scheduler_live` | 2 threads, 1 queue, 2 jobs; fair | `EveryJobRuns`, `ExecuteReturns` |
| `scheduler_one` | 1 thread, 2 queues, 3 jobs; fair | `EveryJobRuns` |
| `session` | 3 threads, 4 sends, all errors, broadcasts; symmetric | `SendExclusive`, `OwnerWhilePending`, `WireOrdered`, `ReleaseInService` |
| `session_live` | 3 threads, 3 sends, errors `"reset"`, no broadcast; fair | `NoStrandedSend`, `ReceiveAlive`, `ImplementsSessionLife`, `Released`, `Delivered` |
| `session_strand` | 2 threads, 2 sends, errors `"other"` | violates `NoStrandedSend` (finding 2) |
| `lock` | 2 threads, up to 3 guards each, 3 locks of 3 names, one also read, upgrades; symmetric | `Exclusion`, `WordMatches`, `CrashJustified`, `StackMatches`, `SearchExact`, `NoSilentDeadlock`, `ImplementsRWLock` |
| `framing` | header 2, buffer 4, three buffers, stream of 16 bytes; fair | `InOrder`, `NothingLost`, `RoomForReceive`, `EveryPacketDelivered` |
| `sendbuffer` | 2 threads, 4 chunks of 5, 3 buffers, sizes 2, 3, 6; symmetric | `Disjoint`, `ChunkAccounted`, `AssertionsHold` |
| `game` | 1 accept event, 2 sessions, 2 players each, 2 chats or repeated enters; symmetric | `ServiceExact`, `NoGhost`, `CrashOnlyLate`, `ChatOrder`, `OwnChatHeard` |

Why these bounds. Three threads on two queues give an executor, a first pusher
and a later pusher of one queue at once, and a job of one queue that pushes on
the other while a third thread executes that one; four jobs fill a batch, the
queue behind it and two pushers. In `scheduler` the second worker meets the
distributor in every state, and the third job may be a timer item while a queue
is executed and pushed on. In `session` three threads put a sender, the handler of
the send completion and a disconnecting thread in competition; four sends let the
queue fill twice while a send is under way. In `lock` three
guards are what recursion needs (write, read, write of one lock), the upgrade of two
readers is a wait within one name, which the profiler does not see, and three names
give cycles of two and three. In `framing` sixteen bytes fill the buffer of twelve and make `Clean` move
data, with every cut into packets of two to four bytes and every cut into receives.
In `sendbuffer` a chunk holds one or two packets, so that it is replaced while
packets of it live; the size 6 is the packet larger than a chunk. In `game` the
second session is accepted after the first, by the same event or after a failed
accept, and two chats are what an order needs; one accept event is enough because
events share nothing but the sets, which the sessions share as well. The chats, and
the enters that are not the first of their session, are at most `MaxChats` together,
and such an enter, like a chat before the first enter, is among the first `MaxOdd` of
them (1: a chat then follows and meets a session with two players, or one that enters
late). `FirstIndices` are the indices of a first enter, one of the two, because the
players of a session are alike before it, and `AgainIndices` those of another enter,
the other one, so that the session has a second player. The theorems hold for any
values of these bounds.

Deadlock is checked in the JobQueue and JobScheduler runs. It is not in the others:
when the bounds are used up, the process has crashed, or the connection is closed,
nothing is left to do.

Each module's type invariant is the first conjunct of one of its invariants
(`TypeOK` of `JobQueue` is a property of its own).

`NoStrandedSend`, `ReceiveAlive`, `ImplementsSessionLife`, `Released` and `Delivered` are
checked where they are meant to hold. With `"other"` among the errors the first
two fail (a failed `WSASend` is finding 2; after a failed `WSARecv` the session
is connected and deaf, which the TODO of `HandleError` leaves open); with
`"disconnect"` a session is never released; with broadcasts `OnDisconnected` can
come before `OnConnected`, because the session is in the service before the
callback is called. The server program does not broadcast.

Fairness. In `Framing`, the handler runs and the bytes of the stream arrive while
the connection lives (weak: nothing else disables either). In `Session`, threads run:
weak fairness of what a thread does inside its calls, and no more. Nothing is assumed
of the peer or of the kernel, which may keep an accepted operation for ever: a peer
that stops reading leaves a `WSASend` pending, and what is queued behind it waits. So
`Delivered` and `Released` are conditional: the one presumes that sends complete again
and again (`SendsComplete`), the other that disconnects do (`DisconnectsComplete`).
Neither presumes a receive. In `JobScheduler`, threads run
and time passes for every slice and every timer item; `Dispatch` returns and a
job ends, although either may push again and again before it does (strong, as
pushing disables them for a while); and if workers reach `DoGlobalQueueWork` in
time again and again with work in the global queue, some worker takes a queue at
last (strong: the tick may pass just before the pop, but not every time).
`EveryJobRuns` moreover presumes that workers reach `DoGlobalQueueWork` in time
again and again (`InTime`). The presumption is needed: if the handlers, with the
queues they execute on the spot, use up every slice of every worker, the queues
in `GGlobalQueue` wait for ever.

## 4. Findings

1. `ClearJobs` empties the queue without lowering `_jobCount`. The comment of
   JobQueue.cpp:41 says that `Execute` stops when no job is left; after
   `ClearJobs` it never does (`jobqueue_clear`). Nothing calls `ClearJobs` today.
2. A `WSASend` that fails at once with an error other than a reset or aborted
   connection stores false into `_sendRegistered` and leaves the messages that
   others have queued in the meantime (Session.cpp:204-207), against the rule of
   lines 23-24 that a RegisterSend is registered (`session_strand`).

## 5. Proofs

Every safety property and every refinement that a passing run checks is a theorem of
its specification, for all values of the constants that satisfy the assumptions of
the modules: any finite set of threads, any queues, jobs, sessions, locks, chunks,
buffers and sizes, and any value of the bounds. The assumptions are named in the
module that declares the constant: null values are no members of their sets, bounds
are natural numbers, and the ones with content are `ReadersAssumption` (the read
guards of all threads fit into the read count), `NamesAssumption` (the debug build
knows finitely many classes), `SizesAssumption` and `CountAssumption` (a header is no
longer than a buffer, and there are three buffers or more; the code has ten),
`SessionsAssumption` (a session for every accept event) and `IndicesAssumption` (a
client that logs in has a player).

| Module | Theorems |
|---|---|
| `JobQueueProofs` | `TypeCorrect`, `InvariantHolds`, `MutuallyExclusive`, `SinglyResponsible`, `CountBalanced`, `JobQueueImplementsSerial`, `StopsIfNeverCleared` |
| `JobSchedulerProofs` | `DistributorAlone`, `TimerJobsOnce`, `DistributorOnlyPushes`, and, as the loop takes only steps of `JobQueue`, `SchedulerSafe`, `SchedulerSerial` |
| `SessionProofs` | `SessionInvariant`, `OneSender`, `PendingOwned`, `MessagesInOrder`, `ReleaseFindsSession`, `ReceiverAlive`, `SenderAlive`, `SessionImplementsLife` |
| `LockProofs` | `LockInvariant`, `WordsTrue`, `WritersAlone`, `CrashesJustified`, `LockImplementsRWLock` |
| `ProfilerProofs` | `ProfilerInvariant`, `StacksMatch`, `DebugBuildSafe`, `DebugBuildImplementsRWLock`, `CyclesReported`, `CirclesAnnounced` |
| `FramingProofs` | `FramingInvariant`, `PacketsInOrder`, `RoomAlways`, `NoByteLost` |
| `SendBufferProofs` | `SendBufferInvariant`, `PacketsDisjoint`, `OnlyLargePacketsAssert`, `ChunksAccounted` |
| `GameProofs` | `GameInvariant`, `SetsExact`, `GhostsLeave`, `CrashesLate`, `ChatsInOrder`, `AuthorsHear` |

Some theorems have a condition of their own, under which the property is meant (and
checked, section 3):

- `StopsIfNeverCleared`: nobody calls `ClearJobs` (`NeverClears`). This is the other
  half of finding 1: nothing else keeps `Execute` from stopping.
- `ReceiverAlive`, `SenderAlive`: calls of the kernel fail with resets only
  (`OnlyResets`); finding 2 is what happens otherwise.
- `SessionImplementsLife`: nobody broadcasts (`NobodyBroadcasts`), whatever fails.
- `CyclesReported`, `CirclesAnnounced`: `SearchCorrect`, which is about the recursive
  search on a fixed order and has no state in it. The provers cannot show it (below);
  TLC evaluates it on all orders of three names.

All proofs have the same shape: an inductive invariant, one lemma per action or group
of actions that change the same part, and a theorem that combines them. TLC checked
each inductive invariant on a run's instance before it was proved. What the
invariants add to the properties, and why:

*JobQueue.* That a second thread cannot begin to execute a queue depends on who is
*responsible* for it: a thread that executes it, a first pusher that found the count
at zero and has not decided yet, or an entry of `GGlobalQueue`. `IInv` says pair by
pair that no two of these exist for one queue (`Exclusive`), that one exists exactly
while `_jobCount` is positive (`HeldIffCounted`), and what the count is made of
(`CountBalance`): the jobs in the queue, those announced by pushers before they are
appended, those in the executor's vector (`Frames` says that there is none outside
the round) and those dropped. Then `fetch_add` returning zero means that nobody was
responsible, and `fetch_sub` returning the size of the vector means that no job is
left or announced, so the executor may let go. Cardinalities only appear in
`CountBalance` (`Base` and its lemmas) and in the last step, which turns the pairwise
statement into `Responsible(q) = 1`.

*JobScheduler.* Its steps are steps of `JobQueue` as soon as one worker distributes at
a time, which carries everything proved of `JobQueue` over. `TimerJobOnce` needs
`ItemsOnce`: an item is in one place, and items and live jobs have no job in common.
`DistributorRunsNothing` needs `OnlyPushes`: a worker enters Distribute outside every
execution, and what it pushes there it pushes with `pushOnly`, so that no step of it
begins one.

*Session.* Rights are passed from hand to hand: to register a receive (`OneReceiver`),
to use the send event (`SendRight`: while it is not registered its buffers are empty),
to disconnect (`CloseOnce`). `Alone` says that before `AddSession` there is nothing but
the connection, `Frames` which calls are nested in which, and `PushOrder` that the
wire, the buffers about to be sent and the queue hold the messages in this order,
which is what a `RegisterSend` that takes the whole queue keeps.

*Lock.* The invariant is `Words`: owner bits, read count and `_writeCount` say who has
which guards, counted as sets of places in the guards of all threads. The assumption
on the readers bounds these sets, so that the count never carries into the owner
bits. `Exclusion` follows from one owner per word. That an exchange may use a stale
`loaded` count does no harm, because it succeeds only if the count is still the same. `Holds`, the guards without their
multiplicity, is the refinement mapping to `RWLock`.

*DeadLockProfiler.* A thread's stack has the ids of its guards' names and its call's
(`Stacked`, for which no two names may share an id), and different neighbours on it
are edges of the history (`Chained`). So `PopLock` finds what it expects, and a release
is an `Unlock` of `Lock`, whose theorems hold in the debug build. For
`CirclesAnnounced`, take the ids on the stacks of threads that wait for each other in a
circle. Each id below the top of a stack has a later neighbour that differs, and so an
edge to another of these ids. If all ids had such an edge there would be a cycle in the
history, and the profiler would have crashed the process. So some id is only on top, and
the threads whose call it is wait for each other: all for locks of that one name.

*Framing.* `Contents`: the buffer from the read position on, less what the loop has
processed, is the stream from the end of the last packet delivered. `Waiting`: between
receives less than a packet is left, hence less than one buffer, so that what `Clean`
moves does not overlap its destination when at most one of three buffers is free.

*SendBuffer.* `ChunksOwned`: a chunk is with one thread, with finished buffers only, or
in the pool, once; `BelowMark`: finished packets lie below the used size of their chunk,
and the next one is cut above it (`Making`).

*Accept and Game.* `AcceptOwn`: an accept has a session of its own. Of the room:
whoever enters, is in it or is reached by a broadcast is the current player of its
session, until it is cleared or enters again, and a job has a null player only if its
session is late (`Entered`); behind the `Enter` of a session that has left its `Leave` waits
(`LeftFollowed`); chats wait in their order and members have got only earlier ones
(`ChatsWait`); and a member that chats is in the room, or its `Enter` waits before its
chat (`Joined`), because both come from the one thread that handles its packets.

Only model-checked are the liveness properties (`EveryJobRuns`, `ExecuteReturns`,
`EveryPacketDelivered`, `Released`, `Delivered`), as fairness and ENABLED are out of the
provers' reach, and `SearchCorrect`: it is about a recursive function and folds over
every order, and what such a definition computes takes an induction whose theorems
have an operator as a parameter, which the provers cannot instantiate.

## 6. Not modelled

- *Vendored and generated code*: the protobuf library and the generated messages
  are most of the repository's lines (all but about four thousand). They are
  third-party or generated, and the server uses them to encode and decode messages
  without shared state. This is why the models, which cover nearly all of the
  concurrent code of `ServerCore` and `Server`, map to a small share of the lines.
- *Database* (`DBConnectionPool`, `DBConnection`, `DBBind`): `main` alone uses it,
  before the workers start, with one connection; what a statement does is ODBC's.
- *Connect side*: `RegisterConnect` and `ClientService::Start`. Only DummyClient
  connects; what follows the completion is in `Session`.
- *Start and shutdown*: the globals are built and destroyed by one thread, no
  worker is ever stopped, and `StartAccept` that fails ends the program.
- *Utilities, DummyClient, console output*: wrappers of Winsock and I/O. DummyClient's
  `Broadcast` from a thread of its own is an action of `Session`.
- *Malformed packets*: `OnRecv` validates nothing (its TODO says so); the peer of
  `Framing` sends well-formed packets, and what a size of zero does is plain from the
  text and listed among the hazards. Of what the clients of `Game` may send in a wrong
  order or with wrong contents, the enters are modelled; a second login (it adds to
  `_players`) and packets with an unknown id are not.
- *Packet contents*: a chat is a number, a message its place or its size.
- *Destruction of a job queue*: `GRoom` is a global; `JobTimer` would drop its jobs.
- *16-bit limits*: the wrap of `packetSize` (ClientPacketHandler.h:58-59) is not
  modelled; the carry of the read count is modelled and excluded by an assumption.

## 7. Plan

Modelling is as far as the program's own concurrent code goes, and its safety
properties are proved. Left, in this order:

1. `SearchCorrect`: replace the condition of `CyclesReported` and `CirclesAnnounced` by
   a proof, at least in one direction (a search that crashes has found a cycle), by a
   least counterexample instead of induction over the order of discovery (`LeastOne` of
   `ProfilerProofs` is such an argument).
2. The action properties that the refinements imply, stated on their own where a
   reader would look for them (what a step may never do to a session, a lock word, a
   room).
