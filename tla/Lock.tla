---------------------------------- MODULE Lock ----------------------------------
(***************************************************************************)
(* The readers-writer spin locks of ServerCore/Lock.cpp under threads that  *)
(* use them through WriteLockGuard and ReadLockGuard only: a thread releases *)
(* its guards in the reverse order.  A lock is one 32-bit word, the id of    *)
(* its owner above the number of readers, changed by compare-and-swap and    *)
(* fetch_add.  _writeCount is touched by the owner alone.                    *)
(***************************************************************************)
EXTENDS Naturals, Sequences, FiniteSets

CONSTANTS
    Threads,        \* the threads, by their LThreadId
    NoThread,       \* the owner bits are zero: no thread has that id
    Locks,
    ReadLocks,      \* the locks that are also locked for reading
    Upgrades,       \* TRUE iff threads break the rule R -> W (X) of Lock.h
    ReadMax,        \* READ_COUNT_MASK
    MaxDepth        \* bound: the guards a thread has at a time

ASSUME ThreadsAssumption == IsFiniteSet(Threads) /\ NoThread \notin Threads
ASSUME UseAssumption == ReadLocks \subseteq Locks /\ Upgrades \in BOOLEAN
ASSUME DepthAssumption == MaxDepth \in Nat /\ ReadMax \in Nat
\* The read guards of all threads fit into the read count of one lock.
ASSUME ReadersAssumption == Cardinality(Threads) * MaxDepth <= ReadMax

VARIABLES
    owner,          \* per lock, the owner bits of _lockFlag
    readCount,      \* per lock, the read count of _lockFlag
    writeCount,     \* per lock, _writeCount
    guards,         \* per thread, its guards, the latest last
    call,           \* per thread, no or one guard it is constructing
    loaded,         \* per thread in ReadLock, no or one read count it has loaded
    failed,         \* the threads in a call whose latest exchange has failed
    crash           \* why the process died

words == <<owner, readCount, writeCount>>
spins == <<loaded, failed>>
lockVars == <<words, guards, call, spins, crash>>

-------------------------------------------------------------------------------

Guards == [lock : Locks, mode : {"read", "write"}]
Reasons == {"no", "timeout", "unlockOrder", "multipleUnlock", "deadlock", "invalidUnlock"}
Owners == Threads \cup {NoThread}

\* The values of the variables.
LockTypeOK ==
    /\ owner \in [Locks -> Owners]
    /\ readCount \in [Locks -> 0 .. ReadMax]
    /\ writeCount \in [Locks -> Nat]
    /\ guards \in [Threads -> Seq(Guards)]
    /\ \A t \in Threads : call[t] \in {{}} \cup {{g} : g \in Guards}
    /\ DOMAIN call = Threads
    /\ \A t \in Threads : Len(guards[t]) + Cardinality(call[t]) <= MaxDepth
    /\ loaded \in [Threads -> SUBSET (0 .. ReadMax)] /\ failed \subseteq Threads
    /\ crash \in Reasons

LockInit ==
    /\ owner = [l \in Locks |-> NoThread]
    /\ readCount = [l \in Locks |-> 0]
    /\ writeCount = [l \in Locks |-> 0]
    /\ guards = [t \in Threads |-> <<>>]
    /\ call = [t \in Threads |-> {}]
    /\ loaded = [t \in Threads |-> {}] /\ failed = {}
    /\ crash = "no"

Has(t, g) == \E i \in DOMAIN guards[t] : guards[t][i] = g
Reads(t, l) == Has(t, [lock |-> l, mode |-> "read"])
Writes(t, l) == Has(t, [lock |-> l, mode |-> "write"])

Running(t) == crash = "no" /\ call[t] = {}
Wants(t, l, mode) == crash = "no" /\ call[t] = {[lock |-> l, mode |-> mode]}
Top(t) == guards[t][Len(guards[t])]
Releases(t, l, mode) ==
    /\ Running(t) /\ guards[t] # <<>>
    /\ Top(t) = [lock |-> l, mode |-> mode]

Acquired(t) ==
    /\ guards' = [guards EXCEPT ![t] = @ \o <<CHOOSE g \in call[t] : TRUE>>]
    /\ call' = [call EXCEPT ![t] = {}]
    /\ loaded' = [loaded EXCEPT ![t] = {}] /\ failed' = failed \ {t}

Released(t) == guards' = [guards EXCEPT ![t] = SubSeq(@, 1, Len(@) - 1)]

\* Adding one to the word: from the largest read count it carries into the owner.
AddReader(l) ==
    IF readCount[l] < ReadMax
    THEN readCount' = [readCount EXCEPT ![l] = @ + 1] /\ UNCHANGED owner
    ELSE /\ readCount' = [readCount EXCEPT ![l] = 0]
         /\ \E o \in Owners \ {owner[l]} : owner' = [owner EXCEPT ![l] = o]

-------------------------------------------------------------------------------
(* Faulty variants of the steps below, used to test the properties. *)

\* WriteLock's compare-and-swap looks at the owner bits only.
WriteAcquireAmongReaders(t, l) ==
    /\ Wants(t, l, "write") /\ owner[l] = NoThread
    /\ owner' = [owner EXCEPT ![l] = t]
    /\ writeCount' = [writeCount EXCEPT ![l] = @ + 1]
    /\ Acquired(t)
    /\ UNCHANGED <<readCount, crash>>

\* ReadLock of the owner returns without counting the reader.
ReadRecursiveUncounted(t, l) ==
    /\ Wants(t, l, "read") /\ owner[l] = t
    /\ Acquired(t)
    /\ UNCHANGED <<owner, readCount, writeCount, crash>>

\* WriteUnlock stores EMPTY_FLAG without waiting for the last write guard.
WriteUnlockAtOnce(t, l) ==
    /\ Releases(t, l, "write") /\ readCount[l] = 0
    /\ writeCount' = [writeCount EXCEPT ![l] = @ - 1]
    /\ owner' = [owner EXCEPT ![l] = NoThread]
    /\ Released(t)
    /\ UNCHANGED <<readCount, call, spins, crash>>

\* ReadLock stores the loaded count plus one instead of exchanging it.
ReadAcquireStored(t, l) ==
    /\ Wants(t, l, "read") /\ owner[l] = NoThread
    /\ \E n \in loaded[t] : readCount' = [readCount EXCEPT ![l] = n + 1]
    /\ Acquired(t)
    /\ UNCHANGED <<owner, writeCount, crash>>

-------------------------------------------------------------------------------
(* The steps of WriteLock, ReadLock and the two unlocks. *)

\* The constructor of a guard calls WriteLock or ReadLock.  To write what the
\* thread reads breaks the rule of Lock.h.
Call(t, l, mode) ==
    /\ Running(t)
    /\ Len(guards[t]) < MaxDepth
    /\ mode = "read" => l \in ReadLocks
    /\ mode = "write" /\ Reads(t, l) => Upgrades
    /\ call' = [call EXCEPT ![t] = {[lock |-> l, mode |-> mode]}]
    /\ UNCHANGED <<words, guards, spins>>

\* The owner bits hold the thread's own id.
WriteRecursive(t, l) ==
    /\ Wants(t, l, "write") /\ owner[l] = t
    /\ writeCount' = [writeCount EXCEPT ![l] = @ + 1]
    /\ Acquired(t)
    /\ UNCHANGED <<owner, readCount, crash>>

\* compare_exchange_strong from EMPTY_FLAG.
WriteAcquire(t, l) ==
    /\ Wants(t, l, "write") /\ owner[l] = NoThread /\ readCount[l] = 0
    /\ owner' = [owner EXCEPT ![l] = t]
    /\ writeCount' = [writeCount EXCEPT ![l] = @ + 1]
    /\ Acquired(t)
    /\ UNCHANGED <<readCount, crash>>

\* fetch_add by the owner.
ReadRecursive(t, l) ==
    /\ Wants(t, l, "read") /\ owner[l] = t
    /\ AddReader(l)
    /\ Acquired(t)
    /\ UNCHANGED <<writeCount, crash>>

\* The exchange fails: the word is not EMPTY_FLAG.
WriteFails(t, l) ==
    /\ Wants(t, l, "write") /\ owner[l] # t
    /\ owner[l] # NoThread \/ readCount[l] # 0
    /\ failed' = failed \cup {t}
    /\ UNCHANGED <<words, guards, call, loaded, crash>>

\* A turn of ReadLock's loop begins: it loads the read count.
ReadLoad(t, l) ==
    /\ Wants(t, l, "read") /\ owner[l] # t /\ loaded[t] = {}
    /\ loaded' = [loaded EXCEPT ![t] = {readCount[l]}] /\ failed' = failed \ {t}
    /\ UNCHANGED <<words, guards, call, crash>>

\* compare_exchange_strong from the loaded count, without owner.
ReadAcquire(t, l) ==
    /\ Wants(t, l, "read") /\ owner[l] = NoThread /\ readCount[l] \in loaded[t]
    /\ AddReader(l)
    /\ Acquired(t)
    /\ UNCHANGED <<writeCount, crash>>

\* The exchange fails: there is an owner, or other readers have come or gone.
ReadFails(t, l) ==
    /\ Wants(t, l, "read") /\ loaded[t] # {}
    /\ owner[l] # NoThread \/ readCount[l] \notin loaded[t]
    /\ loaded' = [loaded EXCEPT ![t] = {}] /\ failed' = failed \cup {t}
    /\ UNCHANGED <<words, guards, call, crash>>

\* ACQUIRE_TIMEOUT_TICK has passed and the latest exchange has failed, whatever the
\* word is by now.
WriteTimeout(t, l) ==
    /\ Wants(t, l, "write") /\ t \in failed
    /\ crash' = "timeout"
    /\ UNCHANGED <<words, guards, call, spins>>

ReadTimeout(t, l) ==
    /\ Wants(t, l, "read") /\ t \in failed
    /\ crash' = "timeout"
    /\ UNCHANGED <<words, guards, call, spins>>

WriteUnlock(t, l) ==
    /\ Releases(t, l, "write") /\ readCount[l] = 0
    /\ writeCount' = [writeCount EXCEPT ![l] = @ - 1]
    /\ owner' = IF writeCount[l] = 1 THEN [owner EXCEPT ![l] = NoThread] ELSE owner
    /\ Released(t)
    /\ UNCHANGED <<readCount, call, spins, crash>>

\* The crash of WriteUnlock: the lock has readers.
WriteUnlockCrash(t, l) ==
    /\ Releases(t, l, "write") /\ readCount[l] # 0
    /\ crash' = "unlockOrder"
    /\ UNCHANGED <<words, guards, call, spins>>

\* fetch_sub, and the crash when there was no reader.
ReadUnlock(t, l) ==
    /\ Releases(t, l, "read")
    /\ IF readCount[l] = 0
       THEN crash' = "multipleUnlock" /\ UNCHANGED <<readCount, guards>>
       ELSE /\ readCount' = [readCount EXCEPT ![l] = @ - 1]
            /\ Released(t) /\ UNCHANGED crash
    /\ UNCHANGED <<owner, writeCount, call, spins>>

Acquire(t, l) == WriteRecursive(t, l) \/ WriteAcquire(t, l) \/ ReadRecursive(t, l) \/ ReadAcquire(t, l)
Spin(t, l) == WriteFails(t, l) \/ ReadLoad(t, l) \/ ReadFails(t, l)
Timeout(t, l) == WriteTimeout(t, l) \/ ReadTimeout(t, l)
Unlock(t, l) == WriteUnlock(t, l) \/ WriteUnlockCrash(t, l) \/ ReadUnlock(t, l)

LockNext == \E t \in Threads, l \in Locks :
    \/ \E mode \in {"read", "write"} : Call(t, l, mode) /\ UNCHANGED crash
    \/ Acquire(t, l) \/ Spin(t, l) \/ Timeout(t, l) \/ Unlock(t, l)

LockSpec == LockInit /\ [][LockNext]_lockVars

-------------------------------------------------------------------------------
(* Properties. *)

ReadGuards(l) == {r \in Threads \X (1 .. MaxDepth) :
    /\ r[2] <= Len(guards[r[1]])
    /\ guards[r[1]][r[2]] = [lock |-> l, mode |-> "read"]}

WriteGuards(t, l) == {i \in 1 .. MaxDepth :
    /\ i <= Len(guards[t])
    /\ guards[t][i] = [lock |-> l, mode |-> "write"]}

\* A thread that writes is the only one inside: nobody else writes or reads under
\* the same lock, although owner and readers share one word that is changed by
\* four kinds of atomic operation.
Exclusion ==
    \A l \in Locks, t, u \in Threads :
        t # u /\ Writes(t, l) => ~Writes(u, l) /\ ~Reads(u, l)

\* The word tells the truth in every state: the owner bits name the thread with a
\* write guard, the read count is the number of read guards of all threads and
\* does not reach the owner bits, _writeCount is the owner's recursion.  Nothing
\* is leaked when guards nest in any permitted way.
WordMatches ==
    /\ LockTypeOK
    /\ \A l \in Locks :
           /\ \A t \in Threads : owner[l] = t <=> Writes(t, l)
           /\ readCount[l] = Cardinality(ReadGuards(l))
           /\ owner[l] = NoThread => writeCount[l] = 0
           /\ \A t \in Threads : owner[l] = t => writeCount[l] = Cardinality(WriteGuards(t, l))

Nested(t, l) == \E i, j \in DOMAIN guards[t] :
    /\ i < j
    /\ guards[t][i] = [lock |-> l, mode |-> "read"]
    /\ guards[t][j] = [lock |-> l, mode |-> "write"]

\* The unlocks accuse the right program.  A read guard is never found released
\* twice, and WriteUnlock finds readers only if its thread wrote inside its own read
\* guard.  (The timeout accuses nobody: ReadLock may run into it among readers only.)
CrashJustified ==
    /\ crash # "multipleUnlock"
    /\ crash = "unlockOrder" => \E t \in Threads, l \in Locks : Nested(t, l)

\* Who holds which lock how, however often.
Holds ==
    UNION {{<<t, guards[t][i].lock, guards[t][i].mode>> : i \in DOMAIN guards[t]} : t \in Threads}

RW == INSTANCE RWLock WITH holds <- Holds

\* Spinning, recursion and the counting in one word implement a readers-writer
\* lock: the guards that threads have are granted and returned by its rules.
ImplementsRWLock == RW!Spec

=================================================================================
