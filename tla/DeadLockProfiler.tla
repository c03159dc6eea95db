----------------------------- MODULE DeadLockProfiler -----------------------------
(***************************************************************************)
(* The debug build: every lock operation first tells DeadLockProfiler       *)
(* (ServerCore/DeadLockProfiler.cpp), which records which name was locked   *)
(* while which other was on top of the thread's stack, and crashes as soon  *)
(* as a new pair closes a cycle.  A name is the class of the object that     *)
(* owns the lock (typeid(this).name() in CoreMacro.h), so several locks may  *)
(* share one.  Ids are handed out in the order of the first PushLock.        *)
(***************************************************************************)
EXTENDS Lock, SequencesExt

CONSTANTS Names, NameOf

ASSUME NamesAssumption == NameOf \in [Locks -> Names] /\ IsFiniteSet(Names)

VARIABLES
    idToName,       \* _idToName and _nameToId: the name with id i at place i + 1
    lockHistory,    \* _lockHistory: pairs of ids
    lockStack       \* per thread, LLockStack

profilerVars == <<idToName, lockHistory, lockStack>>
vars == <<lockVars, profilerVars>>

-------------------------------------------------------------------------------

Ids == 0 .. Cardinality(Names) - 1

\* The values of the variables.
ProfilerTypeOK ==
    /\ idToName \in Seq(Names) /\ IsInjective(idToName)
    /\ lockHistory \subseteq {e \in Ids \X Ids : e[1] # e[2]}
    /\ lockStack \in [Threads -> Seq(Ids)]

Init ==
    /\ LockInit
    /\ idToName = <<>>
    /\ lockHistory = {}
    /\ lockStack = [t \in Threads |-> <<>>]

IdOf(name, ids) == CHOOSE i \in Ids : i < Len(ids) /\ ids[i + 1] = name

-------------------------------------------------------------------------------
(* The search of CheckCycle: s has _discoveredOrder, _discoveredCount, _finished *)
(* and whether the search has crashed the process.                               *)

Successors(here, edges) == {there \in Ids : <<here, there>> \in edges}

Searches == [order : [Ids -> Ids \cup {-1}], count : 0 .. Cardinality(Names),
             finished : SUBSET Ids, crashed : BOOLEAN]

Dfs(edges) ==
    LET visit[here \in Ids, s \in Searches] ==
            LET Visit(u, there) ==
                    IF u.crashed THEN u
                    ELSE IF u.order[there] = -1 THEN visit[there, u]
                    ELSE [u EXCEPT !.crashed = u.order[here] >= u.order[there]
                                               /\ there \notin u.finished]
                discovered == [s EXCEPT !.order[here] = s.count, !.count = @ + 1]
                visited == FoldLeft(Visit, discovered, SetToSortSeq(Successors(here, edges), <))
            IN  IF s.crashed \/ s.order[here] # -1 THEN s
                ELSE [visited EXCEPT !.finished = @ \cup {here}]
    IN  visit

\* TRUE iff the search from every id in turn crashes the process.
CheckCycle(edges, lockCount) ==
    LET start == [order |-> [i \in Ids |-> -1], count |-> 0, finished |-> {}, crashed |-> FALSE]
        Search(s, here) == Dfs(edges)[here, s]
    IN  FoldLeft(Search, start, [i \in 1 .. lockCount |-> i - 1]).crashed

-------------------------------------------------------------------------------
(* Faulty variants of the definitions below, used to test the properties. *)

\* PushLock takes the first lock of the thread for the one it has locked last.
HeldFirst(t) == {lockStack[t][i] : i \in DOMAIN lockStack[t] \cap {1}}

\* PopLock leaves the id on the stack.
PopLockForgotten(t) == UNCHANGED lockStack

\* PushLock searches before it records the edge.
ClosesLate(edges, ids) == edges # lockHistory /\ CheckCycle(lockHistory, Len(ids))

-------------------------------------------------------------------------------
(* The steps of the profiler, each before the lock's own step. *)

\* The name gets an id if it has none.
NamesWith(name) == IF name \in Range(idToName) THEN idToName ELSE Append(idToName, name)

\* The id on top of the stack, if there is one.
HeldLast(t) == IF lockStack[t] = <<>> THEN {} ELSE {Last(lockStack[t])}

\* The order has grown, and the search crashes on it.
Closes(edges, ids) == edges # lockHistory /\ CheckCycle(edges, Len(ids))

\* An edge from the top of the stack to the id, if they differ; if it is new, the search.
PushLock(t, l, mode) ==
    LET ids == NamesWith(NameOf[l])
        id == IdOf(NameOf[l], ids)
        edges == lockHistory \cup {<<held, id>> : held \in HeldLast(t) \ {id}}
    IN  /\ Call(t, l, mode)
        /\ idToName' = ids
        /\ lockHistory' = edges
        /\ IF Closes(edges, ids)
           THEN crash' = "deadlock" /\ UNCHANGED lockStack
           ELSE UNCHANGED crash /\ lockStack' = [lockStack EXCEPT ![t] = Append(@, id)]

\* The id is taken from the stack.
PopLock(t) == lockStack' = [lockStack EXCEPT ![t] = Front(@)]

\* PopLock finds another id than the lock's on top.
Mismatch(t) ==
    \/ lockStack[t] = <<>>
    \/ Last(lockStack[t]) # IdOf(NameOf[Top(t).lock], idToName)

\* The destructor of a guard: PopLock, then the unlock.
Release(t, l) ==
    /\ IF Running(t) /\ guards[t] # <<>> /\ Top(t).lock = l /\ Mismatch(t)
       THEN crash' = "invalidUnlock"
            /\ UNCHANGED <<words, guards, call, spins, lockStack>>
       ELSE Unlock(t, l) /\ PopLock(t)
    /\ UNCHANGED <<idToName, lockHistory>>

Next == \E t \in Threads, l \in Locks :
    \/ \E mode \in {"read", "write"} : PushLock(t, l, mode)
    \/ (Acquire(t, l) \/ Spin(t, l) \/ Timeout(t, l)) /\ UNCHANGED profilerVars
    \/ Release(t, l)

Spec == Init /\ [][Next]_vars

-------------------------------------------------------------------------------
(* Properties. *)

\* The names on a thread's profiler stack are those of its guards and its call, and
\* PopLock never accuses a thread that releases its guards in order.
StackMatches ==
    /\ ProfilerTypeOK
    /\ crash # "invalidUnlock"
    /\ crash = "no" => \A t \in Threads :
           /\ Len(lockStack[t]) = Len(guards[t]) + Cardinality(call[t])
           /\ \A i \in DOMAIN guards[t] : idToName[lockStack[t][i] + 1] = NameOf[guards[t][i].lock]

\* A cycle, by definition: a set of ids each of which leads to one of the set.
HasCycle(edges) == \E S \in (SUBSET Ids) \ {{}} : \A i \in S : Successors(i, edges) \cap S # {}

\* The search crashes the process on exactly the orders that have a cycle, whichever
\* edges have been recorded among the first lockCount ids.
SearchCorrect ==
    \A lockCount \in 0 .. Cardinality(Names) :
        \A edges \in SUBSET {e \in Ids \X Ids :
                e[1] # e[2] /\ e[1] < lockCount /\ e[2] < lockCount} :
            CheckCycle(edges, lockCount) <=> HasCycle(edges)

\* The depth-first search, started at each new edge only, finds every cycle of the
\* recorded order and nothing else.
SearchExact == crash = "deadlock" <=> HasCycle(lockHistory)

\* Thread t spins for a guard that conflicts with one thread u has.
WaitsFor(t, u) == \E g \in call[t] :
    \/ u # t /\ Writes(u, g.lock)
    \/ g.mode = "write" /\ Reads(u, g.lock) /\ owner[g.lock] # t

Stuck(D) == \A t \in D : \E u \in D : WaitsFor(t, u)

\* While the process lives, threads that wait for each other in a circle all wait
\* for locks of one name (locks of one class, or a reader that wants to write): a
\* circle over two names or more was reported before it could close.
NoSilentDeadlock ==
    crash = "no" => \A D \in (SUBSET Threads) \ {{}} : Stuck(D) =>
        \E E \in (SUBSET D) \ {{}} :
            Stuck(E) /\ \A t, u \in E : \A g \in call[t], k \in call[u] : NameOf[g.lock] = NameOf[k.lock]

=================================================================================
