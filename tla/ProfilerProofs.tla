----------------------------- MODULE ProfilerProofs -----------------------------
(***************************************************************************)
(* Proofs about DeadLockProfiler over Lock, the debug build, for any finite *)
(* sets of threads and names, any locks and any depth of guards.            *)
(***************************************************************************)
EXTENDS DeadLockProfiler, LockProofs, WellFoundedInduction

-------------------------------------------------------------------------------
(* The inductive invariant *)

\* The id i is that of the class that owns lock l.
Named(i, l) == idToName[i + 1] = NameOf[l]

\* The ids on the stacks and in the history have been handed out.
Known ==
    /\ \A t \in Threads : \A k \in DOMAIN lockStack[t] : lockStack[t][k] < Len(idToName)
    /\ \A e \in lockHistory : e[1] < Len(idToName) /\ e[2] < Len(idToName)

\* A stack has the ids of the guards of its thread, then that of its call.
Stacked == \A t \in Threads :
    /\ Len(lockStack[t]) = Len(guards[t]) + Cardinality(call[t])
    /\ \A i \in DOMAIN guards[t] : Named(lockStack[t][i], guards[t][i].lock)
    /\ \A g \in call[t] : Named(Last(lockStack[t]), g.lock)

\* Different neighbours on a stack are in the history.
Chain(s, edges) == \A k \in 1 .. Len(s) - 1 : s[k] # s[k + 1] => <<s[k], s[k + 1]>> \in edges
Chained == \A t \in Threads : Chain(lockStack[t], lockHistory)

\* What every reachable state has.  After a crash of PushLock or PopLock the stacks and
\* the guards may differ.
IInv ==
    /\ LockInv
    /\ ProfilerTypeOK
    /\ Known
    /\ crash # "invalidUnlock"
    /\ crash = "no" => Stacked /\ Chained

-------------------------------------------------------------------------------
(* Names and ids *)

\* Ids are given to different names, as idToName does.
Injective(ids) == ids \in Seq(Names) /\ IsInjective(ids)

\* There are no more ids than names.
LEMMA IdsBound ==
    ASSUME NEW ids, Injective(ids)
    PROVE  /\ Len(ids) \in Nat /\ DOMAIN ids = 1 .. Len(ids) /\ Len(ids) <= Cardinality(Names)
           /\ Cardinality(Names) \in Nat
           /\ \A i \in 0 .. Len(ids) - 1 : i \in Ids /\ i + 1 \in DOMAIN ids /\ ids[i + 1] \in Names
           /\ \A i \in Ids : i \in Nat
<1>1. /\ Len(ids) \in Nat /\ DOMAIN ids = 1 .. Len(ids) /\ ids \in [1 .. Len(ids) -> Names]
      /\ IsFiniteSet(Names) /\ Cardinality(Names) \in Nat
  BY NamesAssumption, LenProperties, FS_CardinalityType DEF Injective
<1>2. Len(ids) <= Cardinality(Names)
  <2>1. IsFiniteSet(1 .. Len(ids)) /\ Cardinality(1 .. Len(ids)) = Len(ids)
    <3>1. PICK n \in Nat : n = Len(ids)
      BY <1>1
    <3>2. IsFiniteSet(1 .. n) /\ Cardinality(1 .. n) = n
      BY FS_Interval
    <3>3. QED
      BY <3>1, <3>2
  <2>2. SUFFICES ASSUME Cardinality(Names) < Cardinality(1 .. Len(ids))
                 PROVE  FALSE
    BY <1>1, <2>1
  <2>3. \E x, y \in 1 .. Len(ids) : x # y /\ ids[x] = ids[y]
    BY <1>1, <2>1, <2>2, FS_PigeonHole
  <2>4. QED
    BY <1>1, <2>3 DEF Injective, IsInjective
<1>3. QED
  BY <1>1, <1>2 DEF Ids

\* The id of a name that has one.
LEMMA IdFacts ==
    ASSUME NEW ids, Injective(ids), NEW i \in Ids, i < Len(ids)
    PROVE  IdOf(ids[i + 1], ids) = i
<1>1. i + 1 \in DOMAIN ids
  BY IdsBound
<1>2. \A j \in Ids : j < Len(ids) /\ ids[j + 1] = ids[i + 1] => j = i
  <2>1. ASSUME NEW j \in Ids, j < Len(ids), ids[j + 1] = ids[i + 1]
        PROVE  j = i
    <3>1. j + 1 \in DOMAIN ids
      BY <2>1, IdsBound
    <3>2. j + 1 = i + 1
      BY <1>1, <2>1, <3>1 DEF Injective, IsInjective
    <3>3. QED
      BY <3>2, IdsBound
  <2>2. QED
    BY <2>1
<1>3. QED
  BY <1>2 DEF IdOf

\* With its id if it has none, a name has an id, the others keep theirs, and no two
\* names share one.
LEMMA NamesWithFacts ==
    ASSUME Injective(idToName), NEW name \in Names
    PROVE  LET ids == NamesWith(name) IN
           /\ Injective(ids)
           /\ Len(idToName) <= Len(ids) /\ Len(ids) \in Nat
           /\ \A i \in Ids : i < Len(idToName) => ids[i + 1] = idToName[i + 1] /\ i < Len(ids)
           /\ IdOf(name, ids) \in Ids /\ IdOf(name, ids) < Len(ids)
           /\ ids[IdOf(name, ids) + 1] = name
<1> DEFINE ids == NamesWith(name)
<1>1. /\ idToName \in Seq(Names) /\ Len(idToName) \in Nat /\ DOMAIN idToName = 1 .. Len(idToName)
  BY IdsBound DEF Injective
<1>2. CASE name \in Range(idToName)
  <2>1. ids = idToName
    BY <1>2 DEF NamesWith
  <2>2. PICK k \in DOMAIN idToName : idToName[k] = name
    BY <1>2 DEF Range
  <2>3. k - 1 \in Ids /\ k - 1 < Len(ids) /\ ids[(k - 1) + 1] = name
    BY <1>1, <2>1, <2>2, IdsBound
  <2>4. IdOf(name, ids) = k - 1
    BY <2>1, <2>3, IdFacts
  <2>5. QED
    BY <1>1, <2>1, <2>3, <2>4
<1>3. CASE name \notin Range(idToName)
  <2>1. ids = Append(idToName, name)
    BY <1>3 DEF NamesWith
  <2>2. /\ ids \in Seq(Names) /\ Len(ids) = Len(idToName) + 1
        /\ \A k \in 1 .. Len(idToName) : ids[k] = idToName[k]
        /\ ids[Len(idToName) + 1] = name
    BY <1>1, <2>1, AppendProperties
  <2>3. DOMAIN ids = 1 .. Len(idToName) + 1
    BY <2>2, LenProperties
  <2>4. \A k \in 1 .. Len(idToName) : ids[k] # name
    BY <1>1, <1>3, <2>2 DEF Range
  <2>5. Injective(ids)
    <3>1. ASSUME NEW a \in DOMAIN ids, NEW b \in DOMAIN ids, ids[a] = ids[b]
          PROVE  a = b
      <4>1. CASE a \in 1 .. Len(idToName) /\ b \in 1 .. Len(idToName)
        BY <1>1, <2>2, <3>1, <4>1 DEF Injective, IsInjective
      <4>2. CASE ~(a \in 1 .. Len(idToName) /\ b \in 1 .. Len(idToName))
        BY <1>1, <2>2, <2>3, <2>4, <3>1, <4>2
      <4>3. QED
        BY <4>1, <4>2
    <3>2. QED
      BY <2>2, <3>1 DEF Injective, IsInjective
  <2>6. Len(idToName) \in Ids /\ Len(idToName) < Len(ids)
    BY <1>1, <2>2, <2>5, IdsBound
  <2>7. IdOf(name, ids) = Len(idToName)
    BY <2>2, <2>5, <2>6, IdFacts
  <2>8. \A i \in Ids : i < Len(idToName) => ids[i + 1] = idToName[i + 1] /\ i < Len(ids)
    BY <1>1, <2>2, IdsBound
  <2>9. QED
    BY <1>1, <2>2, <2>5, <2>6, <2>7, <2>8
<1>4. QED
  BY <1>2, <1>3

\* The other elements of a stack that loses its last one stay.
LEMMA FrontFacts ==
    ASSUME NEW S, NEW s \in Seq(S), s # <<>>
    PROVE  /\ Front(s) \in Seq(S) /\ Len(s) \in Nat /\ Len(s) >= 1 /\ Len(Front(s)) = Len(s) - 1
           /\ \A i \in 1 .. Len(s) - 1 : Front(s)[i] = s[i]
           /\ Last(s) = s[Len(s)] /\ Last(s) \in S
<1>1. Len(s) \in Nat /\ Len(s) >= 1
  BY EmptySeq
<1>2. \A i \in 1 .. Len(s) : s[i] \in S
  BY ElementOfSeq
<1>3. PICK n \in Nat : n = Len(s) - 1
  BY <1>1
<1>4. \A i \in 1 .. n : s[i] \in S
  BY <1>1, <1>2, <1>3
<1>5. /\ SubSeq(s, 1, n) \in Seq(S)
      /\ Len(SubSeq(s, 1, n)) = IF 1 <= n THEN n - 1 + 1 ELSE 0
      /\ \A i \in 1 .. n - 1 + 1 : SubSeq(s, 1, n)[i] = s[1 + i - 1]
  BY <1>4, SubSeqProperties
<1>6. Front(s) = SubSeq(s, 1, n)
  BY <1>3 DEF Front
<1>7. \A i \in 1 .. n : Front(s)[i] = s[i]
  BY <1>5, <1>6
<1>8. Last(s) = s[Len(s)] /\ Last(s) \in S
  BY <1>1, <1>2 DEF Last
<1>9. QED
  BY <1>1, <1>3, <1>5, <1>6, <1>7, <1>8

-------------------------------------------------------------------------------
(* The steps *)

\* Nothing is on a stack, and no name has an id.
LEMMA ProfilerInitInv == Init => IInv
<1> SUFFICES ASSUME Init
             PROVE  IInv
  OBVIOUS
<1>1. LockInv
  BY LockInitInv DEF Init
<1>2. /\ idToName = <<>> /\ lockHistory = {} /\ lockStack = [t \in Threads |-> <<>>]
      /\ guards = [t \in Threads |-> <<>>] /\ call = [t \in Threads |-> {}] /\ crash = "no"
  BY DEF Init, LockInit
<1>3. \A t \in Threads : lockStack[t] = <<>> /\ guards[t] = <<>> /\ call[t] = {}
  BY <1>2
<1>4. ProfilerTypeOK
  <2>1. idToName \in Seq(Names) /\ DOMAIN idToName = {}
    BY <1>2, EmptySeq
  <2>2. lockStack \in [Threads -> Seq(Ids)]
    BY <1>2, EmptySeq
  <2>3. QED
    BY <1>2, <2>1, <2>2 DEF ProfilerTypeOK, IsInjective
<1>5. Known
  BY <1>2, <1>3 DEF Known
<1>6. Stacked
  <2>1. Len(<<>>) = 0 /\ Cardinality({}) = 0
    BY FS_EmptySet
  <2>2. \A t \in Threads : Len(lockStack[t]) = 0 /\ Len(guards[t]) = 0 /\ Cardinality(call[t]) = 0
    BY <1>3, <2>1, Zenon
  <2>3. QED
    BY <1>3, <2>2 DEF Stacked
<1>7. Chained
  BY <1>3 DEF Chained, Chain
<1>8. QED
  BY <1>1, <1>2, <1>4, <1>5, <1>6, <1>7 DEF IInv

\* PushLock: the call goes on top of the stack, with an edge from what was there.
LEMMA PushLockInv ==
    ASSUME IInv, NEW t \in Threads, NEW l \in Locks, NEW mode \in Modes, PushLock(t, l, mode)
    PROVE  IInv'
<1>1. /\ LockInv /\ LockTypeOK /\ ProfilerTypeOK /\ Known /\ Injective(idToName)
      /\ lockStack \in [Threads -> Seq(Ids)] /\ lockStack[t] \in Seq(Ids)
  BY DEF IInv, LockInv, ProfilerTypeOK, Injective
<1>2. PICK ids : ids = NamesWith(NameOf[l])
  OBVIOUS
<1>3. PICK id : id = IdOf(NameOf[l], ids)
  OBVIOUS
<1>4. PICK edges : edges = lockHistory \cup {<<held, id>> : held \in HeldLast(t) \ {id}}
  OBVIOUS
<1>5. /\ Call(t, l, mode) /\ idToName' = ids /\ lockHistory' = edges
      /\ \/ crash' = "deadlock" /\ lockStack' = lockStack
         \/ crash' = crash /\ lockStack' = [lockStack EXCEPT ![t] = Append(lockStack[t], id)]
  BY <1>2, <1>3, <1>4 DEF PushLock
<1>6. /\ crash = "no" /\ call[t] = {} /\ guards' = guards
      /\ call' = [call EXCEPT ![t] = {Guard(l, mode)}]
      /\ Stacked /\ Chained
  BY <1>5 DEF Call, Running, Guard, IInv
<1>7. /\ Injective(ids) /\ Len(idToName) <= Len(ids) /\ Len(idToName) \in Nat /\ Len(ids) \in Nat
      /\ \A i \in Ids : i < Len(idToName) => ids[i + 1] = idToName[i + 1] /\ i < Len(ids)
      /\ id \in Ids /\ id < Len(ids) /\ ids[id + 1] = NameOf[l]
  BY <1>1, <1>2, <1>3, NamesAssumption, NamesWithFacts, IdsBound
<1>8. LockInv'
  BY <1>1, <1>5, <1>6, CallInv
<1>9. /\ Len(lockStack[t]) \in Nat
      /\ lockStack[t] # <<>> => /\ Len(lockStack[t]) >= 1
                                /\ Last(lockStack[t]) = lockStack[t][Len(lockStack[t])]
                                /\ Last(lockStack[t]) \in Ids /\ Last(lockStack[t]) < Len(idToName)
  <2>1. Len(lockStack[t]) \in Nat /\ DOMAIN lockStack[t] = 1 .. Len(lockStack[t])
    BY <1>1, LenProperties
  <2>2. ASSUME lockStack[t] # <<>>
        PROVE  /\ Len(lockStack[t]) >= 1
               /\ Last(lockStack[t]) = lockStack[t][Len(lockStack[t])]
               /\ Last(lockStack[t]) \in Ids
    BY <1>1, <2>2, FrontFacts
  <2>3. QED
    BY <1>1, <2>1, <2>2 DEF Known
<1>10. /\ edges \subseteq {e \in Ids \X Ids : e[1] # e[2]}
       /\ \A e \in edges : e[1] < Len(ids) /\ e[2] < Len(ids)
       /\ lockHistory \subseteq edges
       /\ lockStack[t] # <<>> /\ Last(lockStack[t]) # id => <<Last(lockStack[t]), id>> \in edges
  <2>1. /\ lockHistory \subseteq {e \in Ids \X Ids : e[1] # e[2]}
        /\ \A e \in lockHistory : e[1] < Len(idToName) /\ e[2] < Len(idToName)
    BY <1>1 DEF ProfilerTypeOK, Known
  <2>2. \A e \in lockHistory : e[1] < Len(ids) /\ e[2] < Len(ids)
    BY <1>7, <2>1
  <2>3. ASSUME NEW e \in edges, e \notin lockHistory
        PROVE  lockStack[t] # <<>> /\ e = <<Last(lockStack[t]), id>> /\ e[1] # e[2]
    BY <1>4, <2>3 DEF HeldLast
  <2>4. ASSUME NEW e \in edges, e \notin lockHistory
        PROVE  e \in Ids \X Ids /\ e[1] # e[2] /\ e[1] < Len(ids) /\ e[2] < Len(ids)
    BY <1>7, <1>9, <2>3, <2>4
  <2>5. lockStack[t] # <<>> /\ Last(lockStack[t]) # id => <<Last(lockStack[t]), id>> \in edges
    BY <1>4 DEF HeldLast
  <2>6. QED
    BY <1>4, <2>1, <2>2, <2>4, <2>5
<1>11. /\ lockStack' \in [Threads -> Seq(Ids)]
       /\ \A u \in Threads \ {t} : lockStack'[u] = lockStack[u]
       /\ crash' = "no" => /\ Len(lockStack'[t]) = Len(lockStack[t]) + 1
                           /\ \A k \in 1 .. Len(lockStack[t]) : lockStack'[t][k] = lockStack[t][k]
                           /\ lockStack'[t][Len(lockStack[t]) + 1] = id
                           /\ DOMAIN lockStack'[t] = 1 .. Len(lockStack[t]) + 1
       /\ crash' # "no" => lockStack' = lockStack
  <2>1. /\ Append(lockStack[t], id) \in Seq(Ids)
        /\ Len(Append(lockStack[t], id)) = Len(lockStack[t]) + 1
        /\ \A k \in 1 .. Len(lockStack[t]) : Append(lockStack[t], id)[k] = lockStack[t][k]
        /\ Append(lockStack[t], id)[Len(lockStack[t]) + 1] = id
    BY <1>1, <1>7, AppendProperties
  <2>2. DOMAIN Append(lockStack[t], id) = 1 .. Len(lockStack[t]) + 1
    BY <2>1, LenProperties
  <2>3. QED
    BY <1>1, <1>5, <1>6, <2>1, <2>2
<1>12. ProfilerTypeOK'
  BY <1>5, <1>7, <1>10, <1>11 DEF ProfilerTypeOK, Injective
<1>13. Known'
  <2>1. ASSUME NEW u \in Threads, NEW k \in DOMAIN lockStack'[u]
        PROVE  lockStack'[u][k] < Len(ids)
    <3>1. /\ lockStack[u] \in Seq(Ids) /\ DOMAIN lockStack[u] = 1 .. Len(lockStack[u])
          /\ \A j \in DOMAIN lockStack[u] : lockStack[u][j] \in Ids
      <4>1. lockStack[u] \in Seq(Ids)
        BY <1>1
      <4>2. QED
        BY <4>1, LenProperties, ElementOfSeq
    <3>2. \A j \in DOMAIN lockStack[u] : lockStack[u][j] < Len(ids)
      BY <1>1, <1>7, <3>1 DEF Known
    <3>3. (k \in DOMAIN lockStack[u] /\ lockStack'[u][k] = lockStack[u][k]) \/ lockStack'[u][k] = id
      BY <1>9, <1>11, <2>1, <3>1
    <3>4. QED
      BY <1>7, <3>2, <3>3
  <2>2. QED
    BY <1>5, <1>10, <2>1 DEF Known
<1>14. ASSUME crash' = "no"
       PROVE  Stacked' /\ Chained'
  <2>1. \A u \in Threads : \A i \in DOMAIN guards[u] :
            /\ lockStack'[u][i] = lockStack[u][i]
            /\ Named(lockStack[u][i], guards[u][i].lock)
            /\ lockStack[u][i] \in Ids /\ lockStack[u][i] < Len(idToName)
    <3>1. ASSUME NEW u \in Threads, NEW i \in DOMAIN guards[u]
          PROVE  /\ lockStack'[u][i] = lockStack[u][i]
                 /\ lockStack[u][i] \in Ids /\ lockStack[u][i] < Len(idToName)
      <4>1. /\ lockStack[u] \in Seq(Ids) /\ Len(lockStack[u]) \in Nat
            /\ DOMAIN lockStack[u] = 1 .. Len(lockStack[u])
        BY <1>1, LenProperties
      <4>2. i \in 1 .. Len(guards[u]) /\ Len(guards[u]) \in Nat
        BY <1>1, <3>1, LenProperties DEF LockTypeOK
      <4>3. Len(lockStack[u]) >= Len(guards[u])
        <5>1. Cardinality(call[u]) \in Nat
          BY <1>1, CallSize
        <5>2. Len(lockStack[u]) = Len(guards[u]) + Cardinality(call[u])
          BY <1>6 DEF Stacked
        <5>3. QED
          BY <4>2, <5>1, <5>2
      <4>4. i \in DOMAIN lockStack[u]
        BY <4>1, <4>2, <4>3
      <4>5. lockStack[u][i] \in Ids
        BY <4>1, <4>4, ElementOfSeq
      <4>6. lockStack'[u][i] = lockStack[u][i]
        BY <1>11, <1>14, <4>1, <4>4
      <4>7. QED
        BY <1>1, <4>4, <4>5, <4>6 DEF Known
    <3>2. QED
      BY <1>6, <3>1 DEF Stacked
  <2>2. \A u \in Threads : \A i \in DOMAIN guards'[u] : Named(lockStack[u][i], guards[u][i].lock)'
    <3>1. ASSUME NEW u \in Threads, NEW i \in DOMAIN guards[u]
          PROVE  idToName'[lockStack'[u][i] + 1] = NameOf[guards'[u][i].lock]
      BY <1>5, <1>6, <1>7, <2>1, <3>1 DEF Named
    <3>2. QED
      BY <1>6, <3>1 DEF Named
  <2>3. \A u \in Threads : call'[u] = IF u = t THEN {Guard(l, mode)} ELSE call[u]
    BY <1>1, <1>6 DEF LockTypeOK
  <2>4. Len(lockStack'[t]) = Len(guards'[t]) + Cardinality(call'[t])
    <3>1. Cardinality(call[t]) = 0 /\ Cardinality(call'[t]) = 1
      BY <1>6, <2>3, FS_EmptySet, FS_Singleton
    <3>2. Len(lockStack[t]) = Len(guards[t]) + Cardinality(call[t])
      BY <1>6 DEF Stacked
    <3>3. QED
      BY <1>6, <1>9, <1>11, <1>14, <3>1, <3>2
  <2>5. \A g \in call'[t] : Named(Last(lockStack[t]), g.lock)'
    <3>1. lockStack'[t] \in Seq(Ids) /\ Last(lockStack'[t]) = id
      BY <1>9, <1>11, <1>14 DEF Last
    <3>2. Guard(l, mode).lock = l
      BY DEF Guard
    <3>3. QED
      BY <1>5, <1>7, <2>3, <3>1, <3>2 DEF Named
  <2>6. ASSUME NEW u \in Threads, u # t
        PROVE  /\ Len(lockStack'[u]) = Len(guards'[u]) + Cardinality(call'[u])
               /\ \A g \in call'[u] : Named(Last(lockStack[u]), g.lock)'
    <3>1. call'[u] = call[u] /\ lockStack'[u] = lockStack[u] /\ guards'[u] = guards[u]
      BY <1>6, <1>11, <2>3, <2>6
    <3>2. /\ Len(lockStack[u]) = Len(guards[u]) + Cardinality(call[u])
          /\ \A g \in call[u] : Named(Last(lockStack[u]), g.lock)
      BY <1>6 DEF Stacked
    <3>3. ASSUME NEW g \in call[u]
          PROVE  Last(lockStack[u]) \in Ids /\ Last(lockStack[u]) < Len(idToName)
      <4>1. Cardinality(call[u]) = 1
        <5>1. \E h \in Guards : call[u] = {h}
          BY <1>1, <3>3 DEF LockTypeOK
        <5>2. QED
          BY <5>1, FS_Singleton
      <4>2. lockStack[u] \in Seq(Ids) /\ Len(guards[u]) \in Nat
        BY <1>1, LenProperties DEF LockTypeOK
      <4>3. Len(lockStack[u]) >= 1 /\ Len(lockStack[u]) \in Nat
        BY <3>2, <4>1, <4>2
      <4>4. Len(lockStack[u]) \in DOMAIN lockStack[u]
        BY <4>2, <4>3, LenProperties
      <4>5. lockStack[u][Len(lockStack[u])] \in Ids
        BY <4>2, <4>3, ElementOfSeq
      <4>6. QED
        BY <1>1, <4>4, <4>5 DEF Known, Last
    <3>4. QED
      BY <1>5, <1>7, <3>1, <3>2, <3>3 DEF Named
  <2>7. Stacked'
    BY <2>2, <2>4, <2>5, <2>6 DEF Stacked
  <2>8. ASSUME NEW u \in Threads
        PROVE  Chain(lockStack'[u], edges)
    <3>1. Chain(lockStack[u], lockHistory)
      BY <1>6 DEF Chained
    <3>2. CASE u # t
      BY <1>10, <1>11, <3>1, <3>2 DEF Chain
    <3>3. CASE u = t
      <4>1. SUFFICES ASSUME NEW k \in 1 .. Len(lockStack[t]),
                            lockStack'[t][k] # lockStack'[t][k + 1]
                     PROVE  <<lockStack'[t][k], lockStack'[t][k + 1]>> \in edges
        BY <1>9, <1>11, <1>14, <3>3 DEF Chain
      <4>2. CASE k = Len(lockStack[t])
        <5>1. lockStack[t] # <<>>
          <6>1. Len(lockStack[t]) # 0
            BY <1>9, <4>1
          <6>2. QED
            BY <6>1
        <5>2. lockStack'[t][k] = Last(lockStack[t]) /\ lockStack'[t][k + 1] = id
          BY <1>9, <1>11, <1>14, <4>1, <4>2, <5>1
        <5>3. QED
          BY <1>10, <4>1, <5>1, <5>2
      <4>3. CASE k # Len(lockStack[t])
        <5>1. k \in 1 .. Len(lockStack[t]) - 1 /\ k + 1 \in 1 .. Len(lockStack[t])
          BY <1>9, <4>1, <4>3
        <5>2. lockStack'[t][k] = lockStack[t][k] /\ lockStack'[t][k + 1] = lockStack[t][k + 1]
          BY <1>11, <1>14, <4>1, <5>1
        <5>3. QED
          BY <1>10, <3>1, <3>3, <4>1, <5>1, <5>2 DEF Chain
      <4>4. QED
        BY <4>2, <4>3
    <3>4. QED
      BY <3>2, <3>3
  <2>9. QED
    BY <1>5, <2>7, <2>8 DEF Chained
<1>15. QED
  BY <1>5, <1>6, <1>8, <1>12, <1>13, <1>14 DEF IInv

\* A call becomes a guard: the id stays where it is.
LEMMA ProfilerAcquireInv ==
    ASSUME IInv, NEW t \in Threads, NEW l \in Locks, Acquire(t, l), UNCHANGED profilerVars
    PROVE  IInv'
<1>1. /\ LockInv /\ LockTypeOK /\ ProfilerTypeOK /\ Known
      /\ UNCHANGED <<idToName, lockHistory, lockStack>>
  BY DEF IInv, LockInv, profilerVars
<1>2. PICK g \in Guards : call[t] = {g}
  <2>1. \E mode \in Modes : call[t] = {Guard(l, mode)}
    BY DEF Acquire, WriteRecursive, WriteAcquire, ReadRecursive, ReadAcquire, Wants, Guard, Modes
  <2>2. QED
    BY <2>1, GuardFacts
<1>3. crash = "no" /\ crash' = "no" /\ Acquired(t) /\ Stacked /\ Chained
  BY DEF Acquire, WriteRecursive, WriteAcquire, ReadRecursive, ReadAcquire, Wants, IInv
<1>4. LockInv'
  <2>1. [LockNext]_lockVars
    BY DEF LockNext
  <2>2. QED
    BY <1>1, <2>1, LockNextInv
<1>5. /\ call' = [call EXCEPT ![t] = {}]
      /\ Len(guards[t]) \in Nat /\ Len(guards'[t]) = Len(guards[t]) + 1
      /\ guards'[t][Len(guards[t]) + 1] = g
      /\ \A i \in 1 .. Len(guards[t]) : guards'[t][i] = guards[t][i]
      /\ \A u \in Threads \ {t} : guards'[u] = guards[u]
      /\ guards' \in [Threads -> Seq(Guards)]
  BY <1>1, <1>2, <1>3, AcquiredGuards
<1>6. /\ \A u \in Threads : call'[u] = IF u = t THEN {} ELSE call[u]
      /\ DOMAIN guards[t] = 1 .. Len(guards[t]) /\ DOMAIN guards'[t] = 1 .. Len(guards[t]) + 1
  BY <1>1, <1>5, LenProperties DEF LockTypeOK
<1>7. Cardinality(call[t]) = 1 /\ Cardinality(call'[t]) = 0
  BY <1>2, <1>6, FS_Singleton, FS_EmptySet
<1>8. Stacked'
  <2>1. /\ Len(lockStack[t]) = Len(guards[t]) + 1
        /\ \A i \in DOMAIN guards[t] : Named(lockStack[t][i], guards[t][i].lock)
        /\ Named(Last(lockStack[t]), g.lock)
    BY <1>2, <1>3, <1>7 DEF Stacked
  <2>2. Len(lockStack'[t]) = Len(guards'[t]) + Cardinality(call'[t])
    BY <1>1, <1>5, <1>7, <2>1
  <2>3. \A i \in DOMAIN guards'[t] : Named(lockStack[t][i], guards'[t][i].lock)
    <3>1. ASSUME NEW i \in DOMAIN guards'[t]
          PROVE  Named(lockStack[t][i], guards'[t][i].lock)
      <4>1. CASE i \in DOMAIN guards[t]
        BY <1>5, <1>6, <2>1, <4>1
      <4>2. CASE i = Len(guards[t]) + 1
        BY <1>5, <2>1, <4>2 DEF Last
      <4>3. QED
        BY <1>5, <1>6, <3>1, <4>1, <4>2
    <3>2. QED
      BY <3>1
  <2>4. ASSUME NEW u \in Threads, u # t
        PROVE  /\ Len(lockStack'[u]) = Len(guards'[u]) + Cardinality(call'[u])
               /\ \A i \in DOMAIN guards'[u] : Named(lockStack[u][i], guards[u][i].lock)'
               /\ \A h \in call'[u] : Named(Last(lockStack[u]), h.lock)'
    <3>1. guards'[u] = guards[u] /\ call'[u] = call[u]
      BY <1>5, <1>6, <2>4
    <3>2. QED
      BY <1>1, <1>3, <3>1 DEF Stacked, Named
  <2>5. \A h \in call'[t] : Named(Last(lockStack[t]), h.lock)'
    BY <1>6
  <2>6. \A i \in DOMAIN guards'[t] : Named(lockStack[t][i], guards[t][i].lock)'
    BY <1>1, <2>3 DEF Named
  <2>7. QED
    BY <2>2, <2>4, <2>5, <2>6 DEF Stacked
<1>9. ProfilerTypeOK' /\ Known' /\ Chained'
  BY <1>1, <1>3 DEF ProfilerTypeOK, Known, Chained
<1>10. QED
  BY <1>3, <1>4, <1>8, <1>9 DEF IInv

\* PopLock finds the id of the guard that is released on top.
LEMMA NoMismatch ==
    ASSUME IInv, NEW t \in Threads, Running(t), guards[t] # <<>>
    PROVE  /\ ~Mismatch(t)
           /\ Len(lockStack[t]) = Len(guards[t]) /\ lockStack[t] # <<>>
<1>1. /\ LockTypeOK /\ ProfilerTypeOK /\ Known /\ Stacked /\ Injective(idToName)
      /\ call[t] = {} /\ guards[t] \in Seq(Guards) /\ lockStack[t] \in Seq(Ids)
  BY DEF IInv, LockInv, LockTypeOK, ProfilerTypeOK, Running, Injective
<1>2. Len(guards[t]) \in Nat /\ Len(guards[t]) >= 1 /\ Len(guards[t]) \in DOMAIN guards[t]
  BY <1>1, EmptySeq, LenProperties
<1>3. Len(lockStack[t]) = Len(guards[t]) /\ lockStack[t] # <<>>
  <2>1. Len(lockStack[t]) = Len(guards[t]) + Cardinality(call[t])
    BY <1>1 DEF Stacked
  <2>2. Cardinality(call[t]) = 0
    BY <1>1, FS_EmptySet
  <2>3. Len(lockStack[t]) = Len(guards[t])
    BY <1>2, <2>1, <2>2
  <2>4. Len(<<>>) = 0
    OBVIOUS
  <2>5. QED
    BY <1>2, <2>3, <2>4
<1>4. /\ Last(lockStack[t]) = lockStack[t][Len(guards[t])] /\ Last(lockStack[t]) \in Ids
      /\ Last(lockStack[t]) < Len(idToName)
  <2>1. Last(lockStack[t]) = lockStack[t][Len(guards[t])] /\ Last(lockStack[t]) \in Ids
    BY <1>1, <1>3, FrontFacts
  <2>2. Len(guards[t]) \in DOMAIN lockStack[t]
    BY <1>1, <1>2, <1>3, LenProperties
  <2>3. QED
    BY <1>1, <2>1, <2>2 DEF Known
<1>5. idToName[Last(lockStack[t]) + 1] = NameOf[Top(t).lock]
  BY <1>1, <1>2, <1>4 DEF Stacked, Named, Top
<1>6. IdOf(NameOf[Top(t).lock], idToName) = Last(lockStack[t])
  BY <1>1, <1>4, <1>5, IdFacts
<1>7. QED
  BY <1>3, <1>6 DEF Mismatch

\* PopLock and the unlock take the same guard away.
LEMMA ProfilerReleaseInv ==
    ASSUME IInv, NEW t \in Threads, NEW l \in Locks, Release(t, l)
    PROVE  IInv' /\ Unlock(t, l)
<1>1. /\ LockInv /\ LockTypeOK /\ ProfilerTypeOK /\ Known
      /\ lockStack \in [Threads -> Seq(Ids)]
      /\ UNCHANGED <<idToName, lockHistory>>
  BY DEF IInv, LockInv, Release, ProfilerTypeOK
<1>2. Unlock(t, l) /\ PopLock(t)
  BY NoMismatch DEF Release
<1>3. Running(t) /\ guards[t] # <<>> /\ call[t] = {} /\ Stacked /\ Chained /\ UNCHANGED call
  BY <1>2 DEF Unlock, WriteUnlock, WriteUnlockCrash, ReadUnlock, Releases, Running, IInv
<1>4. /\ LockInv' /\ crash' # "invalidUnlock"
      /\ crash' = "no" => Released(t)
  <2>1. [LockNext]_lockVars
    BY <1>2 DEF LockNext
  <2>2. QED
    BY <1>1, <1>2, <2>1, LockNextInv
       DEF Unlock, WriteUnlock, WriteUnlockCrash, ReadUnlock, Releases, Running
<1>5. /\ Len(lockStack[t]) = Len(guards[t]) /\ lockStack[t] # <<>>
      /\ lockStack[t] \in Seq(Ids) /\ Len(lockStack[t]) \in Nat /\ Len(lockStack[t]) >= 1
      /\ Front(lockStack[t]) \in Seq(Ids) /\ Len(Front(lockStack[t])) = Len(lockStack[t]) - 1
      /\ \A i \in 1 .. Len(lockStack[t]) - 1 : Front(lockStack[t])[i] = lockStack[t][i]
  <2>1. /\ Len(lockStack[t]) = Len(guards[t]) /\ lockStack[t] # <<>>
        /\ lockStack[t] \in Seq(Ids)
    BY <1>1, <1>3, NoMismatch
  <2>2. QED
    BY <2>1, FrontFacts
<1>6. /\ lockStack' \in [Threads -> Seq(Ids)]
      /\ lockStack'[t] = Front(lockStack[t])
      /\ \A u \in Threads \ {t} : lockStack'[u] = lockStack[u]
  BY <1>1, <1>2, <1>5 DEF PopLock
<1>7. DOMAIN lockStack[t] = 1 .. Len(lockStack[t]) /\ DOMAIN lockStack'[t] = 1 .. Len(lockStack[t]) - 1
  BY <1>5, <1>6, LenProperties
<1>8. \A k \in DOMAIN lockStack'[t] : k \in DOMAIN lockStack[t] /\ lockStack'[t][k] = lockStack[t][k]
  BY <1>5, <1>6, <1>7
<1>9. ProfilerTypeOK' /\ Known'
  <2>1. \A u \in Threads : \A k \in DOMAIN lockStack'[u] : lockStack'[u][k] < Len(idToName)
    BY <1>1, <1>6, <1>8 DEF Known
  <2>2. QED
    BY <1>1, <1>6, <2>1 DEF ProfilerTypeOK, Known
<1>10. ASSUME crash' = "no"
       PROVE  Stacked' /\ Chained'
  <2>1. /\ guards' \in [Threads -> Seq(Guards)] /\ Len(guards[t]) \in Nat
        /\ Len(guards'[t]) = Len(guards[t]) - 1
        /\ \A i \in 1 .. Len(guards[t]) - 1 : guards'[t][i] = guards[t][i]
        /\ \A u \in Threads \ {t} : guards'[u] = guards[u]
    BY <1>1, <1>3, <1>4, <1>10, ReleasedGuards
  <2>2. DOMAIN guards'[t] = 1 .. Len(guards[t]) - 1 /\ DOMAIN guards[t] = 1 .. Len(guards[t])
    BY <1>1, <2>1, LenProperties DEF LockTypeOK
  <2>3. Cardinality(call'[t]) = 0
    BY <1>3, FS_EmptySet
  <2>4. Len(lockStack'[t]) = Len(guards'[t]) + Cardinality(call'[t])
    BY <1>5, <1>6, <2>1, <2>3
  <2>5. \A i \in DOMAIN guards'[t] : Named(lockStack'[t][i], guards'[t][i].lock)
    <3>1. ASSUME NEW i \in DOMAIN guards'[t]
          PROVE  Named(lockStack'[t][i], guards'[t][i].lock)
      <4>1. i \in DOMAIN guards[t] /\ guards'[t][i] = guards[t][i] /\ lockStack'[t][i] = lockStack[t][i]
        BY <1>5, <1>7, <1>8, <2>1, <2>2
      <4>2. QED
        BY <1>3, <4>1 DEF Stacked
    <3>2. QED
      BY <3>1
  <2>6. ASSUME NEW u \in Threads, u # t
        PROVE  /\ Len(lockStack'[u]) = Len(guards'[u]) + Cardinality(call'[u])
               /\ \A i \in DOMAIN guards'[u] : Named(lockStack[u][i], guards[u][i].lock)'
               /\ \A h \in call'[u] : Named(Last(lockStack[u]), h.lock)'
    <3>1. guards'[u] = guards[u] /\ call'[u] = call[u] /\ lockStack'[u] = lockStack[u]
      BY <1>3, <1>6, <2>1, <2>6
    <3>2. QED
      BY <1>1, <1>3, <3>1 DEF Stacked, Named
  <2>7. \A h \in call'[t] : Named(Last(lockStack[t]), h.lock)'
    BY <1>3
  <2>8. \A i \in DOMAIN guards'[t] : Named(lockStack[t][i], guards[t][i].lock)'
    BY <1>1, <2>5 DEF Named
  <2>9. Stacked'
    BY <2>4, <2>6, <2>7, <2>8 DEF Stacked
  <2>10. ASSUME NEW u \in Threads
         PROVE  Chain(lockStack'[u], lockHistory)
    <3>1. Chain(lockStack[u], lockHistory)
      BY <1>3 DEF Chained
    <3>2. CASE u # t
      BY <1>6, <3>1, <3>2
    <3>3. CASE u = t
      <4>1. \A k \in 1 .. Len(lockStack[t]) - 1 - 1 :
                /\ k \in 1 .. Len(lockStack[t]) - 1
                /\ lockStack'[t][k] = lockStack[t][k] /\ lockStack'[t][k + 1] = lockStack[t][k + 1]
        <5>1. \A k \in 1 .. Len(lockStack[t]) - 1 - 1 :
                  k \in 1 .. Len(lockStack[t]) - 1 /\ k + 1 \in 1 .. Len(lockStack[t]) - 1
          BY <1>5
        <5>2. \A k \in 1 .. Len(lockStack[t]) - 1 : lockStack'[t][k] = lockStack[t][k]
          BY <1>5, <1>6
        <5>3. QED
          BY <5>1, <5>2
      <4>2. QED
        BY <1>5, <1>6, <3>1, <3>3, <4>1 DEF Chain
    <3>4. QED
      BY <3>2, <3>3
  <2>11. QED
    BY <1>1, <2>9, <2>10 DEF Chained
<1>11. QED
  BY <1>2, <1>4, <1>9, <1>10 DEF IInv

\* A thread spins, or the process dies of a timeout.
LEMMA ProfilerStillInv ==
    ASSUME IInv, UNCHANGED profilerVars, LockInv', UNCHANGED <<guards, call>>,
           crash' = crash \/ crash' = "timeout"
    PROVE  IInv'
<1>1. UNCHANGED <<idToName, lockHistory, lockStack>>
  BY DEF profilerVars
<1>2. ProfilerTypeOK' /\ Known'
  BY <1>1 DEF IInv, ProfilerTypeOK, Known
<1>3. crash' = "no" => Stacked' /\ Chained'
  BY <1>1 DEF IInv, Stacked, Chained, Named
<1>4. QED
  BY <1>2, <1>3 DEF IInv

\* Every step preserves the invariant.
LEMMA ProfilerNextInv == IInv /\ [Next]_vars => IInv'
<1> SUFFICES ASSUME IInv, [Next]_vars
             PROVE  IInv'
  OBVIOUS
<1>1. ASSUME NEW t \in Threads, NEW l \in Locks, NEW mode \in {"read", "write"}, PushLock(t, l, mode)
      PROVE  IInv'
  BY <1>1, PushLockInv DEF Modes
<1>2. ASSUME NEW t \in Threads, NEW l \in Locks, Acquire(t, l), UNCHANGED profilerVars
      PROVE  IInv'
  BY <1>2, ProfilerAcquireInv
<1>3. ASSUME NEW t \in Threads, NEW l \in Locks, Spin(t, l) \/ Timeout(t, l),
             UNCHANGED profilerVars
      PROVE  IInv'
  <2>1. /\ LockInv' /\ UNCHANGED <<guards, call>>
        /\ crash' = crash \/ crash' = "timeout"
    BY <1>3, SpinInv DEF IInv
  <2>2. QED
    BY <1>3, <2>1, ProfilerStillInv
<1>4. ASSUME NEW t \in Threads, NEW l \in Locks, Release(t, l)
      PROVE  IInv'
  BY <1>4, ProfilerReleaseInv
<1>5. CASE UNCHANGED vars
  <2>1. UNCHANGED lockVars /\ UNCHANGED profilerVars
    BY <1>5 DEF vars
  <2>2. LockInv'
    BY <2>1, LockNextInv DEF IInv
  <2>3. UNCHANGED <<guards, call, crash>>
    BY <2>1 DEF lockVars
  <2>4. QED
    BY <2>1, <2>2, <2>3, ProfilerStillInv
<1>6. QED
  BY <1>1, <1>2, <1>3, <1>4, <1>5 DEF Next

\* The invariant holds in every reachable state of the debug build.
THEOREM ProfilerInvariant == Spec => []IInv
<1>1. QED
  BY ProfilerInitInv, ProfilerNextInv, PTL DEF Spec

\* In the debug build the stacks of the profiler follow the guards and PopLock never
\* accuses a thread that releases its guards in order.
THEOREM StacksMatch == Spec => []StackMatches
<1>1. IInv => StackMatches
  BY DEF IInv, StackMatches, Stacked, Named
<1>2. QED
  BY <1>1, ProfilerInvariant, PTL

\* The debug build keeps what the release build promises about the words of the locks,
\* the writers and the crashes.
THEOREM DebugBuildSafe ==
    /\ Spec => []WordMatches
    /\ Spec => []Exclusion
    /\ Spec => []CrashJustified
<1>1. IInv => WordMatches /\ Exclusion /\ CrashJustified
  BY WordsMatch DEF IInv, LockInv
<1>2. QED
  BY <1>1, ProfilerInvariant, PTL

\* Every step of the debug build is a step of RWLock or none.
LEMMA DebugStepRW ==
    ASSUME IInv, IInv', [Next]_vars
    PROVE  [RW!Next]_Holds
<1>1. LockInv /\ LockInv'
  BY DEF IInv
<1>2. ASSUME NEW t \in Threads, NEW l \in Locks, NEW mode \in {"read", "write"}, PushLock(t, l, mode)
      PROVE  UNCHANGED Holds
  <2>1. guards' = guards
    BY <1>2 DEF PushLock, Call
  <2>2. QED
    BY <2>1 DEF Holds
<1>3. ASSUME NEW t \in Threads, NEW l \in Locks,
             Acquire(t, l) \/ Spin(t, l) \/ Timeout(t, l)
      PROVE  [LockNext]_lockVars
  BY <1>3 DEF LockNext
<1>4. ASSUME NEW t \in Threads, NEW l \in Locks, Release(t, l)
      PROVE  [LockNext]_lockVars
  <2>1. Unlock(t, l)
    BY <1>4, ProfilerReleaseInv
  <2>2. QED
    BY <2>1 DEF LockNext
<1>5. CASE UNCHANGED vars
  BY <1>5 DEF vars, lockVars, Holds
<1>6. ASSUME [LockNext]_lockVars
      PROVE  [RW!Next]_Holds
  BY <1>1, <1>6, LockStepRW
<1>7. QED
  BY <1>2, <1>3, <1>4, <1>5, <1>6 DEF Next

\* The debug build implements the readers-writer locks of RWLock, too: the profiler
\* delays nobody and grants nothing.
THEOREM DebugBuildImplementsRWLock == Spec => ImplementsRWLock
<1>1. Init => RW!Init
  <2>1. Init => \A t \in Threads : DOMAIN guards[t] = {}
    BY DEF Init, LockInit
  <2>2. QED
    BY <2>1 DEF RW!Init, Holds
<1>2. IInv /\ IInv' /\ [Next]_vars => [RW!Next]_Holds
  BY DebugStepRW
<1>3. QED
  BY <1>1, <1>2, ProfilerInvariant, PTL DEF Spec, ImplementsRWLock, RW!Spec

-------------------------------------------------------------------------------
(* What the profiler reports, given that the search is right: SearchCorrect is a *)
(* statement about the recursive search alone, which TLC evaluates.              *)

\* The recorded edges are among the ids that have been handed out.
HistoryBounded ==
    /\ Len(idToName) \in 0 .. Cardinality(Names)
    /\ lockHistory \in SUBSET {e \in Ids \X Ids :
           e[1] # e[2] /\ e[1] < Len(idToName) /\ e[2] < Len(idToName)}

\* The types and the handing out of ids say so.
LEMMA HistoryIsBounded == IInv => HistoryBounded
<1> SUFFICES ASSUME IInv
             PROVE  HistoryBounded
  OBVIOUS
<1>1. Injective(idToName)
  BY DEF IInv, ProfilerTypeOK, Injective
<1>2. Len(idToName) \in 0 .. Cardinality(Names)
  BY <1>1, IdsBound
<1>3. QED
  BY <1>2 DEF HistoryBounded, IInv, ProfilerTypeOK, Known

\* Only PushLock adds edges, and it searches when it does.
LEMMA SearchStep ==
    ASSUME SearchCorrect, IInv, IInv', SearchExact, [Next]_vars
    PROVE  SearchExact'
<1>1. ASSUME NEW t \in Threads, NEW l \in Locks, NEW mode \in {"read", "write"}, PushLock(t, l, mode)
      PROVE  SearchExact'
  <2>1. crash = "no" /\ ~HasCycle(lockHistory)
    BY <1>1 DEF PushLock, Call, Running, SearchExact
  <2>2. CheckCycle(lockHistory', Len(idToName')) <=> HasCycle(lockHistory')
    <3>1. HistoryBounded'
      BY HistoryIsBounded, PTL
    <3>2. QED
      BY <3>1 DEF HistoryBounded, SearchCorrect
  <2>3. CASE lockHistory' = lockHistory
    <3>1. crash' = "no"
      BY <1>1, <2>1, <2>3 DEF PushLock, Closes
    <3>2. QED
      BY <2>1, <2>3, <3>1 DEF SearchExact
  <2>4. CASE lockHistory' # lockHistory
    <3>1. IF CheckCycle(lockHistory', Len(idToName')) THEN crash' = "deadlock" ELSE crash' = "no"
      BY <1>1, <2>1, <2>4 DEF PushLock, Closes
    <3>2. QED
      BY <2>2, <3>1 DEF SearchExact
  <2>5. QED
    BY <2>3, <2>4
<1>2. ASSUME lockHistory' = lockHistory, crash' = crash \/ (crash = "no" /\ crash' # "deadlock")
      PROVE  SearchExact'
  BY <1>2 DEF SearchExact
<1>3. ASSUME NEW t \in Threads, NEW l \in Locks, Acquire(t, l), UNCHANGED profilerVars
      PROVE  SearchExact'
  BY <1>2, <1>3 DEF Acquire, WriteRecursive, WriteAcquire, ReadRecursive, ReadAcquire, profilerVars
<1>4. ASSUME NEW t \in Threads, NEW l \in Locks, Spin(t, l) \/ Timeout(t, l),
             UNCHANGED profilerVars
      PROVE  SearchExact'
  BY <1>2, <1>4, SpinInv DEF IInv, profilerVars
<1>5. ASSUME NEW t \in Threads, NEW l \in Locks, Release(t, l)
      PROVE  SearchExact'
  <2>1. lockHistory' = lockHistory /\ Unlock(t, l)
    BY <1>5, ProfilerReleaseInv DEF Release
  <2>2. crash' = crash \/ (crash = "no" /\ crash' # "deadlock")
    BY <2>1 DEF Unlock, WriteUnlock, WriteUnlockCrash, ReadUnlock, Releases, Running
  <2>3. QED
    BY <1>2, <2>1, <2>2
<1>6. CASE UNCHANGED vars
  BY <1>2, <1>6 DEF vars, lockVars, profilerVars
<1>7. QED
  BY <1>1, <1>3, <1>4, <1>5, <1>6 DEF Next

\* If the search finds exactly the cycles, searching at new edges alone misses none: the
\* profiler has crashed the process in exactly the states whose recorded order has a cycle.
THEOREM CyclesReported ==
    ASSUME SearchCorrect
    PROVE  Spec => []SearchExact
<1>1. Init => SearchExact
  <2>1. ASSUME Init
        PROVE  crash = "no" /\ ~HasCycle(lockHistory)
    <3>1. crash = "no" /\ lockHistory = {}
      BY <2>1 DEF Init, LockInit
    <3>2. \A i \in Ids : Successors(i, {}) = {}
      BY DEF Successors
    <3>3. ~HasCycle({})
      BY <3>2 DEF HasCycle
    <3>4. QED
      BY <3>1, <3>3
  <2>2. QED
    BY <2>1 DEF SearchExact
<1>2. IInv /\ IInv' /\ SearchExact /\ [Next]_vars => SearchExact'
  BY SearchStep
<1>3. QED
  BY <1>1, <1>2, ProfilerInvariant, PTL DEF Spec

-------------------------------------------------------------------------------
(* Threads that wait for each other in a circle *)

\* A nonempty set of natural numbers has a least one.
LEMMA LeastOne ==
    ASSUME NEW Q, Q \subseteq Nat, Q # {}
    PROVE  \E m \in Q : \A k \in Q : m <= k
<1>1. IsWellFoundedOn(OpToRel(<, Nat), Nat)
  BY NatLessThanWellFounded
<1>2. PICK m \in Q : \A k \in Q : ~(<<k, m>> \in OpToRel(<, Nat))
  BY <1>1, WFMin
<1>3. \A k \in Q : ~(k < m)
  BY <1>2 DEF OpToRel
<1>4. QED
  BY <1>3

\* Above a place of a stack whose value is not the last one, a neighbour has another
\* value for the first time.
LEMMA Climb ==
    ASSUME NEW s \in Seq(Ids), NEW k \in 1 .. Len(s), s[k] # s[Len(s)]
    PROVE  \E j \in 1 .. Len(s) - 1 : s[j] = s[k] /\ s[j + 1] # s[k]
<1>1. Len(s) \in Nat /\ k \in Nat
  BY LenProperties
<1>2. PICK Q : Q = {j \in 1 .. Len(s) : j > k /\ s[j] # s[k]}
  OBVIOUS
<1>3. Q \subseteq Nat /\ Len(s) \in Q
  BY <1>1, <1>2
<1>4. PICK m \in Q : \A j \in Q : m <= j
  BY <1>3, LeastOne
<1>5. m \in 2 .. Len(s) /\ m > k /\ s[m] # s[k] /\ m - 1 \in 1 .. Len(s) - 1 /\ (m - 1) + 1 = m
  BY <1>1, <1>2, <1>4
<1>6. s[m - 1] = s[k]
  <2>1. CASE m - 1 = k
    BY <2>1
  <2>2. CASE m - 1 # k
    <3>1. m - 1 \notin Q /\ m - 1 > k /\ m - 1 \in 1 .. Len(s)
      BY <1>1, <1>3, <1>4, <1>5, <2>2
    <3>2. QED
      BY <1>2, <3>1
  <2>3. QED
    BY <2>1, <2>2
<1>7. QED
  BY <1>5, <1>6

\* The id on top of the stack of a thread that calls is that of the lock it calls for.
LEMMA CallOnTop ==
    ASSUME IInv, crash = "no", NEW t \in Threads, NEW g \in call[t]
    PROVE  /\ Len(lockStack[t]) \in Nat /\ Len(lockStack[t]) = Len(guards[t]) + 1
           /\ Len(guards[t]) \in Nat
           /\ lockStack[t] \in Seq(Ids)
           /\ Last(lockStack[t]) = lockStack[t][Len(lockStack[t])]
           /\ Last(lockStack[t]) \in Ids /\ Last(lockStack[t]) < Len(idToName)
           /\ idToName[Last(lockStack[t]) + 1] = NameOf[g.lock]
<1>1. LockTypeOK /\ ProfilerTypeOK /\ Known /\ Stacked
  BY DEF IInv, LockInv
<1>2. lockStack[t] \in Seq(Ids) /\ guards[t] \in Seq(Guards)
  BY <1>1 DEF LockTypeOK, ProfilerTypeOK
<1>3. Len(lockStack[t]) \in Nat /\ Len(guards[t]) \in Nat /\ DOMAIN lockStack[t] = 1 .. Len(lockStack[t])
  BY <1>2, LenProperties
<1>4. Cardinality(call[t]) = 1
  <2>1. \E h \in Guards : call[t] = {h}
    BY <1>1 DEF LockTypeOK
  <2>2. QED
    BY <2>1, FS_Singleton
<1>5. Len(lockStack[t]) = Len(guards[t]) + 1
  BY <1>1, <1>4 DEF Stacked
<1>6. Last(lockStack[t]) = lockStack[t][Len(lockStack[t])] /\ Len(lockStack[t]) \in DOMAIN lockStack[t]
  BY <1>3, <1>5 DEF Last
<1>7. Last(lockStack[t]) \in Ids /\ Last(lockStack[t]) < Len(idToName)
  <2>1. Last(lockStack[t]) \in Ids
    BY <1>2, <1>3, <1>6, ElementOfSeq
  <2>2. QED
    BY <1>1, <1>6, <2>1 DEF Known
<1>8. QED
  BY <1>1, <1>2, <1>3, <1>5, <1>6, <1>7 DEF Stacked, Named

\* Who waits for a thread finds the id of his own call below the top of its stack.
LEMMA WaitedBelow ==
    ASSUME IInv, crash = "no", NEW t \in Threads, NEW u \in Threads, WaitsFor(t, u)
    PROVE  \E i \in 1 .. Len(guards[u]) : lockStack[u][i] = Last(lockStack[t])
<1>1. LockTypeOK /\ ProfilerTypeOK /\ Known /\ Stacked /\ Injective(idToName)
  BY DEF IInv, LockInv, ProfilerTypeOK, Injective
<1>2. PICK g \in call[t] : Writes(u, g.lock) \/ Reads(u, g.lock)
  BY DEF WaitsFor
<1>3. /\ Last(lockStack[t]) \in Ids /\ Last(lockStack[t]) < Len(idToName)
      /\ idToName[Last(lockStack[t]) + 1] = NameOf[g.lock]
  BY CallOnTop
<1>4. PICK i \in DOMAIN guards[u] : guards[u][i].lock = g.lock
  BY <1>2 DEF Writes, Reads, Has
<1>5. lockStack[u] \in Seq(Ids) /\ guards[u] \in Seq(Guards)
  BY <1>1 DEF LockTypeOK, ProfilerTypeOK
<1>6. /\ Len(lockStack[u]) \in Nat /\ Len(guards[u]) \in Nat
      /\ DOMAIN lockStack[u] = 1 .. Len(lockStack[u]) /\ DOMAIN guards[u] = 1 .. Len(guards[u])
  BY <1>5, LenProperties
<1>7. Cardinality(call[u]) \in Nat /\ Len(lockStack[u]) = Len(guards[u]) + Cardinality(call[u])
  BY <1>1, CallSize DEF Stacked
<1>8. i \in DOMAIN lockStack[u]
  BY <1>4, <1>6, <1>7
<1>9. lockStack[u][i] \in Ids /\ lockStack[u][i] < Len(idToName)
  <2>1. lockStack[u][i] \in Ids
    BY <1>5, <1>6, <1>8, ElementOfSeq
  <2>2. QED
    BY <1>1, <1>8, <2>1 DEF Known
<1>10. idToName[lockStack[u][i] + 1] = NameOf[g.lock]
  BY <1>1, <1>4 DEF Stacked, Named
<1>11. lockStack[u][i] = Last(lockStack[t])
  BY <1>1, <1>3, <1>9, <1>10, IdFacts
<1>12. QED
  BY <1>4, <1>6, <1>11

\* A circle of waiting threads without a cycle in the recorded order: some of them, all
\* waiting for one name, are a circle of their own.
LEMMA CircleOfOneName ==
    ASSUME IInv, crash = "no", ~HasCycle(lockHistory),
           NEW D, D \subseteq Threads, D # {}, Stuck(D)
    PROVE  \E E \in (SUBSET D) \ {{}} :
               Stuck(E) /\ \A t, u \in E : \A g \in call[t], k \in call[u] : NameOf[g.lock] = NameOf[k.lock]
<1>1. \A t \in D : \E u \in D : WaitsFor(t, u)
  BY DEF Stuck
<1>2. \A t \in D : call[t] # {}
  BY <1>1 DEF WaitsFor
<1>3. \A t \in D : /\ Len(lockStack[t]) \in Nat /\ Len(lockStack[t]) = Len(guards[t]) + 1
                   /\ Len(guards[t]) \in Nat
                   /\ lockStack[t] \in Seq(Ids)
                   /\ Last(lockStack[t]) = lockStack[t][Len(lockStack[t])]
  BY <1>2, CallOnTop
<1>4. PICK S : S = {i \in Ids : \E t \in D : \E k \in 1 .. Len(lockStack[t]) : lockStack[t][k] = i}
  OBVIOUS
<1>5. \A t \in D : \A k \in 1 .. Len(lockStack[t]) : lockStack[t][k] \in S
  BY <1>3, <1>4, ElementOfSeq
<1>6. S \in (SUBSET Ids) \ {{}}
  <2>1. PICK t \in D : TRUE
    OBVIOUS
  <2>2. Len(lockStack[t]) \in 1 .. Len(lockStack[t])
    BY <1>3
  <2>3. QED
    BY <1>4, <1>5, <2>2
<1>7. PICK i \in S : Successors(i, lockHistory) \cap S = {}
  BY <1>6 DEF HasCycle
<1>8. ASSUME NEW u \in D, NEW k \in 1 .. Len(lockStack[u]), lockStack[u][k] = i
      PROVE  Last(lockStack[u]) = i
  <2>1. SUFFICES ASSUME lockStack[u][k] # lockStack[u][Len(lockStack[u])]
                 PROVE  FALSE
    BY <1>3, <1>8
  <2>2. PICK j \in 1 .. Len(lockStack[u]) - 1 : lockStack[u][j] = i /\ lockStack[u][j + 1] # i
    BY <1>3, <1>8, <2>1, Climb
  <2>3. <<i, lockStack[u][j + 1]>> \in lockHistory
    BY <2>2 DEF IInv, Chained, Chain
  <2>4. lockStack[u][j + 1] \in S
    BY <1>3, <1>5, <2>2
  <2>5. QED
    BY <1>4, <1>7, <2>3, <2>4 DEF Successors
<1>9. PICK E : E = {t \in D : Last(lockStack[t]) = i}
  OBVIOUS
<1>10. E \in (SUBSET D) \ {{}}
  BY <1>4, <1>8, <1>9
<1>11. Stuck(E)
  <2>1. ASSUME NEW t \in E
        PROVE  \E u \in E : WaitsFor(t, u)
    <3>1. PICK u \in D : WaitsFor(t, u)
      BY <1>1, <1>9
    <3>2. PICK k \in 1 .. Len(guards[u]) : lockStack[u][k] = Last(lockStack[t])
      BY <1>9, <3>1, WaitedBelow
    <3>3. k \in 1 .. Len(lockStack[u]) /\ lockStack[u][k] = i
      BY <1>3, <1>9, <3>2
    <3>4. QED
      BY <1>8, <1>9, <3>1, <3>3
  <2>2. QED
    BY <2>1 DEF Stuck
<1>12. ASSUME NEW t \in E, NEW u \in E, NEW g \in call[t], NEW k \in call[u]
       PROVE  NameOf[g.lock] = NameOf[k.lock]
  <2>1. t \in Threads /\ u \in Threads /\ Last(lockStack[t]) = i /\ Last(lockStack[u]) = i
    BY <1>9
  <2>2. idToName[i + 1] = NameOf[g.lock] /\ idToName[i + 1] = NameOf[k.lock]
    BY <2>1, CallOnTop
  <2>3. QED
    BY <2>2
<1>13. QED
  BY <1>10, <1>11, <1>12

\* If the search finds exactly the cycles, threads never wait for each other in a circle
\* over several names: the profiler has crashed the process before the circle closes.
THEOREM CirclesAnnounced ==
    ASSUME SearchCorrect
    PROVE  Spec => []NoSilentDeadlock
<1>1. ASSUME IInv, SearchExact
      PROVE  NoSilentDeadlock
  <2>1. crash = "no" => ~HasCycle(lockHistory)
    BY <1>1 DEF SearchExact
  <2>2. ASSUME crash = "no", NEW D \in (SUBSET Threads) \ {{}}, Stuck(D)
        PROVE  \E E \in (SUBSET D) \ {{}} :
                   Stuck(E) /\ \A t, u \in E : \A g \in call[t], k \in call[u] : NameOf[g.lock] = NameOf[k.lock]
    BY <1>1, <2>1, <2>2, CircleOfOneName
  <2>3. QED
    BY <2>2 DEF NoSilentDeadlock
<1>2. Spec => []SearchExact
  BY CyclesReported
<1>3. QED
  BY <1>1, <1>2, ProfilerInvariant, PTL

===============================================================================
