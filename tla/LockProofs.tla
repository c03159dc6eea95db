------------------------------ MODULE LockProofs ------------------------------
(***************************************************************************)
(* Proofs about Lock for any finite set of threads, any set of locks and    *)
(* any depth of guards that fits into the read count.                       *)
(***************************************************************************)
EXTENDS Lock, FiniteSetTheorems, SequenceTheorems, TLAPS

\* How a lock is taken, and the guard that takes it.
Modes == {"read", "write"}
Guard(l, mode) == [lock |-> l, mode |-> mode]

-------------------------------------------------------------------------------
(* What the beginning and the end of a guard do to the guards of its thread *)

\* The constructed guard becomes the last one, and no other guard changes.
LEMMA AcquiredGuards ==
    ASSUME LockTypeOK, NEW t \in Threads, NEW g \in Guards, call[t] = {g}, Acquired(t)
    PROVE  /\ guards' = [guards EXCEPT ![t] = Append(guards[t], g)]
           /\ call' = [call EXCEPT ![t] = {}]
           /\ guards' \in [Threads -> Seq(Guards)]
           /\ Len(guards[t]) \in Nat /\ Len(guards[t]) + 1 <= MaxDepth
           /\ Len(guards'[t]) = Len(guards[t]) + 1
           /\ guards'[t][Len(guards[t]) + 1] = g
           /\ \A i \in 1 .. Len(guards[t]) : guards'[t][i] = guards[t][i]
           /\ \A u \in Threads \ {t} : guards'[u] = guards[u]
<1>1. (CHOOSE h \in call[t] : TRUE) = g
  OBVIOUS
<1>2. guards[t] \in Seq(Guards) /\ guards \in [Threads -> Seq(Guards)]
  BY DEF LockTypeOK
<1>3. guards[t] \o <<g>> = Append(guards[t], g)
  BY <1>2, AppendIsConcat
<1>4. Cardinality(call[t]) = 1
  BY FS_Singleton
<1>5. Len(guards[t]) + 1 <= MaxDepth /\ Len(guards[t]) \in Nat
  <2>1. Len(guards[t]) + Cardinality(call[t]) <= MaxDepth
    BY DEF LockTypeOK
  <2>2. QED
    BY <1>2, <1>4, <2>1, LenProperties
<1>6. guards' = [guards EXCEPT ![t] = Append(guards[t], g)]
  <2>1. guards' = [guards EXCEPT ![t] = guards[t] \o <<g>>]
    BY <1>1 DEF Acquired
  <2>2. QED
    BY <2>1, <1>3, Zenon
<1>7. guards'[t] = Append(guards[t], g)
  BY <1>2, <1>6
<1>8. /\ Append(guards[t], g) \in Seq(Guards)
      /\ Len(Append(guards[t], g)) = Len(guards[t]) + 1
      /\ Append(guards[t], g)[Len(guards[t]) + 1] = g
      /\ \A i \in 1 .. Len(guards[t]) : Append(guards[t], g)[i] = guards[t][i]
  BY <1>2, AppendProperties
<1>9. call' = [call EXCEPT ![t] = {}]
  BY DEF Acquired
<1>10. QED
  BY <1>2, <1>5, <1>6, <1>7, <1>8, <1>9

\* The last guard is gone, and no other guard changes.
LEMMA ReleasedGuards ==
    ASSUME LockTypeOK, NEW t \in Threads, guards[t] # <<>>, Released(t)
    PROVE  /\ guards' \in [Threads -> Seq(Guards)]
           /\ Len(guards[t]) \in Nat \ {0}
           /\ Len(guards'[t]) = Len(guards[t]) - 1
           /\ \A i \in 1 .. Len(guards[t]) - 1 : guards'[t][i] = guards[t][i]
           /\ \A u \in Threads \ {t} : guards'[u] = guards[u]
<1>1. guards[t] \in Seq(Guards) /\ guards \in [Threads -> Seq(Guards)]
  BY DEF LockTypeOK
<1>2. Len(guards[t]) \in Nat \ {0}
  BY <1>1, EmptySeq
<1> DEFINE n == Len(guards[t])
           s == SubSeq(guards[t], 1, n - 1)
<1>3. \A i \in 1 .. n - 1 : guards[t][i] \in Guards
  BY <1>1, <1>2, ElementOfSeq
<1>4. s \in Seq(Guards) /\ Len(s) = n - 1 /\ \A i \in 1 .. n - 1 : s[i] = guards[t][i]
  <2> HIDE DEF s
  <2>1. n - 1 \in Int /\ 1 \in Int
    BY <1>2
  <2>2. /\ SubSeq(guards[t], 1, n - 1) \in Seq(Guards)
        /\ Len(SubSeq(guards[t], 1, n - 1)) = IF 1 <= n - 1 THEN (n - 1) - 1 + 1 ELSE 0
        /\ \A i \in 1 .. (n - 1) - 1 + 1 : SubSeq(guards[t], 1, n - 1)[i] = guards[t][1 + i - 1]
    BY <2>1, <1>3, SubSeqProperties
  <2>3. QED
    BY <2>2, <1>2 DEF s
<1>5. guards' = [guards EXCEPT ![t] = s]
  BY DEF Released
<1>6. guards'[t] = s
  BY <1>1, <1>5
<1>7. QED
  BY <1>1, <1>2, <1>4, <1>5, <1>6

\* A thread has a guard after the step iff it had it or has just got it.
LEMMA HasAcquired ==
    ASSUME LockTypeOK, NEW t \in Threads, NEW g \in Guards, call[t] = {g}, Acquired(t)
    PROVE  \A u \in Threads, h \in Guards : Has(u, h)' <=> Has(u, h) \/ (u = t /\ h = g)
<1> SUFFICES ASSUME NEW u \in Threads, NEW h \in Guards
             PROVE  Has(u, h)' <=> Has(u, h) \/ (u = t /\ h = g)
  OBVIOUS
<1>1. DOMAIN guards[u] = 1 .. Len(guards[u]) /\ Len(guards[u]) \in Nat
  BY LenProperties DEF LockTypeOK
<1>2. DOMAIN guards'[u] = 1 .. Len(guards'[u])
  BY AcquiredGuards, LenProperties
<1>3. CASE u # t
  BY <1>3, AcquiredGuards DEF Has
<1>4. CASE u = t
  <2>1. DOMAIN guards'[t] = DOMAIN guards[t] \cup {Len(guards[t]) + 1}
    BY <1>1, <1>2, <1>4, AcquiredGuards
  <2>2. /\ guards'[t][Len(guards[t]) + 1] = g
        /\ \A i \in DOMAIN guards[t] : guards'[t][i] = guards[t][i]
    BY <1>1, <1>4, AcquiredGuards
  <2>3. QED
    BY <1>4, <2>1, <2>2 DEF Has
<1>5. QED
  BY <1>3, <1>4

\* The places of the guards of one kind, among all threads and of one thread.
Places(h) == {r \in Threads \X (1 .. MaxDepth) :
    /\ r[2] <= Len(guards[r[1]])
    /\ guards[r[1]][r[2]] = h}

OwnPlaces(u, h) == {i \in 1 .. MaxDepth :
    /\ i <= Len(guards[u])
    /\ guards[u][i] = h}

\* The places are finitely many, and are no more than fit into the read count.
LEMMA PlacesFinite ==
    /\ \A h : IsFiniteSet(Places(h)) /\ Cardinality(Places(h)) \in Nat
    /\ \A u, h : IsFiniteSet(OwnPlaces(u, h)) /\ Cardinality(OwnPlaces(u, h)) \in Nat
    /\ IsFiniteSet(Threads \X (1 .. MaxDepth))
    /\ Cardinality(Threads \X (1 .. MaxDepth)) <= ReadMax
<1>1. IsFiniteSet(1 .. MaxDepth) /\ Cardinality(1 .. MaxDepth) = MaxDepth
  BY FS_Interval, DepthAssumption
<1>2. /\ IsFiniteSet(Threads \X (1 .. MaxDepth))
      /\ Cardinality(Threads \X (1 .. MaxDepth)) = Cardinality(Threads) * MaxDepth
  BY <1>1, FS_Product, ThreadsAssumption
<1>3. ASSUME NEW h
      PROVE  IsFiniteSet(Places(h)) /\ Cardinality(Places(h)) \in Nat
  <2>1. Places(h) \in SUBSET (Threads \X (1 .. MaxDepth))
    BY DEF Places
  <2>2. QED
    BY <1>2, <2>1, FS_Subset, FS_CardinalityType
<1>4. ASSUME NEW u, NEW h
      PROVE  IsFiniteSet(OwnPlaces(u, h)) /\ Cardinality(OwnPlaces(u, h)) \in Nat
  <2>1. OwnPlaces(u, h) \in SUBSET (1 .. MaxDepth)
    BY DEF OwnPlaces
  <2>2. QED
    BY <1>1, <2>1, FS_Subset, FS_CardinalityType
<1>5. QED
  BY <1>2, <1>3, <1>4, ReadersAssumption

\* A new guard adds one place of its kind.
LEMMA PlacesAcquired ==
    ASSUME LockTypeOK, NEW t \in Threads, NEW g \in Guards, call[t] = {g}, Acquired(t)
    PROVE  \A h \in Guards :
               /\ Cardinality(Places(h))' =
                      IF h = g THEN Cardinality(Places(h)) + 1 ELSE Cardinality(Places(h))
               /\ \A u \in Threads : Cardinality(OwnPlaces(u, h))' =
                      IF u = t /\ h = g THEN Cardinality(OwnPlaces(u, h)) + 1
                      ELSE Cardinality(OwnPlaces(u, h))
<1> DEFINE n == Len(guards[t])
<1> SUFFICES ASSUME NEW h \in Guards
             PROVE  /\ Cardinality(Places(h))' =
                           IF h = g THEN Cardinality(Places(h)) + 1
                           ELSE Cardinality(Places(h))
                    /\ \A u \in Threads : Cardinality(OwnPlaces(u, h))' =
                           IF u = t /\ h = g THEN Cardinality(OwnPlaces(u, h)) + 1
                           ELSE Cardinality(OwnPlaces(u, h))
  OBVIOUS
<1>1. n \in Nat /\ n + 1 \in 1 .. MaxDepth /\ MaxDepth \in Nat
  BY AcquiredGuards, DepthAssumption
<1>2. \A u \in Threads : Len(guards[u]) \in Nat
  BY LenProperties DEF LockTypeOK
<1>3. Places(h)' = IF h = g THEN Places(h) \cup {<<t, n + 1>>} ELSE Places(h)
  <2>1. ASSUME NEW u \in Threads, NEW i \in 1 .. MaxDepth
        PROVE  (i <= Len(guards'[u]) /\ guards'[u][i] = h)
                 <=> \/ i <= Len(guards[u]) /\ guards[u][i] = h
                     \/ u = t /\ i = n + 1 /\ h = g
    <3>1. CASE u # t
      BY <3>1, AcquiredGuards
    <3>2. CASE u = t
      <4>1. i <= n + 1 <=> i \in 1 .. n \/ i = n + 1
        BY <1>1
      <4>2. i <= n <=> i \in 1 .. n
        BY <1>1
      <4>3. QED
        BY <1>1, <3>2, <4>1, <4>2, AcquiredGuards
    <3>3. QED
      BY <3>1, <3>2
  <2>2. CASE h = g
    <3>1. \A u \in Threads, i \in 1 .. MaxDepth :
              <<u, i>> \in Places(h)' <=> <<u, i>> \in Places(h) \/ <<u, i>> = <<t, n + 1>>
      BY <2>1, <2>2 DEF Places
    <3>2. /\ Places(h) \subseteq Threads \X (1 .. MaxDepth)
          /\ Places(h)' \subseteq Threads \X (1 .. MaxDepth)
          /\ <<t, n + 1>> \in Threads \X (1 .. MaxDepth)
      BY <1>1 DEF Places
    <3>3. Places(h)' = Places(h) \cup {<<t, n + 1>>}
      BY <3>1, <3>2
    <3>4. QED
      BY <2>2, <3>3
  <2>3. CASE h # g
    BY <2>1, <2>3 DEF Places
  <2>4. QED
    BY <2>2, <2>3
<1>4. <<t, n + 1>> \notin Places(h)
  BY <1>1 DEF Places
<1>5. Cardinality(Places(h))' =
          IF h = g THEN Cardinality(Places(h)) + 1 ELSE Cardinality(Places(h))
  BY <1>3, <1>4, PlacesFinite, FS_AddElement
<1>6. ASSUME NEW u \in Threads
      PROVE  Cardinality(OwnPlaces(u, h))' =
                 IF u = t /\ h = g THEN Cardinality(OwnPlaces(u, h)) + 1
                 ELSE Cardinality(OwnPlaces(u, h))
  <2>1. OwnPlaces(u, h)' =
            IF u = t /\ h = g THEN OwnPlaces(u, h) \cup {n + 1} ELSE OwnPlaces(u, h)
    <3>1. CASE u # t
      BY <3>1, AcquiredGuards DEF OwnPlaces
    <3>2. CASE u = t
      <4>1. \A i \in 1 .. MaxDepth :
                /\ i <= n + 1 <=> i \in 1 .. n \/ i = n + 1
                /\ i <= n <=> i \in 1 .. n
        BY <1>1
      <4>2. QED
        BY <1>1, <3>2, <4>1, AcquiredGuards DEF OwnPlaces
    <3>3. QED
      BY <3>1, <3>2
  <2>2. u = t => n + 1 \notin OwnPlaces(u, h)
    BY <1>1 DEF OwnPlaces
  <2>3. QED
    BY <2>1, <2>2, PlacesFinite, FS_AddElement
<1>7. QED
  BY <1>5, <1>6

\* A thread constructs no guard or one.
LEMMA CallSize ==
    ASSUME LockTypeOK, NEW u \in Threads
    PROVE  Cardinality(call[u]) \in Nat
<1>1. call[u] = {} \/ \E g \in Guards : call[u] = {g}
  BY DEF LockTypeOK
<1>2. CASE call[u] = {}
  BY <1>2, FS_EmptySet
<1>3. CASE \E g \in Guards : call[u] = {g}
  BY <1>3, FS_Singleton
<1>4. QED
  BY <1>1, <1>2, <1>3

\* A thread has a guard iff the guard has a place, of its own and among all.
PlacesAgree == \A h \in Guards :
    /\ \A u \in Threads : Has(u, h) <=> Cardinality(OwnPlaces(u, h)) # 0
    /\ Cardinality(Places(h)) = 0 <=> \A u \in Threads : ~Has(u, h)

\* The sequences of guards and the sets of their places describe the same.
LEMMA HasPlaces == LockTypeOK => PlacesAgree
<1> SUFFICES ASSUME LockTypeOK
             PROVE  PlacesAgree
  OBVIOUS
<1>1. \A u \in Threads : /\ Len(guards[u]) \in Nat /\ Len(guards[u]) <= MaxDepth
                         /\ DOMAIN guards[u] = 1 .. Len(guards[u])
  <2> SUFFICES ASSUME NEW u \in Threads
               PROVE  /\ Len(guards[u]) \in Nat /\ Len(guards[u]) <= MaxDepth
                      /\ DOMAIN guards[u] = 1 .. Len(guards[u])
    OBVIOUS
  <2>1. Len(guards[u]) \in Nat /\ DOMAIN guards[u] = 1 .. Len(guards[u])
    BY LenProperties DEF LockTypeOK
  <2>3. Cardinality(call[u]) \in Nat
    BY CallSize
  <2>4. Len(guards[u]) + Cardinality(call[u]) <= MaxDepth
    BY DEF LockTypeOK
  <2>5. QED
    BY <2>1, <2>3, <2>4, DepthAssumption
<1>2. \A u \in Threads, h \in Guards : Has(u, h) <=> OwnPlaces(u, h) # {}
  BY <1>1, DepthAssumption DEF Has, OwnPlaces
<1>3. \A h \in Guards : Places(h) = {} <=> \A u \in Threads : ~Has(u, h)
  <2> SUFFICES ASSUME NEW h \in Guards
               PROVE  Places(h) = {} <=> \A u \in Threads : ~Has(u, h)
    OBVIOUS
  <2>1. ASSUME NEW u \in Threads, NEW i \in DOMAIN guards[u], guards[u][i] = h
        PROVE  <<u, i>> \in Places(h)
    <3>1. i \in 1 .. MaxDepth /\ i <= Len(guards[u])
      BY <1>1, DepthAssumption
    <3>2. QED
      BY <2>1, <3>1 DEF Places
  <2>2. ASSUME NEW r \in Places(h)
        PROVE  Has(r[1], h) /\ r[1] \in Threads
    <3>1. /\ r[1] \in Threads /\ r[2] \in 1 .. MaxDepth
          /\ r[2] <= Len(guards[r[1]]) /\ guards[r[1]][r[2]] = h
      BY DEF Places
    <3>2. r[2] \in DOMAIN guards[r[1]]
      BY <1>1, <3>1
    <3>3. QED
      BY <3>1, <3>2 DEF Has
  <2>3. QED
    BY <2>1, <2>2 DEF Has
<1>4. QED
  BY <1>2, <1>3, PlacesFinite, FS_EmptySet DEF PlacesAgree

\* After the step every other guard is where it was, of the last one a place less.
LEMMA HasReleased ==
    ASSUME LockTypeOK, NEW t \in Threads, guards[t] # <<>>, Released(t)
    PROVE  /\ Has(t, Top(t))
           /\ \A u \in Threads, h \in Guards : Has(u, h)' => Has(u, h)
           /\ \A u \in Threads, h \in Guards :
                  u # t \/ h # Top(t) => (Has(u, h)' <=> Has(u, h))
<1> DEFINE n == Len(guards[t])
<1>1. n \in Nat \ {0} /\ DOMAIN guards[t] = 1 .. n
  BY ReleasedGuards, LenProperties DEF LockTypeOK
<1>2. DOMAIN guards'[t] = 1 .. n - 1
  BY <1>1, ReleasedGuards, LenProperties
<1>3. Has(t, Top(t))
  BY <1>1 DEF Has, Top
<1>4. ASSUME NEW u \in Threads, NEW h \in Guards
      PROVE  /\ Has(u, h)' => Has(u, h)
             /\ u # t \/ h # Top(t) => (Has(u, h)' <=> Has(u, h))
  <2>1. CASE u # t
    BY <2>1, ReleasedGuards DEF Has
  <2>2. CASE u = t
    <3>1. DOMAIN guards[t] = DOMAIN guards'[t] \cup {n}
      BY <1>1, <1>2
    <3>2. guards[t][n] = Top(t) /\ \A i \in DOMAIN guards'[t] : guards'[t][i] = guards[t][i]
      BY <1>2, ReleasedGuards DEF Top
    <3>3. QED
      BY <2>2, <3>1, <3>2 DEF Has
  <2>3. QED
    BY <2>1, <2>2
<1>5. QED
  BY <1>3, <1>4

\* The last guard gives up one place of its kind.
LEMMA PlacesReleased ==
    ASSUME LockTypeOK, NEW t \in Threads, guards[t] # <<>>, Len(guards[t]) <= MaxDepth,
           Released(t)
    PROVE  \A h \in Guards :
               /\ Cardinality(Places(h))' =
                      IF h = Top(t) THEN Cardinality(Places(h)) - 1
                      ELSE Cardinality(Places(h))
               /\ \A u \in Threads : Cardinality(OwnPlaces(u, h))' =
                      IF u = t /\ h = Top(t) THEN Cardinality(OwnPlaces(u, h)) - 1
                      ELSE Cardinality(OwnPlaces(u, h))
<1> DEFINE n == Len(guards[t])
<1> SUFFICES ASSUME NEW h \in Guards
             PROVE  /\ Cardinality(Places(h))' =
                           IF h = Top(t) THEN Cardinality(Places(h)) - 1
                           ELSE Cardinality(Places(h))
                    /\ \A u \in Threads : Cardinality(OwnPlaces(u, h))' =
                           IF u = t /\ h = Top(t) THEN Cardinality(OwnPlaces(u, h)) - 1
                           ELSE Cardinality(OwnPlaces(u, h))
  OBVIOUS
<1>1. n \in Nat /\ n \in 1 .. MaxDepth /\ MaxDepth \in Nat /\ n - 1 \in Nat
  BY ReleasedGuards, DepthAssumption
<1>2. \A i \in 1 .. MaxDepth : /\ i <= n - 1 <=> i \in 1 .. n - 1
                               /\ i <= n <=> i \in 1 .. n - 1 \/ i = n
                               /\ i \in 1 .. n - 1 => i # n
  BY <1>1
<1>3. \A u \in Threads, i \in 1 .. MaxDepth :
          (i <= Len(guards'[u]) /\ guards'[u][i] = h)
            <=> /\ i <= Len(guards[u]) /\ guards[u][i] = h
                /\ ~(u = t /\ i = n)
  <2> SUFFICES ASSUME NEW u \in Threads, NEW i \in 1 .. MaxDepth
               PROVE  (i <= Len(guards'[u]) /\ guards'[u][i] = h)
                        <=> /\ i <= Len(guards[u]) /\ guards[u][i] = h
                            /\ ~(u = t /\ i = n)
    OBVIOUS
  <2>1. CASE u # t
    BY <2>1, ReleasedGuards
  <2>2. CASE u = t
    BY <1>1, <1>2, <2>2, ReleasedGuards
  <2>3. QED
    BY <2>1, <2>2
<1>4. guards[t][n] = Top(t)
  BY DEF Top
<1>5. Cardinality(Places(h))' =
          IF h = Top(t) THEN Cardinality(Places(h)) - 1 ELSE Cardinality(Places(h))
  <2>1. Places(h)' = Places(h) \ {<<t, n>>}
    BY <1>3 DEF Places
  <2>2. <<t, n>> \in Places(h) <=> h = Top(t)
    BY <1>1, <1>4 DEF Places
  <2>3. Cardinality(Places(h) \ {<<t, n>>}) =
            IF <<t, n>> \in Places(h) THEN Cardinality(Places(h)) - 1
            ELSE Cardinality(Places(h))
    BY PlacesFinite, FS_RemoveElement
  <2>4. QED
    BY <2>1, <2>2, <2>3
<1>6. ASSUME NEW u \in Threads
      PROVE  Cardinality(OwnPlaces(u, h))' =
                 IF u = t /\ h = Top(t) THEN Cardinality(OwnPlaces(u, h)) - 1
                 ELSE Cardinality(OwnPlaces(u, h))
  <2>1. CASE u # t
    <3>1. OwnPlaces(u, h)' = OwnPlaces(u, h)
      BY <1>3, <2>1 DEF OwnPlaces
    <3>2. QED
      BY <2>1, <3>1
  <2>2. CASE u = t
    <3>1. OwnPlaces(t, h)' = OwnPlaces(t, h) \ {n}
      BY <1>3 DEF OwnPlaces
    <3>2. n \in OwnPlaces(t, h) <=> h = Top(t)
      BY <1>1, <1>4 DEF OwnPlaces
    <3>3. QED
      BY <2>2, <3>1, <3>2, PlacesFinite, FS_RemoveElement
  <2>3. QED
    BY <2>1, <2>2
<1>7. QED
  BY <1>5, <1>6

-------------------------------------------------------------------------------
(* The invariant: the word tells the truth, and so nobody is beside a writer *)

\* What WordMatches says of the words, by the places of the guards.
Words == \A l \in Locks :
    /\ \A t \in Threads : owner[l] = t <=> Has(t, Guard(l, "write"))
    /\ readCount[l] = Cardinality(Places(Guard(l, "read")))
    /\ owner[l] = NoThread => writeCount[l] = 0
    /\ \A t \in Threads :
           owner[l] = t => writeCount[l] = Cardinality(OwnPlaces(t, Guard(l, "write")))

\* The inductive invariant: each of the three needs the one before it.
LockInv == LockTypeOK /\ Words /\ Exclusion /\ CrashJustified

\* The reformulation says the same.
LEMMA WordsMatch == WordMatches <=> LockTypeOK /\ Words
<1>1. \A l \in Locks : ReadGuards(l) = Places(Guard(l, "read"))
  BY DEF ReadGuards, Places, Guard
<1>2. \A l \in Locks, t \in Threads : WriteGuards(t, l) = OwnPlaces(t, Guard(l, "write"))
  BY DEF WriteGuards, OwnPlaces, Guard
<1>3. QED
  BY <1>1, <1>2 DEF WordMatches, Words, Writes, Guard

\* Guards are read or write guards of a lock, and different ones differ.
LEMMA GuardFacts ==
    /\ \A l \in Locks, mode \in Modes : Guard(l, mode) \in Guards
    /\ \A l, k \in Locks, mode, other \in Modes :
           Guard(l, mode) = Guard(k, other) <=> l = k /\ mode = other
    /\ \A g \in Guards : \E l \in Locks, mode \in Modes : g = Guard(l, mode)
BY DEF Guard, Guards, Modes

\* Every lock is free in the initial state.
LEMMA LockInitInv == LockInit => LockInv
<1> SUFFICES ASSUME LockInit
             PROVE  LockInv
  OBVIOUS
<1>1. LockTypeOK
  <2>1. \A t \in Threads : Len(guards[t]) + Cardinality(call[t]) <= MaxDepth
    <3>1. \A t \in Threads : guards[t] = <<>> /\ call[t] = {}
      BY DEF LockInit
    <3>2. Len(<<>>) = 0 /\ Cardinality({}) = 0
      BY FS_EmptySet
    <3>3. \A t \in Threads : Len(guards[t]) = 0 /\ Cardinality(call[t]) = 0
      BY <3>1, <3>2, Zenon
    <3>4. QED
      BY <3>3, DepthAssumption
  <2>2. QED
    BY <2>1, DepthAssumption DEF LockInit, LockTypeOK, Owners, Reasons
<1>2. \A t \in Threads, g \in Guards : ~Has(t, g)
  BY DEF LockInit, Has
<1>3. \A g \in Guards : Cardinality(Places(g)) = 0
  BY <1>1, <1>2, HasPlaces DEF PlacesAgree
<1>4. Words
  <2>1. \A l \in Locks : owner[l] = NoThread /\ readCount[l] = 0 /\ writeCount[l] = 0
    BY DEF LockInit
  <2>2. QED
    BY <1>2, <1>3, <2>1, ThreadsAssumption, GuardFacts DEF Words, Modes
<1>5. Exclusion /\ CrashJustified
  <2>1. \A t \in Threads, l \in Locks : ~Writes(t, l)
    BY <1>2, GuardFacts DEF Writes, Guard, Modes
  <2>2. crash = "no"
    BY DEF LockInit
  <2>3. QED
    BY <2>1, <2>2 DEF Exclusion, CrashJustified
<1>6. QED
  BY <1>1, <1>4, <1>5 DEF LockInv

\* A step that the lock takes by its owner bits is told from one by the guards.
LEMMA Inside ==
    ASSUME LockInv, NEW l \in Locks
    PROVE  /\ owner[l] \in Owners
           /\ \A t \in Threads : Writes(t, l) <=> owner[l] = t
           /\ owner[l] = NoThread => \A t \in Threads : ~Writes(t, l)
           /\ readCount[l] = 0 <=> \A t \in Threads : ~Reads(t, l)
           /\ \A t, u \in Threads : owner[l] = t /\ Reads(u, l) => u = t
<1>1. owner[l] \in Owners
  BY DEF LockInv, LockTypeOK
<1>2. \A t \in Threads : Writes(t, l) <=> owner[l] = t
  BY DEF LockInv, Words, Writes, Guard
<1>3. readCount[l] = Cardinality(Places(Guard(l, "read")))
  BY DEF LockInv, Words
<1>4. readCount[l] = 0 <=> \A t \in Threads : ~Reads(t, l)
  <2>1. Guard(l, "read") \in Guards
    BY GuardFacts DEF Modes
  <2>2. QED
    BY <1>3, <2>1, HasPlaces DEF PlacesAgree, LockInv, Reads, Guard
<1>5. \A t, u \in Threads : owner[l] = t /\ Reads(u, l) => u = t
  BY <1>2 DEF LockInv, Exclusion
<1>6. QED
  BY <1>1, <1>2, <1>4, <1>5, ThreadsAssumption

-------------------------------------------------------------------------------
(* The steps *)

\* The guards and the calls keep their types when a guard is acquired.
LEMMA AcquiredType ==
    ASSUME LockTypeOK, NEW t \in Threads, NEW g \in Guards, call[t] = {g}, Acquired(t)
    PROVE  /\ guards' \in [Threads -> Seq(Guards)]
           /\ \A u \in Threads : call'[u] \in {{}} \cup {{h} : h \in Guards}
           /\ DOMAIN call' = Threads
           /\ \A u \in Threads : Len(guards'[u]) + Cardinality(call'[u]) <= MaxDepth
           /\ loaded' \in [Threads -> SUBSET (0 .. ReadMax)] /\ failed' \subseteq Threads
<1>1. /\ call' = [call EXCEPT ![t] = {}] /\ DOMAIN call = Threads
      /\ \A u \in Threads : call[u] \in {{}} \cup {{h} : h \in Guards}
  BY AcquiredGuards DEF LockTypeOK
<1>2. \A u \in Threads : call'[u] = IF u = t THEN {} ELSE call[u]
  BY <1>1
<1>3. ASSUME NEW u \in Threads
      PROVE  Len(guards'[u]) + Cardinality(call'[u]) <= MaxDepth
  <2>1. CASE u = t
    <3>1. Cardinality(call'[t]) = 0
      BY <1>2, FS_EmptySet
    <3>2. QED
      BY <2>1, <3>1, AcquiredGuards, DepthAssumption
  <2>2. CASE u # t
    <3>1. guards'[u] = guards[u] /\ call'[u] = call[u]
      BY <1>2, <2>2, AcquiredGuards
    <3>2. QED
      BY <3>1 DEF LockTypeOK
  <2>3. QED
    BY <2>1, <2>2
<1>4. loaded' \in [Threads -> SUBSET (0 .. ReadMax)] /\ failed' \subseteq Threads
  BY DEF Acquired, LockTypeOK
<1>5. QED
  BY <1>1, <1>2, <1>3, <1>4, AcquiredGuards

\* One more read guard fits into the read count: the addition does not carry.
LEMMA NoCarry ==
    ASSUME LockTypeOK, Words, NEW t \in Threads, NEW l \in Locks,
           call[t] = {Guard(l, "read")}, Acquired(t)
    PROVE  readCount[l] < ReadMax
<1> DEFINE g == Guard(l, "read")
           S == Threads \X (1 .. MaxDepth)
<1>1. g \in Guards
  BY GuardFacts DEF Modes
<1>2. Len(guards[t]) + 1 \in 1 .. MaxDepth
  BY <1>1, AcquiredGuards, DepthAssumption
<1>3. Places(g) \in SUBSET S /\ <<t, Len(guards[t]) + 1>> \in S
  BY <1>2 DEF Places
<1>4. <<t, Len(guards[t]) + 1>> \notin Places(g)
  BY <1>1, AcquiredGuards DEF Places
<1>5. Cardinality(Places(g) \cup {<<t, Len(guards[t]) + 1>>}) = Cardinality(Places(g)) + 1
  BY <1>4, PlacesFinite, FS_AddElement
<1>6. Cardinality(Places(g) \cup {<<t, Len(guards[t]) + 1>>}) <= Cardinality(S)
  <2>1. Places(g) \cup {<<t, Len(guards[t]) + 1>>} \in SUBSET S
    BY <1>3
  <2>2. QED
    BY <2>1, PlacesFinite, FS_Subset
<1>7. Cardinality(S) <= ReadMax /\ Cardinality(S) \in Nat /\ Cardinality(Places(g)) \in Nat
  BY PlacesFinite, FS_CardinalityType
<1>8. readCount[l] = Cardinality(Places(g))
  BY DEF Words
<1>9. QED
  BY <1>5, <1>6, <1>7, <1>8, DepthAssumption

\* Both ways of WriteLock: the recursion and the exchange of the empty word.
LEMMA WriteLockInv ==
    ASSUME LockInv, NEW t \in Threads, NEW l \in Locks,
           WriteRecursive(t, l) \/ WriteAcquire(t, l)
    PROVE  LockInv'
<1> DEFINE g == Guard(l, "write")
<1>1. /\ call[t] = {g} /\ crash = "no" /\ g \in Guards
      /\ Acquired(t) /\ readCount' = readCount /\ crash' = crash
      /\ owner' = [owner EXCEPT ![l] = t]
      /\ writeCount' = [writeCount EXCEPT ![l] = @ + 1]
      /\ owner[l] = t \/ (owner[l] = NoThread /\ readCount[l] = 0)
  <2>1. g \in Guards
    BY GuardFacts DEF Modes
  <2>2. CASE WriteRecursive(t, l)
    <3>1. owner = [owner EXCEPT ![l] = t]
      BY <2>2 DEF WriteRecursive, LockInv, LockTypeOK
    <3>2. QED
      BY <2>1, <2>2, <3>1 DEF WriteRecursive, Wants, Guard
  <2>3. CASE WriteAcquire(t, l)
    BY <2>1, <2>3 DEF WriteAcquire, Wants, Guard
  <2>4. QED
    BY <2>2, <2>3
<1>2. LockTypeOK /\ Words /\ Exclusion
  BY DEF LockInv
<1>3. \A u \in Threads, h \in Guards : Has(u, h)' <=> Has(u, h) \/ (u = t /\ h = g)
  BY <1>1, <1>2, HasAcquired
<1>4. \A h \in Guards :
          /\ Cardinality(Places(h))' =
                 IF h = g THEN Cardinality(Places(h)) + 1 ELSE Cardinality(Places(h))
          /\ \A u \in Threads : Cardinality(OwnPlaces(u, h))' =
                 IF u = t /\ h = g THEN Cardinality(OwnPlaces(u, h)) + 1
                 ELSE Cardinality(OwnPlaces(u, h))
  BY <1>1, <1>2, PlacesAcquired
<1>5. \A k \in Locks : /\ owner'[k] = IF k = l THEN t ELSE owner[k]
                       /\ writeCount'[k] = IF k = l THEN writeCount[l] + 1 ELSE writeCount[k]
                       /\ readCount'[k] = readCount[k]
  BY <1>1, <1>2 DEF LockTypeOK
<1>6. LockTypeOK'
  <2>1. /\ owner' \in [Locks -> Owners] /\ readCount' \in [Locks -> 0 .. ReadMax]
        /\ writeCount' \in [Locks -> Nat] /\ crash' \in Reasons
    BY <1>1, <1>2 DEF LockTypeOK, Owners
  <2>2. QED
    BY <1>1, <1>2, <2>1, AcquiredType DEF LockTypeOK
<1>7. Words'
  <2> SUFFICES ASSUME NEW k \in Locks
               PROVE  /\ \A u \in Threads : owner'[k] = u <=> Has(u, Guard(k, "write"))'
                      /\ readCount'[k] = Cardinality(Places(Guard(k, "read")))'
                      /\ owner'[k] = NoThread => writeCount'[k] = 0
                      /\ \A u \in Threads : owner'[k] = u =>
                             writeCount'[k] = Cardinality(OwnPlaces(u, Guard(k, "write")))'
    BY DEF Words
  <2>1. /\ Guard(k, "write") \in Guards /\ Guard(k, "read") \in Guards
        /\ Guard(k, "write") = g <=> k = l
        /\ Guard(k, "read") # g
    BY GuardFacts DEF Modes
  <2>2. /\ \A u \in Threads : owner[k] = u <=> Has(u, Guard(k, "write"))
        /\ readCount[k] = Cardinality(Places(Guard(k, "read")))
        /\ owner[k] = NoThread => writeCount[k] = 0
        /\ \A u \in Threads :
               owner[k] = u => writeCount[k] = Cardinality(OwnPlaces(u, Guard(k, "write")))
    BY <1>2 DEF Words
  <2>3. \A u \in Threads : owner'[k] = u <=> Has(u, Guard(k, "write"))'
    BY <1>1, <1>3, <1>5, <2>1, <2>2, ThreadsAssumption
  <2>4. readCount'[k] = Cardinality(Places(Guard(k, "read")))'
    BY <1>4, <1>5, <2>1, <2>2
  <2>5. owner'[k] = NoThread => writeCount'[k] = 0
    BY <1>5, <2>2, ThreadsAssumption
  <2>6. ASSUME NEW u \in Threads, owner'[k] = u
        PROVE  writeCount'[k] = Cardinality(OwnPlaces(u, Guard(k, "write")))'
    <3>1. CASE k = l
      <4>1. u = t
        BY <1>5, <2>6, <3>1
      <4>2. writeCount[l] = Cardinality(OwnPlaces(t, g))
        <5>1. CASE owner[l] = t
          BY <2>2, <3>1, <5>1
        <5>2. CASE owner[l] = NoThread
          <6>1. ~Has(t, g) /\ writeCount[l] = 0
            BY <2>2, <3>1, <5>2, ThreadsAssumption
          <6>2. QED
            BY <1>1, <1>2, <6>1, HasPlaces DEF PlacesAgree
        <5>3. QED
          BY <1>1, <5>1, <5>2
      <4>3. QED
        BY <1>1, <1>4, <1>5, <3>1, <4>1, <4>2
    <3>2. CASE k # l
      BY <1>4, <1>5, <2>1, <2>2, <2>6, <3>2
    <3>3. QED
      BY <3>1, <3>2
  <2>7. QED
    BY <2>3, <2>4, <2>5, <2>6
<1>8. Exclusion'
  <2> SUFFICES ASSUME NEW k \in Locks, NEW u \in Threads, NEW v \in Threads,
                      u # v, Has(u, Guard(k, "write"))'
               PROVE  ~Has(v, Guard(k, "write"))' /\ ~Has(v, Guard(k, "read"))'
    BY DEF Exclusion, Writes, Reads, Guard
  <2>1. /\ Guard(k, "write") \in Guards /\ Guard(k, "read") \in Guards
        /\ Guard(k, "write") = g <=> k = l
        /\ Guard(k, "read") # g
    BY GuardFacts DEF Modes
  <2>2. owner'[k] = u /\ owner'[k] # v
    BY <1>7, <2>1 DEF Words
  <2>3. ~Has(v, Guard(k, "write"))'
    BY <1>7, <2>2 DEF Words
  <2>4. ~Reads(v, k)
    <3>1. CASE k = l
      BY <1>1, <1>5, <2>2, <3>1, Inside
    <3>2. CASE k # l
      BY <1>5, <2>2, <3>2, Inside
    <3>3. QED
      BY <3>1, <3>2
  <2>5. QED
    BY <1>3, <2>1, <2>3, <2>4 DEF Reads, Guard
<1>9. CrashJustified'
  BY <1>1 DEF CrashJustified
<1>10. QED
  BY <1>6, <1>7, <1>8, <1>9 DEF LockInv

\* Both ways of ReadLock: fetch_add by the owner and the exchange without an owner.
LEMMA ReadLockInv ==
    ASSUME LockInv, NEW t \in Threads, NEW l \in Locks,
           ReadRecursive(t, l) \/ ReadAcquire(t, l)
    PROVE  LockInv'
<1> DEFINE g == Guard(l, "read")
<1>1. /\ call[t] = {g} /\ crash = "no" /\ g \in Guards
      /\ Acquired(t) /\ AddReader(l) /\ writeCount' = writeCount /\ crash' = crash
      /\ owner[l] = t \/ owner[l] = NoThread
  BY GuardFacts DEF ReadRecursive, ReadAcquire, Wants, Guard, Modes
<1>2. LockTypeOK /\ Words /\ Exclusion
  BY DEF LockInv
<1>3. \A u \in Threads, h \in Guards : Has(u, h)' <=> Has(u, h) \/ (u = t /\ h = g)
  BY <1>1, <1>2, HasAcquired
<1>4. \A h \in Guards :
          /\ Cardinality(Places(h))' =
                 IF h = g THEN Cardinality(Places(h)) + 1 ELSE Cardinality(Places(h))
          /\ \A u \in Threads : Cardinality(OwnPlaces(u, h))' =
                 IF u = t /\ h = g THEN Cardinality(OwnPlaces(u, h)) + 1
                 ELSE Cardinality(OwnPlaces(u, h))
  BY <1>1, <1>2, PlacesAcquired
<1>5. readCount[l] < ReadMax
  BY <1>1, <1>2, NoCarry
<1>6. owner' = owner /\ readCount' = [readCount EXCEPT ![l] = @ + 1]
  BY <1>1, <1>5 DEF AddReader
<1>7. \A k \in Locks : readCount'[k] = IF k = l THEN readCount[l] + 1 ELSE readCount[k]
  BY <1>2, <1>6 DEF LockTypeOK
<1>8. LockTypeOK'
  <2>1. readCount[l] + 1 \in 0 .. ReadMax
    BY <1>2, <1>5, DepthAssumption DEF LockTypeOK
  <2>2. readCount' \in [Locks -> 0 .. ReadMax]
    BY <1>2, <1>6, <2>1 DEF LockTypeOK
  <2>3. QED
    BY <1>1, <1>2, <1>6, <2>2, AcquiredType DEF LockTypeOK
<1>9. Words'
  <2> SUFFICES ASSUME NEW k \in Locks
               PROVE  /\ \A u \in Threads : owner'[k] = u <=> Has(u, Guard(k, "write"))'
                      /\ readCount'[k] = Cardinality(Places(Guard(k, "read")))'
                      /\ owner'[k] = NoThread => writeCount'[k] = 0
                      /\ \A u \in Threads : owner'[k] = u =>
                             writeCount'[k] = Cardinality(OwnPlaces(u, Guard(k, "write")))'
    BY DEF Words
  <2>1. /\ Guard(k, "write") \in Guards /\ Guard(k, "read") \in Guards
        /\ Guard(k, "read") = g <=> k = l
        /\ Guard(k, "write") # g
    BY GuardFacts DEF Modes
  <2>2. /\ \A u \in Threads : owner[k] = u <=> Has(u, Guard(k, "write"))
        /\ readCount[k] = Cardinality(Places(Guard(k, "read")))
        /\ owner[k] = NoThread => writeCount[k] = 0
        /\ \A u \in Threads :
               owner[k] = u => writeCount[k] = Cardinality(OwnPlaces(u, Guard(k, "write")))
    BY <1>2 DEF Words
  <2>3. QED
    BY <1>1, <1>3, <1>4, <1>6, <1>7, <2>1, <2>2
<1>10. Exclusion'
  <2> SUFFICES ASSUME NEW k \in Locks, NEW u \in Threads, NEW v \in Threads,
                      u # v, Has(u, Guard(k, "write"))'
               PROVE  ~Has(v, Guard(k, "write"))' /\ ~Has(v, Guard(k, "read"))'
    BY DEF Exclusion, Writes, Reads, Guard
  <2>1. /\ Guard(k, "write") \in Guards /\ Guard(k, "read") \in Guards
        /\ Guard(k, "read") = g <=> k = l
        /\ Guard(k, "write") # g
    BY GuardFacts DEF Modes
  <2>2. owner'[k] = u /\ owner'[k] # v
    BY <1>9, <2>1 DEF Words
  <2>3. ~Has(v, Guard(k, "write"))'
    BY <1>9, <2>2 DEF Words
  <2>4. ~Reads(v, k)
    BY <1>6, <2>2, Inside
  <2>5. k = l => u = t
    BY <1>1, <1>6, <2>2, ThreadsAssumption
  <2>6. QED
    BY <1>3, <2>1, <2>3, <2>4, <2>5 DEF Reads, Guard
<1>11. CrashJustified'
  BY <1>1 DEF CrashJustified
<1>12. QED
  BY <1>8, <1>9, <1>10, <1>11 DEF LockInv

\* The guards and the calls keep their types when the last guard is released.
LEMMA ReleasedType ==
    ASSUME LockTypeOK, NEW t \in Threads, guards[t] # <<>>, Released(t)
    PROVE  /\ guards' \in [Threads -> Seq(Guards)]
           /\ Top(t) \in Guards
           /\ \A u \in Threads : Len(guards'[u]) + Cardinality(call[u]) <= MaxDepth
<1>1. Len(guards[t]) \in Nat \ {0}
  BY ReleasedGuards
<1>2. Top(t) \in Guards
  BY <1>1, ElementOfSeq DEF Top, LockTypeOK
<1>3. ASSUME NEW u \in Threads
      PROVE  Len(guards'[u]) + Cardinality(call[u]) <= MaxDepth
  <2>1. Len(guards[u]) + Cardinality(call[u]) <= MaxDepth
    BY DEF LockTypeOK
  <2>3. Cardinality(call[u]) \in Nat
    BY CallSize
  <2>4. CASE u = t
    BY <1>1, <2>1, <2>3, <2>4, ReleasedGuards, DepthAssumption
  <2>5. CASE u # t
    BY <2>1, <2>5, ReleasedGuards
  <2>6. QED
    BY <2>4, <2>5
<1>4. QED
  BY <1>2, <1>3, ReleasedGuards

\* A thread outside a call has no more guards than the bound.
LEMMA RunningDepth ==
    ASSUME LockTypeOK, NEW t \in Threads, Running(t)
    PROVE  Len(guards[t]) \in Nat /\ Len(guards[t]) <= MaxDepth
<1>1. Len(guards[t]) \in Nat
  BY LenProperties DEF LockTypeOK
<1>2. Cardinality(call[t]) = 0
  BY FS_EmptySet DEF Running
<1>3. Len(guards[t]) + Cardinality(call[t]) <= MaxDepth
  BY DEF LockTypeOK
<1>4. QED
  BY <1>1, <1>2, <1>3

\* WriteUnlock: one write guard less, and the owner leaves with the last.
LEMMA WriteUnlockInv ==
    ASSUME LockInv, NEW t \in Threads, NEW l \in Locks, WriteUnlock(t, l)
    PROVE  LockInv'
<1> DEFINE g == Guard(l, "write")
<1>1. /\ Top(t) = g /\ crash = "no" /\ g \in Guards /\ guards[t] # <<>> /\ Running(t)
      /\ Released(t) /\ readCount' = readCount /\ crash' = crash /\ call' = call
      /\ owner' = IF writeCount[l] = 1 THEN [owner EXCEPT ![l] = NoThread] ELSE owner
      /\ writeCount' = [writeCount EXCEPT ![l] = @ - 1]
      /\ readCount[l] = 0 /\ UNCHANGED <<loaded, failed>>
  BY GuardFacts DEF WriteUnlock, Releases, Running, Guard, Modes, spins
<1>2. LockTypeOK /\ Words /\ Exclusion
  BY DEF LockInv
<1>3. /\ Has(t, g)
      /\ \A u \in Threads, h \in Guards : Has(u, h)' => Has(u, h)
      /\ \A u \in Threads, h \in Guards : u # t \/ h # g => (Has(u, h)' <=> Has(u, h))
  BY <1>1, <1>2, HasReleased
<1>4. \A h \in Guards :
          /\ Cardinality(Places(h))' =
                 IF h = g THEN Cardinality(Places(h)) - 1 ELSE Cardinality(Places(h))
          /\ \A u \in Threads : Cardinality(OwnPlaces(u, h))' =
                 IF u = t /\ h = g THEN Cardinality(OwnPlaces(u, h)) - 1
                 ELSE Cardinality(OwnPlaces(u, h))
  BY <1>1, <1>2, RunningDepth, PlacesReleased
<1>5. /\ owner[l] = t /\ writeCount[l] = Cardinality(OwnPlaces(t, g))
      /\ writeCount[l] \in Nat \ {0}
  <2>1. owner[l] = t /\ writeCount[l] = Cardinality(OwnPlaces(t, g))
    BY <1>2, <1>3 DEF Words
  <2>2. Cardinality(OwnPlaces(t, g)) # 0
    BY <1>1, <1>2, <1>3, HasPlaces DEF PlacesAgree
  <2>3. QED
    BY <2>1, <2>2, PlacesFinite
<1>6. \A k \in Locks :
          /\ owner'[k] = IF k = l /\ writeCount[l] = 1 THEN NoThread ELSE owner[k]
          /\ writeCount'[k] = IF k = l THEN writeCount[l] - 1 ELSE writeCount[k]
          /\ readCount'[k] = readCount[k]
  BY <1>1, <1>2 DEF LockTypeOK
<1>7. LockTypeOK'
  <2>1. writeCount' \in [Locks -> Nat] /\ owner' \in [Locks -> Owners]
    BY <1>1, <1>2, <1>5 DEF LockTypeOK, Owners
  <2>2. QED
    BY <1>1, <1>2, <2>1, ReleasedType DEF LockTypeOK
<1>8. Has(t, g)' <=> writeCount[l] # 1
  <2>1. PlacesAgree'
    BY <1>7, HasPlaces, PTL
  <2>2. QED
    BY <1>1, <1>4, <1>5, <2>1 DEF PlacesAgree
<1>9. Words'
  <2> SUFFICES ASSUME NEW k \in Locks
               PROVE  /\ \A u \in Threads : owner'[k] = u <=> Has(u, Guard(k, "write"))'
                      /\ readCount'[k] = Cardinality(Places(Guard(k, "read")))'
                      /\ owner'[k] = NoThread => writeCount'[k] = 0
                      /\ \A u \in Threads : owner'[k] = u =>
                             writeCount'[k] = Cardinality(OwnPlaces(u, Guard(k, "write")))'
    BY DEF Words
  <2>1. /\ Guard(k, "write") \in Guards /\ Guard(k, "read") \in Guards
        /\ Guard(k, "write") = g <=> k = l
        /\ Guard(k, "read") # g
    BY GuardFacts DEF Modes
  <2>2. /\ \A u \in Threads : owner[k] = u <=> Has(u, Guard(k, "write"))
        /\ readCount[k] = Cardinality(Places(Guard(k, "read")))
        /\ owner[k] = NoThread => writeCount[k] = 0
        /\ \A u \in Threads :
               owner[k] = u => writeCount[k] = Cardinality(OwnPlaces(u, Guard(k, "write")))
    BY <1>2 DEF Words
  <2>3. CASE k = l
    BY <1>1, <1>3, <1>4, <1>5, <1>6, <1>8, <2>1, <2>2, <2>3, ThreadsAssumption
  <2>4. CASE k # l
    BY <1>1, <1>3, <1>4, <1>6, <2>1, <2>2, <2>4
  <2>5. QED
    BY <2>3, <2>4
<1>10. Exclusion'
  BY <1>2, <1>3, GuardFacts DEF Exclusion, Writes, Reads, Guard, Modes
<1>11. CrashJustified'
  BY <1>1 DEF CrashJustified
<1>12. QED
  BY <1>7, <1>9, <1>10, <1>11 DEF LockInv

\* ReadUnlock: one read guard less.  It never finds the count at zero.
LEMMA ReadUnlockInv ==
    ASSUME LockInv, NEW t \in Threads, NEW l \in Locks, ReadUnlock(t, l)
    PROVE  /\ LockInv'
           /\ readCount[l] # 0
           /\ Released(t)
<1> DEFINE g == Guard(l, "read")
<1>1. /\ Top(t) = g /\ crash = "no" /\ g \in Guards /\ guards[t] # <<>> /\ Running(t)
      /\ owner' = owner /\ writeCount' = writeCount /\ call' = call
      /\ UNCHANGED <<loaded, failed>>
  BY GuardFacts DEF ReadUnlock, Releases, Running, Guard, Modes, spins
<1>2. LockTypeOK /\ Words /\ Exclusion
  BY DEF LockInv
<1>3. readCount[l] # 0
  <2>1. Len(guards[t]) \in Nat \ {0} /\ DOMAIN guards[t] = 1 .. Len(guards[t])
    BY <1>1, <1>2, EmptySeq, LenProperties DEF LockTypeOK
  <2>2. Has(t, g)
    BY <1>1, <2>1 DEF Has, Top
  <2>3. QED
    BY <2>2, Inside DEF Reads, Guard
<1>4. /\ readCount' = [readCount EXCEPT ![l] = @ - 1]
      /\ Released(t) /\ crash' = crash
  BY <1>3 DEF ReadUnlock
<1>5. /\ Has(t, g)
      /\ \A u \in Threads, h \in Guards : Has(u, h)' => Has(u, h)
      /\ \A u \in Threads, h \in Guards : u # t \/ h # g => (Has(u, h)' <=> Has(u, h))
  BY <1>1, <1>2, <1>4, HasReleased
<1>6. \A h \in Guards :
          /\ Cardinality(Places(h))' =
                 IF h = g THEN Cardinality(Places(h)) - 1 ELSE Cardinality(Places(h))
          /\ \A u \in Threads : Cardinality(OwnPlaces(u, h))' =
                 IF u = t /\ h = g THEN Cardinality(OwnPlaces(u, h)) - 1
                 ELSE Cardinality(OwnPlaces(u, h))
  BY <1>1, <1>2, <1>4, RunningDepth, PlacesReleased
<1>7. \A k \in Locks : readCount'[k] = IF k = l THEN readCount[l] - 1 ELSE readCount[k]
  BY <1>2, <1>4 DEF LockTypeOK
<1>8. LockTypeOK'
  <2>1. readCount[l] - 1 \in 0 .. ReadMax
    BY <1>2, <1>3, DepthAssumption DEF LockTypeOK
  <2>2. readCount' \in [Locks -> 0 .. ReadMax]
    BY <1>2, <1>4, <2>1 DEF LockTypeOK
  <2>3. QED
    BY <1>1, <1>2, <1>4, <2>2, ReleasedType DEF LockTypeOK
<1>9. Words'
  <2> SUFFICES ASSUME NEW k \in Locks
               PROVE  /\ \A u \in Threads : owner'[k] = u <=> Has(u, Guard(k, "write"))'
                      /\ readCount'[k] = Cardinality(Places(Guard(k, "read")))'
                      /\ owner'[k] = NoThread => writeCount'[k] = 0
                      /\ \A u \in Threads : owner'[k] = u =>
                             writeCount'[k] = Cardinality(OwnPlaces(u, Guard(k, "write")))'
    BY DEF Words
  <2>1. /\ Guard(k, "write") \in Guards /\ Guard(k, "read") \in Guards
        /\ Guard(k, "read") = g <=> k = l
        /\ Guard(k, "write") # g
    BY GuardFacts DEF Modes
  <2>2. /\ \A u \in Threads : owner[k] = u <=> Has(u, Guard(k, "write"))
        /\ readCount[k] = Cardinality(Places(Guard(k, "read")))
        /\ owner[k] = NoThread => writeCount[k] = 0
        /\ \A u \in Threads :
               owner[k] = u => writeCount[k] = Cardinality(OwnPlaces(u, Guard(k, "write")))
    BY <1>2 DEF Words
  <2>3. QED
    BY <1>1, <1>5, <1>6, <1>7, <2>1, <2>2
<1>10. Exclusion'
  BY <1>2, <1>5, GuardFacts DEF Exclusion, Writes, Reads, Guard, Modes
<1>11. CrashJustified'
  BY <1>1, <1>4 DEF CrashJustified
<1>12. QED
  BY <1>3, <1>4, <1>8, <1>9, <1>10, <1>11 DEF LockInv

\* A step that leaves the words and the guards alone keeps what they say.
LEMMA WordsSame ==
    ASSUME LockInv, owner' = owner, readCount' = readCount, writeCount' = writeCount,
           guards' = guards
    PROVE  Words' /\ Exclusion'
<1>1. \A t \in Threads, g \in Guards : Has(t, g)' <=> Has(t, g)
  BY DEF Has
<1>2. \A t \in Threads, g \in Guards :
          Places(g)' = Places(g) /\ OwnPlaces(t, g)' = OwnPlaces(t, g)
  BY DEF Places, OwnPlaces
<1>3. Words'
  <2>1. \A t \in Threads, g \in Guards :
            /\ Cardinality(Places(g))' = Cardinality(Places(g))
            /\ Cardinality(OwnPlaces(t, g))' = Cardinality(OwnPlaces(t, g))
    BY <1>2
  <2>2. \A l \in Locks : Guard(l, "read") \in Guards /\ Guard(l, "write") \in Guards
    BY GuardFacts DEF Modes
  <2>3. \A l \in Locks : Cardinality(Places(Guard(l, "read")))' =
                             Cardinality(Places(Guard(l, "read")))
    <3>1. SUFFICES ASSUME NEW l \in Locks
                   PROVE  Cardinality(Places(Guard(l, "read")))' =
                              Cardinality(Places(Guard(l, "read")))
      OBVIOUS
    <3>2. Places(Guard(l, "read"))' = Places(Guard(l, "read"))
      BY DEF Places
    <3>3. QED
      BY <3>2
  <2>4. QED
    BY <1>1, <2>1, <2>2, <2>3 DEF LockInv, Words
<1>4. Exclusion'
  BY <1>1, GuardFacts DEF LockInv, Exclusion, Writes, Reads, Guard, Modes
<1>5. QED
  BY <1>3, <1>4

\* WriteUnlock with readers: they are the thread's own, outside its write guard.
LEMMA WriteUnlockCrashInv ==
    ASSUME LockInv, NEW t \in Threads, NEW l \in Locks, WriteUnlockCrash(t, l)
    PROVE  LockInv'
<1>1. /\ Top(t) = Guard(l, "write") /\ guards[t] # <<>> /\ readCount[l] # 0
      /\ crash' = "unlockOrder" /\ UNCHANGED <<owner, readCount, writeCount, guards, call>>
      /\ UNCHANGED <<loaded, failed>>
  BY DEF WriteUnlockCrash, Releases, Guard, words, spins
<1>2. LockTypeOK'
  BY <1>1 DEF LockInv, LockTypeOK, Reasons
<1>3. Len(guards[t]) \in Nat \ {0} /\ DOMAIN guards[t] = 1 .. Len(guards[t])
  BY <1>1, EmptySeq, LenProperties DEF LockInv, LockTypeOK
<1>4. Writes(t, l)
  BY <1>1, <1>3 DEF Writes, Has, Top, Guard
<1>5. PICK u \in Threads : Reads(u, l)
  BY <1>1, Inside
<1>6. u = t
  BY <1>4, <1>5, Inside
<1>7. PICK i \in DOMAIN guards[t] : guards[t][i] = Guard(l, "read")
  BY <1>5, <1>6 DEF Reads, Has, Guard
<1>8. guards[t][Len(guards[t])] = Guard(l, "write") /\ Guard(l, "read") # Guard(l, "write")
  BY <1>1 DEF Top, Guard
<1>9. i < Len(guards[t]) /\ Len(guards[t]) \in DOMAIN guards[t]
  BY <1>3, <1>7, <1>8
<1>10. Nested(t, l)
  BY <1>7, <1>8, <1>9 DEF Nested, Guard
<1>11. CrashJustified'
  BY <1>1, <1>10 DEF CrashJustified, Nested
<1>12. QED
  BY <1>1, <1>2, <1>11, WordsSame DEF LockInv

\* A turn of a spinning call, or its timeout, changes no word, no guard and no call.
LEMMA SpinInv ==
    ASSUME LockInv, NEW t \in Threads, NEW l \in Locks, Spin(t, l) \/ Timeout(t, l)
    PROVE  /\ LockInv'
           /\ UNCHANGED <<owner, readCount, writeCount, guards, call>>
           /\ crash = "no" /\ crash' \in {"no", "timeout"}
<1>1. /\ UNCHANGED <<owner, readCount, writeCount, guards, call>>
      /\ crash = "no" /\ crash' \in {"no", "timeout"}
  BY DEF Spin, WriteFails, ReadLoad, ReadFails, Timeout, WriteTimeout, ReadTimeout, Wants, words
<1>2. loaded' \in [Threads -> SUBSET (0 .. ReadMax)] /\ failed' \subseteq Threads
  <2>1. /\ loaded \in [Threads -> SUBSET (0 .. ReadMax)] /\ failed \subseteq Threads
        /\ readCount[l] \in 0 .. ReadMax
    BY DEF LockInv, LockTypeOK
  <2>2. CASE WriteFails(t, l)
    BY <2>1, <2>2 DEF WriteFails
  <2>3. CASE ReadLoad(t, l)
    BY <2>1, <2>3 DEF ReadLoad
  <2>4. CASE ReadFails(t, l)
    BY <2>1, <2>4 DEF ReadFails
  <2>5. CASE Timeout(t, l)
    BY <2>1, <2>5 DEF Timeout, WriteTimeout, ReadTimeout, spins
  <2>6. QED
    BY <2>2, <2>3, <2>4, <2>5 DEF Spin
<1>3. LockTypeOK'
  BY <1>1, <1>2 DEF LockInv, LockTypeOK, Reasons
<1>4. CrashJustified'
  <2>1. \A u \in Threads, k \in Locks : Nested(u, k)' <=> Nested(u, k)
    BY <1>1 DEF Nested
  <2>2. QED
    BY <1>1, <2>1 DEF LockInv, CrashJustified
<1>5. QED
  BY <1>1, <1>3, <1>4, WordsSame DEF LockInv

\* To begin a call changes no word and no guard.
LEMMA CallInv ==
    ASSUME LockInv, NEW t \in Threads, NEW l \in Locks, NEW mode \in Modes,
           Call(t, l, mode), crash' \in {"no", "deadlock"}
    PROVE  LockInv'
<1> DEFINE g == Guard(l, mode)
<1>1. /\ call' = [call EXCEPT ![t] = {g}] /\ Running(t) /\ Len(guards[t]) < MaxDepth
      /\ UNCHANGED <<owner, readCount, writeCount, guards, loaded, failed>>
  BY DEF Call, Guard, words, spins
<1>2. g \in Guards /\ LockTypeOK
  BY GuardFacts DEF LockInv
<1>3. \A u \in Threads : call'[u] = IF u = t THEN {g} ELSE call[u]
  BY <1>1, <1>2 DEF LockTypeOK
<1>4. \A u \in Threads : Len(guards'[u]) + Cardinality(call'[u]) <= MaxDepth
  <2>1. Len(guards[t]) \in Nat /\ Cardinality({g}) = 1
    BY <1>1, <1>2, RunningDepth, FS_Singleton
  <2>2. Len(guards[t]) + Cardinality(call'[t]) <= MaxDepth
    <3>1. Cardinality(call'[t]) = 1
      BY <1>3, <2>1
    <3>2. QED
      BY <1>1, <2>1, <3>1, DepthAssumption
  <2>3. QED
    BY <1>1, <1>2, <1>3, <2>2 DEF LockTypeOK
<1>5. LockTypeOK'
  BY <1>1, <1>2, <1>3, <1>4 DEF LockTypeOK, Reasons
<1>6. CrashJustified'
  BY DEF CrashJustified
<1>7. QED
  BY <1>1, <1>5, <1>6, WordsSame DEF LockInv

\* Every step of a thread keeps the invariant.
LEMMA LockNextInv == LockInv /\ [LockNext]_lockVars => LockInv'
<1> SUFFICES ASSUME LockInv, [LockNext]_lockVars
             PROVE  LockInv'
  OBVIOUS
<1>1. ASSUME NEW t \in Threads, NEW l \in Locks, NEW mode \in {"read", "write"},
             Call(t, l, mode), UNCHANGED crash
      PROVE  LockInv'
  BY <1>1, CallInv DEF Modes, Call, Running
<1>2. ASSUME NEW t \in Threads, NEW l \in Locks, Acquire(t, l)
      PROVE  LockInv'
  BY <1>2, WriteLockInv, ReadLockInv DEF Acquire
<1>3. ASSUME NEW t \in Threads, NEW l \in Locks, Unlock(t, l)
      PROVE  LockInv'
  BY <1>3, WriteUnlockInv, WriteUnlockCrashInv, ReadUnlockInv DEF Unlock
<1>4. CASE UNCHANGED lockVars
  <2>1. UNCHANGED <<owner, readCount, writeCount, guards, call, loaded, failed, crash>>
    BY <1>4 DEF lockVars, words, spins
  <2>2. LockTypeOK'
    BY <2>1 DEF LockInv, LockTypeOK
  <2>3. CrashJustified'
    <3>1. crash' = crash
      BY <2>1
    <3>2. \A t \in Threads, l \in Locks : Nested(t, l)' <=> Nested(t, l)
      BY <2>1 DEF Nested
    <3>3. QED
      BY <3>1, <3>2 DEF LockInv, CrashJustified
  <2>4. QED
    BY <2>1, <2>2, <2>3, WordsSame DEF LockInv
<1>5. QED
  BY <1>1, <1>2, <1>3, <1>4, SpinInv DEF LockNext

\* The invariant holds in every reachable state.
THEOREM LockInvariant == LockSpec => []LockInv
BY LockInitInv, LockNextInv, PTL DEF LockSpec

\* In every reachable state the word of a lock says who has which guards, however
\* the threads nest them and whatever steps of theirs interleave.
THEOREM WordsTrue == LockSpec => []WordMatches
<1>1. LockInv => WordMatches
  BY WordsMatch DEF LockInv
<1>2. QED
  BY <1>1, LockInvariant, PTL

\* Nobody is beside a writer, whatever the number of threads and locks.
THEOREM WritersAlone == LockSpec => []Exclusion
<1>1. LockInv => Exclusion
  BY DEF LockInv
<1>2. QED
  BY <1>1, LockInvariant, PTL

\* The crashes of the unlocks accuse the right program.
THEOREM CrashesJustified == LockSpec => []CrashJustified
<1>1. LockInv => CrashJustified
  BY DEF LockInv
<1>2. QED
  BY <1>1, LockInvariant, PTL

-------------------------------------------------------------------------------
(* The locks implement readers-writer locks *)

\* The holds of RWLock are the guards, each counted once.
LEMMA HoldsAre ==
    ASSUME LockTypeOK
    PROVE  /\ Holds \subseteq Threads \X Locks \X Modes
           /\ \A t \in Threads, l \in Locks, mode \in Modes :
                  <<t, l, mode>> \in Holds <=> Has(t, Guard(l, mode))
<1>1. \A t \in Threads : DOMAIN guards[t] = 1 .. Len(guards[t])
  BY LenProperties DEF LockTypeOK
<1>2. \A t \in Threads : \A i \in DOMAIN guards[t] : guards[t][i] \in Guards
  BY <1>1, ElementOfSeq DEF LockTypeOK
<1>3. Holds \subseteq Threads \X Locks \X Modes
  BY <1>2 DEF Holds, Guards, Modes
<1>4. ASSUME NEW t \in Threads, NEW l \in Locks, NEW mode \in Modes
      PROVE  <<t, l, mode>> \in Holds <=> Has(t, Guard(l, mode))
  <2>1. <<t, l, mode>> \in Holds <=>
            \E i \in DOMAIN guards[t] : guards[t][i].lock = l /\ guards[t][i].mode = mode
    BY DEF Holds
  <2>2. \A g \in Guards : g = Guard(l, mode) <=> g.lock = l /\ g.mode = mode
    BY DEF Guards, Guard
  <2>3. QED
    BY <1>2, <2>1, <2>2 DEF Has
<1>5. QED
  BY <1>3, <1>4

\* The same of the next state.
HoldsAgree ==
    /\ Holds \subseteq Threads \X Locks \X Modes
    /\ \A t \in Threads, l \in Locks, mode \in Modes :
           <<t, l, mode>> \in Holds <=> Has(t, Guard(l, mode))

\* It is so in every state with the types, the next one too.
LEMMA HoldsAreAlways == LockTypeOK => HoldsAgree
BY HoldsAre DEF HoldsAgree

\* RWLock's readers and writers of a lock are the threads with such a guard.
LEMMA HoldersAre ==
    ASSUME LockTypeOK, NEW l \in Locks
    PROVE  /\ RW!Readers(l) = {t \in Threads : Reads(t, l)}
           /\ RW!Writers(l) = {t \in Threads : Writes(t, l)}
<1>1. HoldsAgree
  BY HoldsAreAlways
<1>2. \A mode \in Modes : RW!Holders(l, mode) = {t \in Threads : Has(t, Guard(l, mode))}
  <2> SUFFICES ASSUME NEW mode \in Modes
               PROVE  RW!Holders(l, mode) = {t \in Threads : Has(t, Guard(l, mode))}
    OBVIOUS
  <2>1. ASSUME NEW t \in RW!Holders(l, mode)
        PROVE  t \in Threads /\ Has(t, Guard(l, mode))
    <3>1. PICK h \in Holds : h[2] = l /\ h[3] = mode /\ t = h[1]
      BY DEF RW!Holders
    <3>2. h \in Threads \X Locks \X Modes
      BY <1>1 DEF HoldsAgree
    <3>3. h = <<t, l, mode>> /\ t \in Threads
      BY <3>1, <3>2
    <3>4. QED
      BY <1>1, <3>3 DEF HoldsAgree
  <2>2. ASSUME NEW t \in Threads, Has(t, Guard(l, mode))
        PROVE  t \in RW!Holders(l, mode)
    <3>1. <<t, l, mode>> \in Holds
      BY <1>1, <2>2 DEF HoldsAgree
    <3>2. QED
      BY <3>1 DEF RW!Holders
  <2>3. QED
    BY <2>1, <2>2
<1>3. QED
  BY <1>2 DEF RW!Readers, RW!Writers, Reads, Writes, Guard, Modes

\* A guard that is acquired is a hold that begins, or one that is there already.
LEMMA AcquiredHolds ==
    ASSUME LockTypeOK, LockTypeOK', NEW t \in Threads, NEW l \in Locks, NEW mode \in Modes,
           call[t] = {Guard(l, mode)}, Acquired(t)
    PROVE  Holds' = Holds \cup {<<t, l, mode>>}
<1>1. HoldsAgree /\ HoldsAgree'
  BY HoldsAreAlways, PTL
<1>2. Guard(l, mode) \in Guards
  BY GuardFacts
<1>3. \A u \in Threads, h \in Guards :
          Has(u, h)' <=> Has(u, h) \/ (u = t /\ h = Guard(l, mode))
  BY <1>2, HasAcquired
<1>4. ASSUME NEW u \in Threads, NEW k \in Locks, NEW m \in Modes
      PROVE  <<u, k, m>> \in Holds' <=> <<u, k, m>> \in Holds \/ <<u, k, m>> = <<t, l, mode>>
  <2>1. Guard(k, m) \in Guards /\ (Guard(k, m) = Guard(l, mode) <=> k = l /\ m = mode)
    BY GuardFacts
  <2>2. <<u, k, m>> \in Holds' <=> Has(u, Guard(k, m))'
    BY <1>1 DEF HoldsAgree
  <2>3. <<u, k, m>> \in Holds <=> Has(u, Guard(k, m))
    BY <1>1 DEF HoldsAgree
  <2>4. QED
    BY <1>3, <2>1, <2>2, <2>3
<1>5. Holds \subseteq Threads \X Locks \X Modes /\ Holds' \subseteq Threads \X Locks \X Modes
  BY <1>1 DEF HoldsAgree
<1>6. QED
  BY <1>4, <1>5

\* A guard that is released ends its hold, or another guard keeps it.
LEMMA ReleasedHolds ==
    ASSUME LockTypeOK, LockTypeOK', NEW t \in Threads, NEW l \in Locks, NEW mode \in Modes,
           guards[t] # <<>>, Top(t) = Guard(l, mode), Released(t)
    PROVE  /\ <<t, l, mode>> \in Holds
           /\ Holds' = Holds \/ Holds' = Holds \ {<<t, l, mode>>}
<1>1. HoldsAgree /\ HoldsAgree'
  BY HoldsAreAlways, PTL
<1>2. Guard(l, mode) \in Guards
  BY GuardFacts
<1>3. /\ Has(t, Guard(l, mode))
      /\ \A u \in Threads, h \in Guards : Has(u, h)' => Has(u, h)
      /\ \A u \in Threads, h \in Guards :
             u # t \/ h # Guard(l, mode) => (Has(u, h)' <=> Has(u, h))
  BY HasReleased
<1>4. ASSUME NEW u \in Threads, NEW k \in Locks, NEW m \in Modes
      PROVE  /\ <<u, k, m>> \in Holds' => <<u, k, m>> \in Holds
             /\ <<u, k, m>> # <<t, l, mode>> => (<<u, k, m>> \in Holds' <=> <<u, k, m>> \in Holds)
  <2>1. Guard(k, m) \in Guards /\ (Guard(k, m) = Guard(l, mode) <=> k = l /\ m = mode)
    BY GuardFacts
  <2>2. <<u, k, m>> \in Holds' <=> Has(u, Guard(k, m))'
    BY <1>1 DEF HoldsAgree
  <2>3. <<u, k, m>> \in Holds <=> Has(u, Guard(k, m))
    BY <1>1 DEF HoldsAgree
  <2>4. QED
    BY <1>3, <2>1, <2>2, <2>3
<1>5. Holds \subseteq Threads \X Locks \X Modes /\ Holds' \subseteq Threads \X Locks \X Modes
  BY <1>1 DEF HoldsAgree
<1>6. <<t, l, mode>> \in Holds
  BY <1>1, <1>3 DEF HoldsAgree
<1>7. \A e \in Threads \X Locks \X Modes :
          /\ e \in Holds' => e \in Holds
          /\ e # <<t, l, mode>> => (e \in Holds' <=> e \in Holds)
  BY <1>4
<1>8. CASE <<t, l, mode>> \in Holds'
  <2>1. \A e \in Threads \X Locks \X Modes : e \in Holds' <=> e \in Holds
    BY <1>6, <1>7, <1>8
  <2>2. QED
    BY <1>5, <1>6, <2>1
<1>9. CASE <<t, l, mode>> \notin Holds'
  <2>1. \A e \in Threads \X Locks \X Modes :
            e \in Holds' <=> e \in Holds /\ e # <<t, l, mode>>
    BY <1>7, <1>9
  <2>2. QED
    BY <1>5, <1>6, <2>1
<1>10. QED
  BY <1>6, <1>8, <1>9

\* Every step of the lock is a step of RWLock or none.
LEMMA LockStepRW ==
    ASSUME LockInv, LockInv', [LockNext]_lockVars
    PROVE  [RW!Next]_Holds
<1>1. LockTypeOK /\ LockTypeOK'
  BY DEF LockInv
<1> SUFFICES ASSUME Holds' # Holds
             PROVE  RW!Next
  OBVIOUS
<1>2. ASSUME guards' = guards
      PROVE  FALSE
  BY <1>2 DEF Holds
<1>3. PICK t \in Threads, l \in Locks : Acquire(t, l) \/ Unlock(t, l)
  BY <1>2, SpinInv DEF LockNext, lockVars, Call
<1>4. CASE WriteRecursive(t, l) \/ WriteAcquire(t, l)
  <2>1. call[t] = {Guard(l, "write")} /\ Acquired(t)
    BY <1>4 DEF WriteRecursive, WriteAcquire, Wants, Guard
  <2>2. Holds' = Holds \cup {<<t, l, "write">>}
    BY <1>1, <2>1, AcquiredHolds DEF Modes
  <2>3. CASE WriteRecursive(t, l)
    <3>1. Writes(t, l)
      BY <2>3, Inside DEF WriteRecursive
    <3>2. <<t, l, "write">> \in Holds
      BY <1>1, <3>1, HoldsAre DEF Writes, Guard, Modes
    <3>3. QED
      BY <2>2, <3>2
  <2>4. CASE WriteAcquire(t, l)
    <3>1. \A u \in Threads : ~Reads(u, l) /\ ~Writes(u, l)
      BY <2>4, Inside DEF WriteAcquire
    <3>2. RW!Readers(l) = {} /\ RW!Writers(l) = {}
      BY <1>1, <3>1, HoldersAre
    <3>3. RW!BeginWrite(t, l)
      BY <2>2, <3>2 DEF RW!BeginWrite
    <3>4. QED
      BY <3>3 DEF RW!Next
  <2>5. QED
    BY <1>4, <2>3, <2>4
<1>5. CASE ReadRecursive(t, l) \/ ReadAcquire(t, l)
  <2>1. /\ call[t] = {Guard(l, "read")} /\ Acquired(t)
        /\ owner[l] = t \/ owner[l] = NoThread
    BY <1>5 DEF ReadRecursive, ReadAcquire, Wants, Guard
  <2>2. Holds' = Holds \cup {<<t, l, "read">>}
    BY <1>1, <2>1, AcquiredHolds DEF Modes
  <2>3. RW!Writers(l) \subseteq {t}
    BY <1>1, <2>1, Inside, HoldersAre
  <2>4. RW!BeginRead(t, l)
    BY <2>2, <2>3 DEF RW!BeginRead
  <2>5. QED
    BY <2>4 DEF RW!Next
<1>6. CASE WriteUnlock(t, l)
  <2>1. /\ guards[t] # <<>> /\ Top(t) = Guard(l, "write") /\ Released(t)
        /\ readCount[l] = 0
    BY <1>6 DEF WriteUnlock, Releases, Guard
  <2>2. <<t, l, "write">> \in Holds /\ Holds' = Holds \ {<<t, l, "write">>}
    BY <1>1, <2>1, ReleasedHolds DEF Modes
  <2>3. Writes(t, l)
    BY <1>1, <2>2, HoldsAre DEF Writes, Guard, Modes
  <2>4. t \in RW!Writers(l) /\ RW!Readers(l) = {}
    BY <1>1, <2>1, <2>3, Inside, HoldersAre
  <2>5. RW!EndWrite(t, l)
    BY <2>2, <2>4 DEF RW!EndWrite
  <2>6. QED
    BY <2>5 DEF RW!Next
<1>7. CASE ReadUnlock(t, l)
  <2>1. guards[t] # <<>> /\ Top(t) = Guard(l, "read") /\ Released(t)
    BY <1>7, ReadUnlockInv DEF ReadUnlock, Releases, Guard
  <2>2. <<t, l, "read">> \in Holds /\ Holds' = Holds \ {<<t, l, "read">>}
    BY <1>1, <2>1, ReleasedHolds DEF Modes
  <2>3. Reads(t, l)
    BY <1>1, <2>2, HoldsAre DEF Reads, Guard, Modes
  <2>4. t \in RW!Readers(l)
    BY <1>1, <2>3, HoldersAre
  <2>5. RW!EndRead(t, l)
    BY <2>2, <2>4 DEF RW!EndRead
  <2>6. QED
    BY <2>5 DEF RW!Next
<1>8. CASE WriteUnlockCrash(t, l)
  BY <1>2, <1>8 DEF WriteUnlockCrash
<1>9. QED
  BY <1>3, <1>4, <1>5, <1>6, <1>7, <1>8 DEF Acquire, Unlock

\* The spin locks implement readers-writer locks: the guards that threads have are
\* granted and returned by the rules of RWLock.
THEOREM LockImplementsRWLock == LockSpec => ImplementsRWLock
<1>1. LockInit => RW!Init
  <2>1. LockInit => \A t \in Threads : DOMAIN guards[t] = {}
    BY DEF LockInit
  <2>2. QED
    BY <2>1 DEF RW!Init, Holds
<1>2. LockInv /\ LockInv' /\ [LockNext]_lockVars => [RW!Next]_Holds
  BY LockStepRW
<1>3. QED
  BY <1>1, <1>2, LockInvariant, PTL DEF LockSpec, ImplementsRWLock, RW!Spec

===============================================================================
