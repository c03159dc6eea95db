--------------------------- MODULE SendBufferProofs ---------------------------
(***************************************************************************)
(* Proofs about SendBuffer for any threads, chunks, buffers, any size of a   *)
(* chunk and any sizes of packets.                                           *)
(***************************************************************************)
EXTENDS SendBuffer, FiniteSetTheorems, SequenceTheorems, TLAPS

-------------------------------------------------------------------------------
(* The inductive invariant *)

\* Thread t refers to chunk c, buffer b does, or the pool has it.
Holds(t, c) == current[t] = c \/ popped[t] = c
Uses(b, c) == region[b].chunk = c
InPool(c) == \E i \in DOMAIN pool : pool[i] = c
Unused(c) == (\A t \in Threads : ~Holds(t, c)) /\ (\A b \in Buffers : ~Uses(b, c))

\* A chunk belongs to one thread, to finished buffers alone, or is in the pool, once;
\* a chunk taken from the pool has no buffers in it until it becomes the current one.
ChunksOwned ==
    /\ \A c \in created : \A t, u \in Threads : Holds(t, c) /\ Holds(u, c) => t = u
    /\ \A t \in Threads : popped[t] # NoChunk =>
           popped[t] # current[t] /\ \A b \in Buffers : ~Uses(b, popped[t])
    /\ \A b \in Buffers : region[b] # None => region[b].chunk \in created
    /\ \A i, k \in DOMAIN pool : pool[i] = pool[k] => i = k
    /\ \A c \in created : InPool(c) <=> Unused(c)

\* What a thread has between two steps of MakeSendBuffer: only the thread that writes
\* has its chunk open, and the packet it opens fits unless it is larger than a chunk.
MakingOf(t) ==
    /\ popped[t] # NoChunk <=> pc[t] = "replace"
    /\ making[t] # NoBuffer <=> pc[t] = "write"
    /\ pc[t] # "idle" => size[t] \in Sizes
    /\ pc[t] \in {"open", "write"} => current[t] # NoChunk
    /\ current[t] # NoChunk => (open[current[t]] <=> pc[t] = "write")
    /\ pc[t] = "open" => size[t] <= FreeSize(current[t]) \/ size[t] > ChunkSize
    /\ pc[t] = "write" =>
           /\ size[t] <= FreeSize(current[t])
           /\ region[making[t]].chunk = current[t]
           /\ region[making[t]].start = usedSize[current[t]]
           /\ region[making[t]].size = size[t]
Making == \A t \in Threads : MakingOf(t)

\* A finished packet lies below the mark up to which its chunk is used.
Finished(b) == \A t \in Threads : making[t] # b
BelowMark ==
    \A b \in Buffers : region[b] # None /\ Finished(b) =>
        region[b].start + region[b].size <= usedSize[region[b].chunk]

\* What every reachable state has: the conjuncts need one another to be preserved.
IInv ==
    /\ TypeOK
    /\ ChunksOwned
    /\ Making
    /\ BelowMark
    /\ Disjoint
    /\ AssertionsHold

\* A null chunk is no chunk, and a buffer without a place is in none.
LEMMA NullFacts ==
    /\ None \notin Regions /\ None.chunk = NoChunk
    /\ \A r \in Regions : r.chunk \in Chunks /\ r.chunk # NoChunk /\ r.start \in Nat /\ r.size \in Nat
    /\ ChunkSize \in Nat /\ \A n \in Sizes : n \in Nat /\ n > 0
BY NullAssumption, SizeAssumption DEF None, Regions

-------------------------------------------------------------------------------
(* The pool *)

\* A chunk that goes into the pool is in it, and nothing else changes.
LEMMA PoolPush ==
    ASSUME pool \in Seq(created), NEW c \in created, pool' = Append(pool, c)
    PROVE  /\ pool' \in Seq(created)
           /\ \A d : InPool(d)' <=> InPool(d) \/ d = c
           /\ ~InPool(c) /\ (\A i, k \in DOMAIN pool : pool[i] = pool[k] => i = k) =>
                  \A i, k \in DOMAIN pool' : pool'[i] = pool'[k] => i = k
<1>1. /\ pool' \in Seq(created) /\ Len(pool') = Len(pool) + 1
      /\ \A i \in 1 .. Len(pool) : pool'[i] = pool[i]
      /\ pool'[Len(pool) + 1] = c
  BY AppendProperties
<1>2. /\ DOMAIN pool = 1 .. Len(pool) /\ DOMAIN pool' = 1 .. Len(pool) + 1
      /\ Len(pool) \in Nat
  BY <1>1, LenProperties
<1>3. \A d : InPool(d)' <=> InPool(d) \/ d = c
  <2>1. ASSUME NEW d, InPool(d) \/ d = c
        PROVE  InPool(d)'
    <3>1. CASE d = c
      BY <1>1, <1>2, <3>1 DEF InPool
    <3>2. CASE InPool(d)
      BY <1>1, <1>2, <3>2 DEF InPool
    <3>3. QED
      BY <2>1, <3>1, <3>2
  <2>2. ASSUME NEW d, InPool(d)'
        PROVE  InPool(d) \/ d = c
    BY <1>1, <1>2, <2>2 DEF InPool
  <2>3. QED
    BY <2>1, <2>2
<1>4. ASSUME ~InPool(c), \A i, k \in DOMAIN pool : pool[i] = pool[k] => i = k,
             NEW i \in DOMAIN pool', NEW k \in DOMAIN pool', pool'[i] = pool'[k]
      PROVE  i = k
  BY <1>1, <1>2, <1>4 DEF InPool
<1>5. QED
  BY <1>1, <1>3, <1>4

\* The chunk that Pop returns was in the pool, and is not any more.
LEMMA PoolPop ==
    ASSUME pool \in Seq(created), pool # <<>>, pool' = Front(pool),
           \A i, k \in DOMAIN pool : pool[i] = pool[k] => i = k
    PROVE  /\ Last(pool) \in created /\ InPool(Last(pool))
           /\ pool' \in Seq(created)
           /\ \A d : InPool(d)' <=> InPool(d) /\ d # Last(pool)
           /\ \A i, k \in DOMAIN pool' : pool'[i] = pool'[k] => i = k
<1> DEFINE n == Len(pool)
<1>1. n \in Nat \ {0} /\ DOMAIN pool = 1 .. n
  BY EmptySeq, LenProperties
<1>2. Last(pool) = pool[n] /\ pool[n] \in created
  BY <1>1, ElementOfSeq DEF Last
<1>3. /\ pool' \in Seq(created) /\ Len(pool') = n - 1
      /\ \A i \in 1 .. n - 1 : pool'[i] = pool[i]
  <2>1. \A i \in 1 .. n - 1 : pool[i] \in created
    BY <1>1, ElementOfSeq
  <2>2. pool' = SubSeq(pool, 1, n - 1)
    BY DEF Front
  <2> HIDE DEF n
  <2>3. QED
    BY <1>1, <2>1, <2>2, SubSeqProperties
<1>4. DOMAIN pool' = 1 .. n - 1
  BY <1>3, LenProperties
<1>5. InPool(Last(pool))
  BY <1>1, <1>2 DEF InPool
<1> HIDE DEF n
<1>6. \A d : InPool(d)' <=> InPool(d) /\ d # Last(pool)
  <2>1. ASSUME NEW d, InPool(d)'
        PROVE  InPool(d) /\ d # Last(pool)
    <3>1. PICK i \in 1 .. n - 1 : pool[i] = d
      BY <1>3, <1>4, <2>1 DEF InPool
    <3>2. i \in DOMAIN pool /\ n \in DOMAIN pool /\ i # n
      BY <1>1
    <3>3. QED
      BY <1>2, <3>1, <3>2 DEF InPool
  <2>2. ASSUME NEW d, InPool(d), d # Last(pool)
        PROVE  InPool(d)'
    <3>1. PICK i \in 1 .. n : pool[i] = d
      BY <1>1, <2>2 DEF InPool
    <3>2. i \in 1 .. n - 1
      BY <1>1, <1>2, <2>2, <3>1
    <3>3. QED
      BY <1>3, <1>4, <3>1, <3>2 DEF InPool
  <2>3. QED
    BY <2>1, <2>2
<1>7. \A i, k \in DOMAIN pool' : pool'[i] = pool'[k] => i = k
  <2>1. \A i \in DOMAIN pool' : i \in DOMAIN pool /\ pool'[i] = pool[i]
    BY <1>1, <1>3, <1>4
  <2>2. QED
    BY <2>1
<1>8. QED
  BY <1>2, <1>3, <1>5, <1>6, <1>7

\* The deleter puts a chunk into the pool exactly if nothing refers to it any more.
LEMMA Recycled ==
    ASSUME TypeOK, ChunksOwned, NEW c \in created \cup {NoChunk}, NEW H, NEW U,
           Recycle(c, H, U)
    PROVE  /\ pool' \in Seq(created)
           /\ LET free == /\ c # NoChunk
                          /\ \A t \in Threads : Holds(t, c) => t \in H
                          /\ \A b \in Buffers : Uses(b, c) => b \in U
              IN  \A d : InPool(d)' <=> InPool(d) \/ (d = c /\ free)
           /\ (c # NoChunk => ~InPool(c)) =>
                  \A i, k \in DOMAIN pool' : pool'[i] = pool'[k] => i = k
<1>1. LastUse(c, H, U) <=> /\ c # NoChunk
                           /\ \A t \in Threads : Holds(t, c) => t \in H
                           /\ \A b \in Buffers : Uses(b, c) => b \in U
  BY DEF LastUse, Holders, Users, Holds, Uses
<1>2. CASE LastUse(c, H, U)
  <2>1. pool' = Append(pool, c) /\ c \in created
    BY <1>1, <1>2 DEF Recycle
  <2>2. QED
    BY <1>1, <1>2, <2>1, PoolPush DEF TypeOK, ChunksOwned
<1>3. CASE ~LastUse(c, H, U)
  <2>1. pool' = pool
    BY <1>3 DEF Recycle
  <2>2. QED
    <3>1. \A d : InPool(d)' <=> InPool(d)
      BY <2>1 DEF InPool
    <3>2. \A i, k \in DOMAIN pool' : pool'[i] = pool'[k] => i = k
      BY <2>1 DEF ChunksOwned
    <3>3. pool' \in Seq(created)
      BY <2>1 DEF TypeOK
    <3>4. QED
      BY <1>1, <1>3, <3>1, <3>2, <3>3
<1>4. QED
  BY <1>2, <1>3

-------------------------------------------------------------------------------
(* Every step keeps the invariant *)

\* The initial state: no chunk, no buffer.
LEMMA InitInv == Init => IInv
<1> SUFFICES ASSUME Init
             PROVE  IInv
  OBVIOUS
<1>1. pool \in Seq(created) /\ pool = <<>> /\ DOMAIN pool = {}
  BY EmptySeq DEF Init
<1>2. TypeOK
  BY <1>1, SizeAssumption DEF Init, TypeOK
<1>3. ChunksOwned
  BY <1>1, NullFacts DEF Init, ChunksOwned, Uses, InPool
<1>4. Making /\ BelowMark /\ Disjoint /\ AssertionsHold
  BY NullAssumption DEF Init, Making, MakingOf, BelowMark, Disjoint, AssertionsHold
<1>5. QED
  BY <1>2, <1>3, <1>4 DEF IInv

\* What a crash leaves is as before.
LEMMA CrashInv ==
    ASSUME IInv, Crash("assert"), NEW t \in Threads, pc[t] = "open", size[t] > ChunkSize
    PROVE  IInv'
<1> USE DEF IInv, Crash, chunkVars
<1>1. TypeOK'
  BY DEF TypeOK
<1>2. ChunksOwned'
  BY DEF ChunksOwned, Holds, Uses, InPool, Unused
<1>3. Making' /\ BelowMark' /\ Disjoint'
  BY DEF Making, MakingOf, BelowMark, Disjoint, Finished, FreeSize, Overlap
<1>4. AssertionsHold'
  BY DEF AssertionsHold
<1>5. QED
  BY <1>1, <1>2, <1>3, <1>4

\* A thread without an open packet finds its chunk closed.
LEMMA OpenBeginInv ==
    ASSUME IInv, NEW t \in Threads, NEW n \in Sizes, OpenBegin(t, n)
    PROVE  IInv'
<1> USE DEF IInv
<1>1. ~(current[t] # NoChunk /\ open[current[t]])
  BY DEF OpenBegin, At, Making, MakingOf
<1>2. /\ pc[t] = "idle" /\ crash = "no"
      /\ size' = [size EXCEPT ![t] = n]
      /\ pc' = [pc EXCEPT ![t] = IF MustReplace(t, n) THEN "pop" ELSE "open"]
      /\ UNCHANGED <<chunkVars, region, current, popped, making, crash>>
  BY <1>1 DEF OpenBegin, At, Goto
<1> USE DEF chunkVars
<1>3. TypeOK'
  BY <1>2 DEF TypeOK
<1>4. ChunksOwned'
  BY <1>2 DEF ChunksOwned, Holds, Uses, InPool, Unused
<1>5. ASSUME NEW u \in Threads
      PROVE  MakingOf(u)'
  <2>1. MakingOf(u)
    BY DEF Making
  <2>2. CASE u # t
    <3>1. pc'[u] = pc[u] /\ size'[u] = size[u]
      BY <1>2, <2>2 DEF TypeOK
    <3>2. QED
      BY <1>2, <2>1, <3>1 DEF MakingOf, FreeSize
  <2>3. CASE u = t
    <3>1. size'[t] = n /\ pc'[t] = IF MustReplace(t, n) THEN "pop" ELSE "open"
      BY <1>2 DEF TypeOK
    <3>2. CASE MustReplace(t, n)
      BY <1>1, <1>2, <2>1, <2>3, <3>1, <3>2 DEF MakingOf
    <3>3. CASE ~MustReplace(t, n)
      <4>1. current[t] # NoChunk /\ n <= FreeSize(current[t])
        BY <3>3, NullFacts DEF TypeOK, MustReplace, FreeSize
      <4>2. QED
        BY <1>1, <1>2, <2>1, <2>3, <3>1, <3>3, <4>1 DEF MakingOf, FreeSize
    <3>4. QED
      BY <3>2, <3>3
  <2>4. QED
    BY <2>2, <2>3
<1>6. BelowMark' /\ Disjoint' /\ AssertionsHold'
  BY <1>2 DEF BelowMark, Disjoint, AssertionsHold, Finished, Overlap
<1>7. QED
  BY <1>3, <1>4, <1>5, <1>6 DEF Making

\* A chunk that is popped, or new, is nobody else's.
LEMMA PopInv ==
    ASSUME IInv, NEW t \in Threads, Pop(t)
    PROVE  IInv'
<1> USE DEF IInv
<1>1. PICK c \in Chunks :
          /\ IF pool # <<>>
             THEN c = Last(pool) /\ pool' = Front(pool) /\ UNCHANGED created
             ELSE c \notin created /\ created' = created \cup {c} /\ UNCHANGED pool
          /\ popped' = [popped EXCEPT ![t] = c]
  BY DEF Pop
<1>2. /\ pc[t] = "pop" /\ crash = "no" /\ c # NoChunk /\ popped[t] = NoChunk
      /\ pc' = [pc EXCEPT ![t] = "replace"]
      /\ UNCHANGED <<open, usedSize, region, current, making, size, crash>>
  BY NullAssumption DEF Pop, At, Goto, Making, MakingOf
<1>3. /\ created' = created \cup {c} /\ pool' \in Seq(created') /\ Unused(c)
      /\ \A d : InPool(d)' <=> InPool(d) /\ d # c
      /\ \A i, k \in DOMAIN pool' : pool'[i] = pool'[k] => i = k
  <2>1. CASE pool # <<>>
    <3>1. /\ c \in created /\ InPool(c) /\ pool' \in Seq(created)
          /\ \A d : InPool(d)' <=> InPool(d) /\ d # c
          /\ \A i, k \in DOMAIN pool' : pool'[i] = pool'[k] => i = k
      BY <1>1, <2>1, PoolPop DEF TypeOK, ChunksOwned
    <3>2. created' = created \cup {c}
      BY <1>1, <2>1, <3>1
    <3>3. Unused(c)
      BY <3>1 DEF ChunksOwned
    <3>4. created' = created
      BY <1>1, <2>1
    <3>5. QED
      BY <3>1, <3>2, <3>3, <3>4
  <2>2. CASE pool = <<>>
    <3>1. c \notin created /\ created' = created \cup {c} /\ pool' = <<>>
      BY <1>1, <2>2
    <3>2. DOMAIN pool' = {} /\ DOMAIN pool = {}
      BY <2>2, <3>1
    <3>3. \A d : ~InPool(d)' /\ ~InPool(d)
      BY <3>2 DEF InPool
    <3>4. Unused(c)
      BY <1>2, <3>1, NullFacts DEF TypeOK, ChunksOwned, Unused, Holds, Uses
    <3>5. pool' \in Seq(created')
      BY <3>1, EmptySeq
    <3>6. QED
      BY <3>1, <3>2, <3>3, <3>4, <3>5
  <2>3. QED
    BY <2>1, <2>2
<1>4. TypeOK'
  BY <1>1, <1>2, <1>3 DEF TypeOK
<1>5. ChunksOwned'
  <2>1. \A u \in Threads : popped'[u] = IF u = t THEN c ELSE popped[u]
    BY <1>1 DEF TypeOK
  <2>2. \A u \in Threads, d \in created' : Holds(u, d)' <=> Holds(u, d) \/ (u = t /\ d = c)
    BY <1>2, <1>3, <2>1, NullAssumption DEF TypeOK, Holds
  <2>3. \A b \in Buffers : \A d : Uses(b, d)' <=> Uses(b, d)
    BY <1>2 DEF Uses
  <2>4. \A u \in Threads : ~Holds(u, c)
    BY <1>3 DEF Unused
  <2>5. \A d \in created' : \A u, v \in Threads : Holds(u, d)' /\ Holds(v, d)' => u = v
    BY <1>3, <2>2, <2>4 DEF ChunksOwned
  <2>6. \A u \in Threads : popped'[u] # NoChunk =>
            popped'[u] # current'[u] /\ \A b \in Buffers : region'[b].chunk # popped'[u]
    <3>1. \A u \in Threads : popped[u] # NoChunk =>
              popped[u] # current[u] /\ \A b \in Buffers : region[b].chunk # popped[u]
      BY DEF ChunksOwned, Uses
    <3>2. current[t] # c /\ \A b \in Buffers : region[b].chunk # c
      BY <1>3 DEF Unused, Holds, Uses
    <3>3. QED
      BY <1>2, <2>1, <3>1, <3>2
  <2>7. \A b \in Buffers : region'[b] # None => region'[b].chunk \in created'
    BY <1>2, <1>3 DEF ChunksOwned
  <2>8. ASSUME NEW d \in created'
        PROVE  InPool(d)' <=> Unused(d)'
    <3>1. CASE d = c
      BY <1>3, <2>2, <3>1 DEF Unused
    <3>2. CASE d # c
      BY <1>3, <2>2, <2>3, <3>2 DEF ChunksOwned, Unused
    <3>3. QED
      BY <3>1, <3>2
  <2>9. /\ \A i, k \in DOMAIN pool' : pool'[i] = pool'[k] => i = k
        /\ \A d \in created' : InPool(d)' <=> Unused(d)'
    BY <1>3, <2>8
  <2> HIDE DEF IInv
  <2>10. QED
    BY <2>5, <2>6, <2>7, <2>9 DEF ChunksOwned, Uses
<1>6. Making'
  BY <1>1, <1>2, NullAssumption DEF TypeOK, Making, MakingOf, FreeSize
<1>7. BelowMark' /\ Disjoint' /\ AssertionsHold'
  BY <1>2 DEF BelowMark, Disjoint, AssertionsHold, Finished, Overlap
<1>8. QED
  BY <1>4, <1>5, <1>6, <1>7

\* A thread that changes to its popped chunk gives up the old one, which goes into the
\* pool unless packets in it are left; in the new one there are none.
LEMMA ReplaceInv ==
    ASSUME IInv, NEW t \in Threads, Replace(t)
    PROVE  IInv'
<1> DEFINE old == current[t]
           c == popped[t]
<1>1. /\ TypeOK /\ ChunksOwned /\ Making /\ BelowMark /\ Disjoint /\ AssertionsHold
  BY DEF IInv
<1>2. /\ pc[t] = "replace" /\ crash = "no" /\ c # NoChunk /\ c \in created /\ c # old
      /\ old \in created \cup {NoChunk} /\ making[t] = NoBuffer /\ size[t] \in Sizes
      /\ \A b \in Buffers : region[b].chunk # c
  <2>1. MakingOf(t) /\ pc[t] = "replace" /\ crash = "no"
    BY <1>1 DEF Replace, At, Making
  <2>2. c # NoChunk /\ making[t] = NoBuffer /\ size[t] \in Sizes
    BY <2>1 DEF MakingOf
  <2>3. QED
    BY <1>1, <2>1, <2>2 DEF TypeOK, ChunksOwned, Uses
<1>3. /\ current' = [current EXCEPT ![t] = c]
      /\ popped' = [popped EXCEPT ![t] = NoChunk]
      /\ Recycle(old, {t}, {})
      /\ open' = [open EXCEPT ![c] = FALSE]
      /\ usedSize' = [usedSize EXCEPT ![c] = 0]
      /\ pc' = [pc EXCEPT ![t] = IF old = NoChunk /\ ChunkSize < size[t] THEN "pop" ELSE "open"]
      /\ UNCHANGED <<created, region, making, size, crash>>
  BY DEF Replace, Goto
<1>4. /\ \A u \in Threads : current'[u] = IF u = t THEN c ELSE current[u]
      /\ \A u \in Threads : popped'[u] = IF u = t THEN NoChunk ELSE popped[u]
      /\ \A d \in Chunks : open'[d] = IF d = c THEN FALSE ELSE open[d]
      /\ \A d \in Chunks : usedSize'[d] = IF d = c THEN 0 ELSE usedSize[d]
      /\ \A u \in Threads \ {t} : pc'[u] = pc[u]
      /\ pc'[t] = IF old = NoChunk /\ ChunkSize < size[t] THEN "pop" ELSE "open"
      /\ created \subseteq Chunks
  BY <1>1, <1>3 DEF TypeOK
<1> DEFINE free == /\ old # NoChunk
                   /\ \A u \in Threads : Holds(u, old) => u = t
                   /\ \A b \in Buffers : ~Uses(b, old)
<1>5. /\ pool' \in Seq(created)
      /\ \A d : InPool(d)' <=> InPool(d) \/ (d = old /\ free)
      /\ \A i, k \in DOMAIN pool' : pool'[i] = pool'[k] => i = k
  <2>1. old # NoChunk => ~InPool(old)
    <3>1. Holds(t, old)
      BY DEF Holds
    <3>2. QED
      BY <1>1, <1>2, <3>1 DEF ChunksOwned, Unused
  <2>2. \A u : u \in {t} <=> u = t
    OBVIOUS
  <2> HIDE DEF old
  <2>3. QED
    BY <1>1, <1>2, <1>3, <2>1, <2>2, Recycled
<1> HIDE DEF c, old
<1>6. TypeOK'
  <2>1. /\ current' \in [Threads -> created \cup {NoChunk}]
        /\ popped' \in [Threads -> created \cup {NoChunk}]
    BY <1>1, <1>2, <1>3 DEF TypeOK
  <2>2. /\ open' \in [Chunks -> BOOLEAN] /\ usedSize' \in [Chunks -> 0 .. ChunkSize]
    BY <1>1, <1>2, <1>3, SizeAssumption DEF TypeOK
  <2>3. pc' \in [Threads -> {"idle", "pop", "replace", "open", "write"}]
    BY <1>1, <1>3 DEF TypeOK
  <2>4. QED
    BY <1>1, <1>3, <1>5, <2>1, <2>2, <2>3 DEF TypeOK
<1>7. ChunksOwned'
  <2>1. \A u \in Threads, d \in created : Holds(u, d)' <=> Holds(u, d) /\ ~(u = t /\ d = old)
    BY <1>1, <1>2, <1>4, NullAssumption DEF Holds, c, old
  <2>2. \A b \in Buffers, d \in created : Uses(b, d)' <=> Uses(b, d)
    BY <1>3 DEF Uses
  <2>3. \A d \in created' : \A u, v \in Threads : Holds(u, d)' /\ Holds(v, d)' => u = v
    BY <1>1, <1>3, <2>1 DEF ChunksOwned
  <2>4. \A u \in Threads : popped'[u] # NoChunk =>
            popped'[u] # current'[u] /\ \A b \in Buffers : region'[b].chunk # popped'[u]
    <3>1. \A u \in Threads : popped[u] # NoChunk =>
              popped[u] # current[u] /\ \A b \in Buffers : region[b].chunk # popped[u]
      BY <1>1 DEF ChunksOwned, Uses
    <3>2. QED
      BY <1>3, <1>4, <3>1
  <2>5. \A b \in Buffers : region'[b] # None => region'[b].chunk \in created'
    BY <1>1, <1>3 DEF ChunksOwned
  <2>6. ASSUME NEW d \in created
        PROVE  InPool(d)' <=> Unused(d)'
    <3>1. InPool(d) <=> Unused(d)
      BY <1>1 DEF ChunksOwned
    <3>2. CASE d = old
      <4>1. Holds(t, d) /\ d # NoChunk
        BY <1>1, <3>2, NullAssumption DEF Holds, old, TypeOK
      <4>2. InPool(d)' <=> free
        BY <1>5, <3>1, <3>2, <4>1 DEF Unused
      <4>3. Unused(d)' <=> /\ \A u \in Threads : Holds(u, d) => u = t
                           /\ \A b \in Buffers : ~Uses(b, d)
        BY <2>1, <2>2, <3>2 DEF Unused
      <4>4. QED
        BY <3>2, <4>1, <4>2, <4>3
    <3>3. CASE d # old
      <4>1. Unused(d)' <=> Unused(d)
        BY <2>1, <2>2, <3>3 DEF Unused
      <4>2. InPool(d)' <=> InPool(d)
        BY <1>5, <3>3
      <4>3. QED
        BY <3>1, <4>1, <4>2
    <3>4. QED
      BY <3>2, <3>3
  <2>7. \A d \in created' : InPool(d)' <=> Unused(d)'
    BY <1>3, <2>6
  <2>8. \A i, k \in DOMAIN pool' : pool'[i] = pool'[k] => i = k
    BY <1>5
  <2>9. QED
    BY <2>3, <2>4, <2>5, <2>7, <2>8 DEF ChunksOwned, Uses
<1>8. ASSUME NEW u \in Threads
      PROVE  MakingOf(u)'
  <2>1. MakingOf(u)
    BY <1>1 DEF Making
  <2>2. CASE u # t
    <3>1. current[u] # NoChunk => current[u] # c /\ current[u] \in Chunks
      BY <1>1, <1>2, <2>2 DEF TypeOK, ChunksOwned, Holds, c
    <3>2. /\ current'[u] = current[u] /\ popped'[u] = popped[u] /\ pc'[u] = pc[u]
          /\ UNCHANGED <<region, making, size>>
      BY <1>3, <1>4, <2>2
    <3>3. current[u] # NoChunk =>
              open'[current[u]] = open[current[u]] /\ usedSize'[current[u]] = usedSize[current[u]]
      BY <1>4, <3>1
    <3>4. QED
      BY <2>1, <3>2, <3>3 DEF MakingOf, FreeSize
  <2>3. CASE u = t
    <3>1. /\ current'[u] = c /\ popped'[u] = NoChunk /\ making'[u] = NoBuffer
          /\ size'[u] \in Sizes /\ ~open'[c] /\ usedSize'[c] = 0 /\ pc'[u] \in {"pop", "open"}
      BY <1>2, <1>3, <1>4, <2>3
    <3>2. size'[u] <= ChunkSize - 0 \/ size'[u] > ChunkSize
      BY <3>1, NullFacts
    <3>3. QED
      BY <1>2, <3>1, <3>2 DEF MakingOf, FreeSize
  <2>4. QED
    BY <2>2, <2>3
<1>9. BelowMark'
  <2>1. \A b \in Buffers : region[b] # None => region[b].chunk \in Chunks \ {c}
    BY <1>1, <1>2 DEF TypeOK, ChunksOwned
  <2>2. \A b \in Buffers : region[b] # None =>
            usedSize'[region[b].chunk] = usedSize[region[b].chunk]
    BY <1>4, <2>1
  <2>3. QED
    BY <1>1, <1>3, <2>2 DEF BelowMark, Finished
<1>10. Disjoint' /\ AssertionsHold'
  BY <1>1, <1>2, <1>3 DEF Disjoint, AssertionsHold, Overlap
<1>11. QED
  BY <1>6, <1>7, <1>8, <1>9, <1>10 DEF IInv, Making

\* SendBufferChunk::Open asserts only when the packet is larger than a chunk; otherwise
\* the new packet lies above the mark, and so above all others of the chunk.
LEMMA OpenChunkInv ==
    ASSUME IInv, NEW t \in Threads, OpenChunk(t)
    PROVE  IInv'
<1> DEFINE c == current[t]
<1>1. /\ TypeOK /\ ChunksOwned /\ Making /\ BelowMark /\ Disjoint /\ AssertionsHold
  BY DEF IInv
<1>2. /\ pc[t] = "open" /\ crash = "no" /\ c # NoChunk /\ c \in created /\ c \in Chunks
      /\ making[t] = NoBuffer /\ popped[t] = NoChunk /\ size[t] \in Sizes /\ ~open[c]
      /\ size[t] <= FreeSize(c) \/ size[t] > ChunkSize
  <2>1. MakingOf(t) /\ pc[t] = "open" /\ crash = "no"
    BY <1>1 DEF OpenChunk, At, Making
  <2>2. c # NoChunk /\ making[t] = NoBuffer /\ popped[t] = NoChunk /\ size[t] \in Sizes
    BY <2>1 DEF MakingOf
  <2>3. ~open[c] /\ (size[t] <= FreeSize(c) \/ size[t] > ChunkSize)
    BY <2>1, <2>2 DEF MakingOf
  <2>4. QED
    BY <1>1, <2>1, <2>2, <2>3 DEF TypeOK
<1>3. CASE size[t] > ChunkSize
  <2>1. Crash("assert")
    BY <1>3 DEF OpenChunk
  <2>2. QED
    BY <1>2, <1>3, <2>1, CrashInv
<1>4. CASE ~(size[t] > ChunkSize)
  <2> DEFINE r == [chunk |-> c, start |-> usedSize[c], size |-> size[t]]
  <2>1. /\ usedSize[c] \in Nat /\ size[t] \in Nat /\ size[t] > 0 /\ ChunkSize \in Nat
        /\ usedSize[c] + size[t] <= ChunkSize /\ r \in Regions
        /\ ~(size[t] > FreeSize(c))
    BY <1>1, <1>2, <1>4, NullFacts DEF TypeOK, FreeSize, Regions
  <2>2. PICK b \in Buffers :
            /\ region[b] = None
            /\ region' = [region EXCEPT ![b] = r]
            /\ making' = [making EXCEPT ![t] = b]
            /\ open' = [open EXCEPT ![c] = TRUE]
            /\ pc' = [pc EXCEPT ![t] = "write"]
            /\ UNCHANGED <<created, usedSize, pool, current, popped, size, crash>>
    BY <1>2, <1>4, <2>1 DEF OpenChunk, Goto
  <2>3. /\ \A d \in Buffers : region'[d] = IF d = b THEN r ELSE region[d]
        /\ \A u \in Threads : making'[u] = IF u = t THEN b ELSE making[u]
        /\ \A d \in Chunks : open'[d] = IF d = c THEN TRUE ELSE open[d]
        /\ \A u \in Threads : pc'[u] = IF u = t THEN "write" ELSE pc[u]
    BY <1>1, <2>2 DEF TypeOK
  <2>4. r.chunk = c /\ r.start = usedSize[c] /\ r.size = size[t] /\ r # None
    BY <2>1, NullFacts
  <2>5. \A u \in Threads : u # t => current[u] # c /\ popped[u] # c
    BY <1>1, <1>2 DEF ChunksOwned, Holds, c
  <2>6. \A u \in Threads : making[u] # NoBuffer =>
            u # t /\ making[u] # b /\ region[making[u]].chunk = current[u]
    BY <1>1, <1>2, <2>2, NullFacts DEF Making, MakingOf
  <2>7. None.chunk = NoChunk /\ NoBuffer \notin Buffers /\ NoChunk \notin created
    BY <1>1, NullAssumption DEF None, TypeOK
  <2> HIDE DEF r, c
  <2>8. TypeOK'
    BY <1>1, <1>2, <2>1, <2>2 DEF TypeOK
  <2>9. ChunksOwned'
    <3>1. /\ \A u \in Threads, d \in created : Holds(u, d)' <=> Holds(u, d)
          /\ \A d \in created : InPool(d)' <=> InPool(d)
      BY <2>2 DEF Holds, InPool
    <3>2. \A d \in Buffers, k \in created : Uses(d, k)' <=> Uses(d, k) \/ (d = b /\ k = c)
      BY <2>2, <2>3, <2>4, <2>7 DEF Uses
    <3>3. \A d \in created' : \A u, v \in Threads : Holds(u, d)' /\ Holds(v, d)' => u = v
      BY <1>1, <2>2, <3>1 DEF ChunksOwned
    <3>4. \A u \in Threads : popped'[u] # NoChunk =>
              popped'[u] # current'[u] /\ \A d \in Buffers : region'[d].chunk # popped'[u]
      <4>1. \A u \in Threads : popped[u] # NoChunk =>
                popped[u] # current[u] /\ \A d \in Buffers : region[d].chunk # popped[u]
        BY <1>1 DEF ChunksOwned, Uses
      <4>2. \A u \in Threads : popped[u] # NoChunk => popped[u] # c
        BY <1>2, <2>5 DEF c
      <4>3. QED
        BY <2>2, <2>3, <2>4, <4>1, <4>2
    <3>5. \A d \in Buffers : region'[d] # None => region'[d].chunk \in created'
      BY <1>1, <1>2, <2>2, <2>3, <2>4 DEF ChunksOwned
    <3>6. \A d \in created' : InPool(d)' <=> Unused(d)'
      <4>1. Holds(t, c)
        BY DEF Holds, c
      <4>2. \A d \in created : Unused(d)' <=> Unused(d)
        BY <1>2, <2>2, <3>1, <3>2, <4>1 DEF Unused
      <4>3. \A d \in created : InPool(d) <=> Unused(d)
        BY <1>1 DEF ChunksOwned
      <4>4. QED
        BY <2>2, <3>1, <4>2, <4>3
    <3>7. \A i, k \in DOMAIN pool' : pool'[i] = pool'[k] => i = k
      BY <1>1, <2>2 DEF ChunksOwned
    <3>8. QED
      BY <3>3, <3>4, <3>5, <3>6, <3>7 DEF ChunksOwned, Uses
  <2>10. ASSUME NEW u \in Threads
         PROVE  MakingOf(u)'
    <3>1. MakingOf(u)
      BY <1>1 DEF Making
    <3>2. CASE u # t
      <4>1. current[u] # NoChunk => open'[current[u]] = open[current[u]]
        <5>1. current[u] # NoChunk => current[u] \in Chunks
          BY <1>1 DEF TypeOK
        <5>2. current[u] # c
          BY <2>5, <3>2
        <5>3. QED
          BY <2>3, <5>1, <5>2
      <4>2. making[u] # NoBuffer => region'[making[u]] = region[making[u]]
        BY <1>1, <2>3, <2>6 DEF TypeOK
      <4>3. pc'[u] = pc[u] /\ making'[u] = making[u]
        BY <2>3, <3>2
      <4>4. QED
        BY <2>2, <3>1, <4>1, <4>2, <4>3 DEF MakingOf, FreeSize
    <3>3. CASE u = t
      <4>1. /\ current'[u] = c /\ popped'[u] = NoChunk /\ making'[u] = b /\ b # NoBuffer
            /\ size'[u] = size[t] /\ open'[c] /\ usedSize'[c] = usedSize[c]
            /\ pc'[u] = "write" /\ region'[b] = r
        BY <1>2, <2>2, <2>3, <2>7, <3>3 DEF c
      <4>2. size'[u] <= ChunkSize - usedSize'[c]
        BY <2>1, <4>1
      <4>3. QED
        BY <1>2, <2>4, <4>1, <4>2 DEF MakingOf, FreeSize
    <3>4. QED
      BY <3>2, <3>3
  <2>11. BelowMark'
    <3>1. \A d \in Buffers : Finished(d)' => d # b /\ Finished(d)
      BY <1>2, <2>3, <2>7 DEF Finished
    <3>2. QED
      BY <1>1, <2>2, <2>3, <3>1 DEF BelowMark
  <2>12. Disjoint'
    <3>1. ASSUME NEW d \in Buffers, d # b, region[d] # None
          PROVE  ~Overlap(r, region[d]) /\ ~Overlap(region[d], r)
      <4>1. region[d] \in Regions
        BY <1>1, <3>1 DEF TypeOK
      <4>2. region[d].start \in Nat /\ region[d].size \in Nat
        BY <4>1, NullFacts
      <4>3. CASE region[d].chunk = c
        <5>1. Finished(d)
          BY <2>5, <2>6, <2>7, <4>3 DEF Finished
        <5>2. region[d].start + region[d].size <= usedSize[c]
          BY <1>1, <3>1, <4>3, <5>1 DEF BelowMark
        <5>3. QED
          BY <2>1, <2>4, <4>2, <5>2 DEF Overlap
      <4>4. CASE region[d].chunk # c
        BY <2>4, <4>4 DEF Overlap
      <4>5. QED
        BY <4>3, <4>4
    <3>2. r.start + r.size <= ChunkSize
      BY <2>1, <2>4
    <3>3. \A d \in Buffers : region'[d] # None =>
              /\ region'[d].start + region'[d].size <= ChunkSize
              /\ \A k \in Buffers \ {d} : region'[k] # None => ~Overlap(region'[d], region'[k])
      BY <1>1, <2>3, <3>1, <3>2 DEF Disjoint
    <3>4. QED
      BY <3>3 DEF Disjoint, Overlap
  <2>13. AssertionsHold'
    BY <1>2, <2>2 DEF AssertionsHold
  <2>14. QED
    BY <2>8, <2>9, <2>10, <2>11, <2>12, <2>13 DEF IInv, Making
<1>5. QED
  BY <1>3, <1>4

\* Close moves the mark of the chunk above the packet that is complete now.
LEMMA WriteCloseInv ==
    ASSUME IInv, NEW t \in Threads, WriteClose(t)
    PROVE  IInv'
<1> DEFINE b == making[t]
           c == current[t]
<1>1. /\ TypeOK /\ ChunksOwned /\ Making /\ BelowMark /\ Disjoint /\ AssertionsHold
  BY DEF IInv
<1>2. /\ pc[t] = "write" /\ crash = "no" /\ c # NoChunk /\ popped[t] = NoChunk
      /\ b # NoBuffer /\ region[b].chunk = c /\ region[b].start = usedSize[c]
      /\ region[b].size = size[t] /\ open[c] /\ size[t] <= FreeSize(c) /\ size[t] \in Sizes
  <2>1. MakingOf(t) /\ pc[t] = "write" /\ crash = "no"
    BY <1>1 DEF WriteClose, At, Making
  <2>2. c # NoChunk /\ popped[t] = NoChunk /\ b # NoBuffer /\ size[t] \in Sizes
    BY <2>1 DEF MakingOf
  <2>3. open[c]
    BY <2>1, <2>2 DEF MakingOf
  <2>4. QED
    BY <2>1, <2>2, <2>3 DEF MakingOf
<1>3. /\ open' = [open EXCEPT ![c] = FALSE]
      /\ usedSize' = [usedSize EXCEPT ![c] = usedSize[c] + size[t]]
      /\ making' = [making EXCEPT ![t] = NoBuffer]
      /\ size' = [size EXCEPT ![t] = 0]
      /\ pc' = [pc EXCEPT ![t] = "idle"]
      /\ UNCHANGED <<created, pool, region, current, popped, crash>>
  BY <1>2 DEF WriteClose, UsedAfter, Goto
<1>4. /\ c \in Chunks /\ b \in Buffers /\ usedSize[c] \in Nat /\ size[t] \in Nat
      /\ ChunkSize \in Nat /\ usedSize[c] + size[t] \in 0 .. ChunkSize
  <2>1. c \in Chunks /\ b \in Buffers /\ usedSize[c] \in 0 .. ChunkSize
    BY <1>1, <1>2 DEF TypeOK
  <2>2. ChunkSize \in Nat /\ size[t] \in Nat
    BY <1>2, NullFacts
  <2> HIDE DEF b, c
  <2>3. QED
    BY <1>2, <2>1, <2>2 DEF FreeSize
<1>5. /\ \A u \in Threads : making'[u] = IF u = t THEN NoBuffer ELSE making[u]
      /\ \A u \in Threads : size'[u] = IF u = t THEN 0 ELSE size[u]
      /\ \A u \in Threads : pc'[u] = IF u = t THEN "idle" ELSE pc[u]
      /\ \A d \in Chunks : open'[d] = IF d = c THEN FALSE ELSE open[d]
      /\ \A d \in Chunks : usedSize'[d] = IF d = c THEN usedSize[c] + size[t] ELSE usedSize[d]
  BY <1>1, <1>3 DEF TypeOK
<1>6. \A u \in Threads : u # t => current[u] # c
  BY <1>1, <1>2 DEF TypeOK, ChunksOwned, Holds
<1> HIDE DEF b, c
<1>7. TypeOK'
  <2>1. /\ usedSize' \in [Chunks -> 0 .. ChunkSize] /\ open' \in [Chunks -> BOOLEAN]
    BY <1>1, <1>3, <1>4 DEF TypeOK
  <2>2. /\ making' \in [Threads -> Buffers \cup {NoBuffer}] /\ size' \in [Threads -> Sizes \cup {0}]
        /\ pc' \in [Threads -> {"idle", "pop", "replace", "open", "write"}]
    BY <1>1, <1>3 DEF TypeOK
  <2>3. QED
    BY <1>1, <1>3, <2>1, <2>2 DEF TypeOK
<1>8. ChunksOwned'
  BY <1>1, <1>3 DEF ChunksOwned, Holds, Uses, InPool, Unused
<1>9. ASSUME NEW u \in Threads
      PROVE  MakingOf(u)'
  <2>1. MakingOf(u)
    BY <1>1 DEF Making
  <2>2. CASE u # t
    <3>1. current[u] # NoChunk => current[u] \in Chunks
      BY <1>1 DEF TypeOK
    <3>2. current[u] # c
      BY <1>6, <2>2
    <3>3. current[u] # NoChunk =>
              open'[current[u]] = open[current[u]] /\ usedSize'[current[u]] = usedSize[current[u]]
      BY <1>5, <3>1, <3>2
    <3>4. making'[u] = making[u] /\ size'[u] = size[u] /\ pc'[u] = pc[u]
      BY <1>5, <2>2
    <3>5. QED
      BY <1>3, <2>1, <3>3, <3>4 DEF MakingOf, FreeSize
  <2>3. CASE u = t
    <3>1. /\ making'[u] = NoBuffer /\ popped'[u] = NoChunk /\ pc'[u] = "idle"
          /\ current'[u] = c /\ ~open'[c]
      BY <1>2, <1>3, <1>4, <1>5, <2>3 DEF c
    <3>2. QED
      BY <3>1 DEF MakingOf
  <2>4. QED
    BY <2>2, <2>3
<1>10. BelowMark'
  <2>1. ASSUME NEW d \in Buffers, region[d] # None, Finished(d)'
        PROVE  region[d].start + region[d].size <= usedSize'[region[d].chunk]
    <3>1. CASE d = b
      BY <1>2, <1>4, <1>5, <3>1
    <3>2. CASE d # b
      <4>1. Finished(d)
        BY <1>5, <2>1, <3>2 DEF Finished, b
      <4>2. region[d].start + region[d].size <= usedSize[region[d].chunk]
        BY <1>1, <2>1, <4>1 DEF BelowMark
      <4>3. region[d] \in Regions
        BY <1>1, <2>1 DEF TypeOK
      <4>4. /\ region[d].chunk \in Chunks
            /\ region[d].start \in Nat /\ region[d].size \in Nat
        BY <4>3, NullFacts
      <4>5. usedSize[region[d].chunk] \in Nat
        BY <1>1, <4>4 DEF TypeOK
      <4>6. QED
        BY <1>4, <1>5, <4>2, <4>4, <4>5
    <3>3. QED
      BY <3>1, <3>2
  <2>2. QED
    BY <1>3, <2>1 DEF BelowMark
<1>11. Disjoint' /\ AssertionsHold'
  BY <1>1, <1>2, <1>3 DEF Disjoint, AssertionsHold, Overlap
<1>12. QED
  BY <1>7, <1>8, <1>9, <1>10, <1>11 DEF IInv, Making

\* The last reference to a finished packet takes its chunk to the pool, if no thread
\* and no other packet needs it.
LEMMA DestroyInv ==
    ASSUME IInv, NEW b \in Buffers, Destroy(b)
    PROVE  IInv'
<1> DEFINE c == region[b].chunk
<1>1. /\ TypeOK /\ ChunksOwned /\ Making /\ BelowMark /\ Disjoint /\ AssertionsHold
  BY DEF IInv
<1>2. /\ crash = "no" /\ region[b] # None /\ Finished(b)
      /\ region' = [region EXCEPT ![b] = None]
      /\ Recycle(c, {}, {b})
      /\ UNCHANGED <<created, open, usedSize, current, popped, making, size, pc, crash>>
  BY DEF Destroy, Finished
<1>3. c \in created /\ c # NoChunk /\ Uses(b, c) /\ ~InPool(c)
  <2>1. c \in created /\ Uses(b, c)
    BY <1>1, <1>2 DEF ChunksOwned, Uses
  <2>2. QED
    BY <1>1, <2>1, NullAssumption DEF TypeOK, ChunksOwned, Unused
<1>4. \A d \in Buffers : region'[d] = IF d = b THEN None ELSE region[d]
  BY <1>1, <1>2 DEF TypeOK
<1> DEFINE free == /\ \A t \in Threads : ~Holds(t, c)
                   /\ \A d \in Buffers : Uses(d, c) => d = b
<1>5. /\ pool' \in Seq(created)
      /\ \A d : InPool(d)' <=> InPool(d) \/ (d = c /\ free)
      /\ \A i, k \in DOMAIN pool' : pool'[i] = pool'[k] => i = k
  <2>1. \A d : d \in {b} <=> d = b
    OBVIOUS
  <2> HIDE DEF c
  <2>2. QED
    BY <1>1, <1>2, <1>3, <2>1, Recycled
<1> HIDE DEF c
<1>6. TypeOK'
  <2>1. region' \in [Buffers -> Regions \cup {None}]
    BY <1>1, <1>2 DEF TypeOK
  <2>2. QED
    BY <1>1, <1>2, <1>5, <2>1 DEF TypeOK
<1>7. ChunksOwned'
  <2>1. \A u \in Threads, d \in created : Holds(u, d)' <=> Holds(u, d)
    BY <1>2 DEF Holds
  <2>2. \A d \in Buffers, k \in created : Uses(d, k)' <=> Uses(d, k) /\ d # b
    BY <1>1, <1>4, NullAssumption DEF Uses, None, TypeOK
  <2>3. \A d \in created' : \A u, v \in Threads : Holds(u, d)' /\ Holds(v, d)' => u = v
    BY <1>1, <1>2, <2>1 DEF ChunksOwned
  <2>4. \A u \in Threads : popped'[u] # NoChunk =>
            popped'[u] # current'[u] /\ \A d \in Buffers : region'[d].chunk # popped'[u]
    <3>1. \A u \in Threads : popped[u] # NoChunk =>
              popped[u] # current[u] /\ \A d \in Buffers : region[d].chunk # popped[u]
      BY <1>1 DEF ChunksOwned, Uses
    <3>2. QED
      BY <1>2, <1>4, <3>1 DEF None
  <2>5. \A d \in Buffers : region'[d] # None => region'[d].chunk \in created'
    BY <1>1, <1>2, <1>4 DEF ChunksOwned
  <2>6. ASSUME NEW d \in created
        PROVE  InPool(d)' <=> Unused(d)'
    <3>1. InPool(d) <=> Unused(d)
      BY <1>1 DEF ChunksOwned
    <3>2. CASE d = c
      <4>1. InPool(d)' <=> free
        BY <1>3, <1>5, <3>2
      <4>2. Unused(d)' <=> free
        BY <2>1, <2>2, <3>2 DEF Unused
      <4>3. QED
        BY <4>1, <4>2
    <3>3. CASE d # c
      <4>1. ~Uses(b, d)
        BY <3>3 DEF Uses, c
      <4>2. Unused(d)' <=> Unused(d)
        BY <2>1, <2>2, <4>1 DEF Unused
      <4>3. QED
        BY <1>5, <3>1, <3>3, <4>2
    <3>4. QED
      BY <3>2, <3>3
  <2>7. \A d \in created' : InPool(d)' <=> Unused(d)'
    BY <1>2, <2>6
  <2>8. \A i, k \in DOMAIN pool' : pool'[i] = pool'[k] => i = k
    BY <1>5
  <2>9. QED
    BY <2>3, <2>4, <2>5, <2>7, <2>8 DEF ChunksOwned, Uses
<1>8. ASSUME NEW u \in Threads
      PROVE  MakingOf(u)'
  <2>1. MakingOf(u) /\ making[u] # b
    BY <1>1, <1>2 DEF Making, Finished
  <2>2. making[u] # NoBuffer => region'[making[u]] = region[making[u]]
    BY <1>1, <1>4, <2>1 DEF TypeOK
  <2>3. QED
    BY <1>2, <2>1, <2>2 DEF MakingOf, FreeSize
<1>9. BelowMark'
  BY <1>1, <1>2, <1>4 DEF BelowMark, Finished
<1>10. Disjoint' /\ AssertionsHold'
  BY <1>1, <1>2, <1>4 DEF Disjoint, AssertionsHold, Overlap
<1>11. QED
  BY <1>6, <1>7, <1>8, <1>9, <1>10 DEF IInv, Making

\* Every step of the system keeps the invariant.
LEMMA NextInv == IInv /\ [Next]_vars => IInv'
<1> SUFFICES ASSUME IInv, [Next]_vars
             PROVE  IInv'
  OBVIOUS
<1>1. ASSUME NEW t \in Threads, Step(t)
      PROVE  IInv'
  BY <1>1, OpenBeginInv, PopInv, ReplaceInv, OpenChunkInv, WriteCloseInv DEF Step
<1>2. ASSUME NEW b \in Buffers, Destroy(b)
      PROVE  IInv'
  BY <1>2, DestroyInv
<1>3. CASE UNCHANGED vars
  <2> USE <1>3 DEF IInv, vars, chunkVars
  <2>1. TypeOK' /\ AssertionsHold'
    BY DEF TypeOK, AssertionsHold
  <2>2. ChunksOwned'
    BY DEF ChunksOwned, Holds, Uses, InPool, Unused
  <2>3. Making' /\ BelowMark' /\ Disjoint'
    BY DEF Making, MakingOf, BelowMark, Disjoint, Finished, FreeSize, Overlap
  <2>4. QED
    BY <2>1, <2>2, <2>3
<1>4. QED
  BY <1>1, <1>2, <1>3 DEF Next

-------------------------------------------------------------------------------
(* Theorems *)

\* The invariant holds in every reachable state: SendBufferManager and its chunks.
THEOREM SendBufferInvariant == Spec => []IInv
<1>1. QED
  BY InitInv, NextInv, PTL DEF Spec

\* Packets that somebody still refers to never share bytes, however often their chunks
\* were popped, reset and handed to other threads.
THEOREM PacketsDisjoint == Spec => []Disjoint
<1>1. IInv => Disjoint
  BY DEF IInv
<1>2. QED
  BY <1>1, SendBufferInvariant, PTL

\* Open and Close assert nothing that is false, and Open gives no null buffer, unless
\* the packet is larger than a chunk.
THEOREM OnlyLargePacketsAssert == Spec => []AssertionsHold
<1>1. IInv => AssertionsHold
  BY DEF IInv
<1>2. QED
  BY <1>1, SendBufferInvariant, PTL

\* A set whose elements are all the same has one at most.
LEMMA AtMostOne ==
    ASSUME NEW S, \A x, y \in S : x = y
    PROVE  Cardinality(S) <= 1
<1>1. CASE S = {}
  BY <1>1, FS_EmptySet
<1>2. CASE S # {}
  <2>1. PICK x \in S : TRUE
    BY <1>2
  <2>2. S = {x}
    BY <2>1
  <2>3. QED
    BY <2>2, FS_Singleton
<1>3. QED
  BY <1>1, <1>2

\* Every chunk is in the pool once while nobody refers to it, and not in it otherwise;
\* one thread at most cuts packets from it.
THEOREM ChunksAccounted == Spec => []ChunkAccounted
<1>1. IInv => ChunkAccounted
  <2> SUFFICES ASSUME IInv
               PROVE  ChunkAccounted
    OBVIOUS
  <2>1. TypeOK /\ ChunksOwned
    BY DEF IInv
  <2>2. IsInjective(pool)
    BY <2>1 DEF IsInjective, ChunksOwned
  <2>3. ASSUME NEW c \in created
        PROVE  c \in Range(pool) <=> Holders(c) = {} /\ Users(c) = {}
    <3>1. c \in Range(pool) <=> InPool(c)
      BY DEF Range, InPool
    <3>2. Holders(c) = {} /\ Users(c) = {} <=> Unused(c)
      BY DEF Holders, Users, Unused, Holds, Uses
    <3>3. QED
      BY <2>1, <3>1, <3>2 DEF ChunksOwned
  <2>4. ASSUME NEW c \in created
        PROVE  Cardinality(Holders(c)) <= 1
    <3>1. \A t, u \in Holders(c) : t = u
      BY <2>1 DEF ChunksOwned, Holders, Holds
    <3>2. QED
      BY <3>1, AtMostOne
  <2>5. QED
    BY <2>1, <2>2, <2>3, <2>4 DEF ChunkAccounted
<1>2. QED
  BY <1>1, SendBufferInvariant, PTL

===============================================================================
