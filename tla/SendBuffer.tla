-------------------------------- MODULE SendBuffer --------------------------------
(***************************************************************************)
(* The memory of outgoing packets (ServerCore/SendBuffer.cpp).  A thread     *)
(* cuts its packets off a chunk of its own, LSendBufferChunk; a packet keeps  *)
(* its chunk alive until the last session has sent it, on whatever thread;   *)
(* a chunk that neither a thread nor a packet refers to goes back into the    *)
(* pool of SendBufferManager.  Only sizes and places count here.             *)
(***************************************************************************)
EXTENDS Naturals, FiniteSets, SequencesExt

CONSTANTS
    Threads,
    Chunks, NoChunk,    \* memory for chunks; a null reference
    Buffers, NoBuffer,  \* bound: the packets that exist at a time
    ChunkSize,          \* SEND_BUFFER_CHUNK_SIZE
    Sizes               \* the packet sizes MakeSendBuffer asks for

ASSUME NullAssumption == NoChunk \notin Chunks /\ NoBuffer \notin Buffers
ASSUME SizeAssumption == ChunkSize \in Nat /\ Sizes \subseteq Nat \ {0}

VARIABLES
    created,        \* the chunks that were allocated, never to be freed
    open,           \* per chunk, _open
    usedSize,       \* per chunk, _usedSize
    pool,           \* _sendBufferChunks
    region,         \* per buffer, its _owner, its place in it and _allocSize
    current,        \* per thread, LSendBufferChunk
    popped,         \* per thread, what Pop has returned
    making,         \* per thread, the buffer between Open and Close
    size,           \* per thread, the size asked for
    pc,             \* per thread, where it is in MakeSendBuffer
    crash           \* why the process died

chunkVars == <<created, open, usedSize, pool>>
vars == <<chunkVars, region, current, popped, making, size, pc, crash>>

-------------------------------------------------------------------------------

None == [chunk |-> NoChunk, start |-> 0, size |-> 0]
Regions == [chunk : Chunks, start : 0 .. ChunkSize, size : 1 .. ChunkSize]

\* The values of the variables.
TypeOK ==
    /\ created \subseteq Chunks
    /\ open \in [Chunks -> BOOLEAN]
    /\ usedSize \in [Chunks -> 0 .. ChunkSize]
    /\ pool \in Seq(created)
    /\ region \in [Buffers -> Regions \cup {None}]
    /\ current \in [Threads -> created \cup {NoChunk}]
    /\ popped \in [Threads -> created \cup {NoChunk}]
    /\ making \in [Threads -> Buffers \cup {NoBuffer}]
    /\ size \in [Threads -> Sizes \cup {0}]
    /\ pc \in [Threads -> {"idle", "pop", "replace", "open", "write"}]
    /\ crash \in {"no", "assert", "null"}

Init ==
    /\ created = {} /\ pool = <<>>
    /\ open = [c \in Chunks |-> FALSE]
    /\ usedSize = [c \in Chunks |-> 0]
    /\ region = [b \in Buffers |-> None]
    /\ current = [t \in Threads |-> NoChunk]
    /\ popped = [t \in Threads |-> NoChunk]
    /\ making = [t \in Threads |-> NoBuffer]
    /\ size = [t \in Threads |-> 0]
    /\ pc = [t \in Threads |-> "idle"]
    /\ crash = "no"

FreeSize(c) == ChunkSize - usedSize[c]
At(t, place) == crash = "no" /\ pc[t] = place
Goto(t, place) == pc' = [pc EXCEPT ![t] = place]
Crash(why) ==
    /\ crash' = why
    /\ UNCHANGED <<chunkVars, region, current, popped, making, size, pc>>

Holders(c) == {t \in Threads : c \in {current[t], popped[t]}}
Users(c) == {b \in Buffers : region[b].chunk = c}

-------------------------------------------------------------------------------
(* Faulty variants of the definitions below, used to test the properties. *)

\* The deleter looks at the buffers only, not at the thread that cuts from the chunk.
LastUseOfBuffers(c, holders, users) == c # NoChunk /\ Users(c) \subseteq users

\* The buffer keeps a pointer to its chunk that does not count.
LastUseOfThread(c, holders, users) ==
    c # NoChunk /\ Holders(c) \subseteq holders /\ holders # {}

\* SendBufferManager::Open keeps the chunk when one byte is missing.
MustReplaceLate(t, n) == current[t] = NoChunk \/ FreeSize(current[t]) + 1 < n

-------------------------------------------------------------------------------
(* The life of a chunk. *)

\* The reference to c that some thread or some buffer gives up is the last one.
LastUse(c, holders, users) ==
    c # NoChunk /\ Holders(c) \subseteq holders /\ Users(c) \subseteq users

\* The deleter of the chunk, PushGlobal, if that reference is the last one.
Recycle(c, holders, users) ==
    pool' = IF LastUse(c, holders, users) THEN Append(pool, c) ELSE pool

\* The current chunk is null or too full.
MustReplace(t, n) == current[t] = NoChunk \/ FreeSize(current[t]) < n

\* _usedSize after Close.
UsedAfter(c, n) == usedSize[c] + n

-------------------------------------------------------------------------------
(* MakeSendBuffer and the last reference to a buffer. *)

\* SendBufferManager::Open is called: the tests of 58 to 67.
OpenBegin(t, n) ==
    /\ At(t, "idle")
    /\ IF current[t] # NoChunk /\ open[current[t]]
       THEN Crash("assert")
       ELSE /\ size' = [size EXCEPT ![t] = n]
            /\ Goto(t, IF MustReplace(t, n) THEN "pop" ELSE "open")
            /\ UNCHANGED <<chunkVars, region, current, popped, making, crash>>

\* Pop: the latest chunk of the pool, or a new one.
Pop(t) ==
    /\ At(t, "pop")
    /\ \E c \in Chunks :
           /\ IF pool # <<>>
              THEN c = Last(pool) /\ pool' = Front(pool) /\ UNCHANGED created
              ELSE c \notin created /\ created' = created \cup {c} /\ UNCHANGED pool
           /\ popped' = [popped EXCEPT ![t] = c]
    /\ Goto(t, "replace")
    /\ UNCHANGED <<open, usedSize, region, current, making, size, crash>>

\* The assignment to LSendBufferChunk gives up the old chunk; then Reset.  After the
\* first chunk of a thread the size is compared once more.
Replace(t) ==
    /\ At(t, "replace")
    /\ current' = [current EXCEPT ![t] = popped[t]]
    /\ popped' = [popped EXCEPT ![t] = NoChunk]
    /\ Recycle(current[t], {t}, {})
    /\ open' = [open EXCEPT ![popped[t]] = FALSE]
    /\ usedSize' = [usedSize EXCEPT ![popped[t]] = 0]
    /\ Goto(t, IF current[t] = NoChunk /\ ChunkSize < size[t] THEN "pop" ELSE "open")
    /\ UNCHANGED <<created, region, making, size, crash>>

\* SendBufferChunk::Open: two assertions, a null result, or a new buffer.
OpenChunk(t) ==
    /\ At(t, "open")
    /\ LET c == current[t] IN
       IF size[t] > ChunkSize \/ open[c] THEN Crash("assert")
       ELSE IF size[t] > FreeSize(c) THEN Crash("null")
       ELSE \E b \in Buffers :
           /\ region[b] = None
           /\ region' = [region EXCEPT ![b] =
                             [chunk |-> c, start |-> usedSize[c], size |-> size[t]]]
           /\ making' = [making EXCEPT ![t] = b]
           /\ open' = [open EXCEPT ![c] = TRUE]
           /\ Goto(t, "write")
           /\ UNCHANGED <<created, usedSize, pool, current, popped, size, crash>>

\* The packet is written, and SendBuffer::Close called with the same size.
WriteClose(t) ==
    /\ At(t, "write")
    /\ LET c == region[making[t]].chunk IN
       IF ~open[c] THEN Crash("assert")
       ELSE /\ open' = [open EXCEPT ![c] = FALSE]
            /\ usedSize' = [usedSize EXCEPT ![c] = UsedAfter(c, size[t])]
            /\ making' = [making EXCEPT ![t] = NoBuffer]
            /\ size' = [size EXCEPT ![t] = 0]
            /\ Goto(t, "idle")
            /\ UNCHANGED <<created, pool, region, current, popped, crash>>

\* Some thread drops the last reference to a finished buffer.
Destroy(b) ==
    /\ crash = "no" /\ region[b] # None
    /\ \A t \in Threads : making[t] # b
    /\ region' = [region EXCEPT ![b] = None]
    /\ Recycle(region[b].chunk, {}, {b})
    /\ UNCHANGED <<created, open, usedSize, current, popped, making, size, pc, crash>>

Step(t) == (\E n \in Sizes : OpenBegin(t, n)) \/ Pop(t) \/ Replace(t) \/ OpenChunk(t) \/ WriteClose(t)
Next == (\E t \in Threads : Step(t)) \/ (\E b \in Buffers : Destroy(b))

Spec == Init /\ [][Next]_vars

-------------------------------------------------------------------------------
(* Properties. *)

Overlap(r, s) == r.chunk = s.chunk /\ r.start < s.start + s.size /\ s.start < r.start + r.size

\* The bytes of a packet that somebody still refers to belong to no other packet and
\* lie inside a chunk, however often chunks go through the pool and to other threads.
Disjoint ==
    \A b \in Buffers : region[b] # None =>
        /\ region[b].start + region[b].size <= ChunkSize
        /\ \A d \in Buffers \ {b} : region[d] # None => ~Overlap(region[b], region[d])

\* A chunk is nowhere lost and nowhere twice: it is once in the pool while nobody
\* refers to it, otherwise not in the pool, and no two threads cut from it.
ChunkAccounted ==
    /\ TypeOK
    /\ IsInjective(pool)
    /\ \A c \in created :
           /\ c \in Range(pool) <=> Holders(c) = {} /\ Users(c) = {}
           /\ Cardinality(Holders(c)) <= 1

\* No assertion of Open and Close fails and Open returns no null, but for a packet
\* larger than a chunk.
AssertionsHold == crash # "no" =>
    crash = "assert" /\ \E t \in Threads : pc[t] = "open" /\ size[t] > ChunkSize

=================================================================================
