SPECIFICATION Spec
CONSTANTS
    Threads = {t1, t2}
    Chunks = {c1, c2, c3, c4}
    NoChunk = NoChunk
    Buffers = {b1, b2, b3}
    NoBuffer = NoBuffer
    ChunkSize = 5
    Sizes = {2, 3, 6}
SYMMETRY Symmetry
INVARIANTS Disjoint ChunkAccounted AssertionsHold
CHECK_DEADLOCK FALSE
