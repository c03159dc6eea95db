--------------------------------- MODULE Framing ---------------------------------
(***************************************************************************)
(* The receive side of a PacketSession: RecvBuffer (ServerCore/RecvBuffer),  *)
(* Session::RegisterRecv and ProcessRecv, and the loop of                    *)
(* PacketSession::OnRecv that cuts the byte stream into packets.  The peer   *)
(* sends well-formed packets; TCP hands them over in pieces of any length.   *)
(* A byte is named by its place in the stream, so the buffer's contents,     *)
(* stale ones included, can be told apart.                                   *)
(***************************************************************************)
EXTENDS Integers, Sequences, FiniteSets

CONSTANTS
    HeaderSize,     \* sizeof(PacketHeader)
    BufferSize,     \* Session::BUFFER_SIZE
    BufferCount,    \* RecvBuffer::BUFFER_COUNT
    StreamLength    \* bound: the bytes the peer sends

ASSUME SizesAssumption == HeaderSize \in Nat \ {0} /\ BufferSize \in Nat /\ HeaderSize <= BufferSize
ASSUME CountAssumption == BufferCount \in Nat /\ BufferCount >= 3
ASSUME StreamAssumption == StreamLength \in Nat

VARIABLES
    bounds,         \* the places in the stream where a packet ends
    arrived,        \* how many bytes of the stream the kernel has handed over
    buffer,         \* _buffer: the byte at each position, or Junk
    readPos,        \* _readPos
    writePos,       \* _writePos
    pc,             \* "recv": a receive is registered; "parse": in OnRecv; "closed"
    processLen,     \* the local variable of OnRecv
    delivered       \* history: the packets handed to OnRecvPacket, as byte sequences

vars == <<bounds, arrived, buffer, readPos, writePos, pc, processLen, delivered>>

-------------------------------------------------------------------------------

Junk == -1
Capacity == BufferSize * BufferCount
Bytes == 0 .. StreamLength - 1

\* The packet that starts at place n of the stream ends at e.
EndsAt(n, e) == e \in bounds /\ e > n /\ \A f \in bounds : f > n => e <= f

\* What the header says of a packet that starts at place n of the stream.
SizeAt(n) == (CHOOSE e \in bounds : EndsAt(n, e)) - n

\* Packets hold their header, and fit into one buffer as their size has 16 bits.
WellFormed ==
    /\ bounds \subseteq 1 .. StreamLength
    /\ StreamLength \in bounds \cup {0}
    /\ \A n \in {0} \cup bounds : n < StreamLength =>
           \E size \in HeaderSize .. BufferSize : EndsAt(n, n + size)

\* The values of the variables.
TypeOK ==
    /\ WellFormed
    /\ arrived \in 0 .. StreamLength
    /\ buffer \in [0 .. Capacity - 1 -> Bytes \cup {Junk}]
    /\ readPos \in 0 .. Capacity /\ writePos \in readPos .. Capacity
    /\ pc \in {"recv", "parse", "closed"}
    /\ processLen \in 0 .. writePos - readPos
    /\ delivered \in Seq(Seq(Bytes))

Init ==
    /\ bounds \in SUBSET (1 .. StreamLength) /\ WellFormed
    /\ arrived = 0
    /\ buffer = [i \in 0 .. Capacity - 1 |-> Junk]
    /\ readPos = 0 /\ writePos = 0
    /\ pc = "recv" /\ processLen = 0
    /\ delivered = <<>>

DataSize == writePos - readPos
FreeSize == Capacity - writePos

-------------------------------------------------------------------------------
(* Faulty variants of the definitions below, used to test the properties. *)

\* OnRead forgets what the loop has consumed before the last packet.
ConsumedLast ==
    IF processLen = 0 THEN 0 ELSE Len(delivered[Len(delivered)])

\* Clean moves the data only when nothing is free.
FullEnough(read) == FreeSize = 0

\* Clean sets the cursors and moves no data.
MovedNot(from, size) == buffer

\* The loop wants one byte more than the packet has.
FitsStrictly(size) == size < DataSize - processLen

-------------------------------------------------------------------------------
(* RecvBuffer::Clean *)

\* memcpy: with overlapping source and destination the copy is undefined.
Moved(from, size) ==
    [i \in DOMAIN buffer |->
        IF i >= size THEN buffer[i] ELSE IF from < size THEN Junk ELSE buffer[from + i]]

\* The free space at the end is less than one buffer.
MustMove(read) == FreeSize < BufferSize

Clean(read) ==
    IF read = writePos
    THEN readPos' = 0 /\ writePos' = 0 /\ UNCHANGED buffer
    ELSE IF MustMove(read)
    THEN /\ readPos' = 0 /\ writePos' = writePos - read
         /\ buffer' = Moved(read, writePos - read)
    ELSE readPos' = read /\ UNCHANGED <<writePos, buffer>>

-------------------------------------------------------------------------------
(* The handler of a completed receive. *)

\* n bytes arrive: at most FreeSize, the length RegisterRecv gave to WSARecv, so
\* that OnWrite accepts them.
Receive(n) ==
    /\ pc = "recv" /\ n <= FreeSize /\ n <= StreamLength - arrived
    /\ buffer' = [i \in DOMAIN buffer |->
           IF i \in writePos .. writePos + n - 1 THEN arrived + i - writePos ELSE buffer[i]]
    /\ writePos' = writePos + n
    /\ arrived' = arrived + n
    /\ pc' = "parse" /\ processLen' = 0
    /\ UNCHANGED <<bounds, readPos, delivered>>

\* A receive of no bytes: the peer has closed, or the buffer offered was empty.
ReceiveNothing ==
    /\ pc = "recv"
    /\ pc' = "closed"
    /\ UNCHANGED <<bounds, arrived, buffer, readPos, writePos, processLen, delivered>>

\* What header.size reads at a position: anything, if no header is there.
HeaderSizes(p) ==
    IF /\ buffer[p] \in ({0} \cup bounds) \ {StreamLength}
       /\ \A i \in 0 .. HeaderSize - 1 : buffer[p + i] = buffer[p] + i
    THEN {SizeAt(buffer[p])} ELSE 0 .. BufferSize

\* The rest of the data holds a packet of that size.
Fits(size) == size <= DataSize - processLen

\* One turn of the loop: OnRecvPacket is called.
ParsePacket ==
    /\ pc = "parse" /\ HeaderSize <= DataSize - processLen
    /\ \E size \in HeaderSizes(readPos + processLen) :
           /\ Fits(size)
           /\ delivered' = Append(delivered,
                  [i \in 1 .. size |-> buffer[readPos + processLen + i - 1]])
           /\ processLen' = processLen + size
    /\ UNCHANGED <<bounds, arrived, buffer, readPos, writePos, pc>>

\* The bytes OnRecv reports as processed.
Consumed == processLen

\* The loop ends; OnRead, Clean and RegisterRecv follow.
ParseEnd ==
    /\ pc = "parse"
    /\ \/ DataSize - processLen < HeaderSize
       \/ /\ HeaderSize <= DataSize - processLen
          /\ \E size \in HeaderSizes(readPos + processLen) : ~Fits(size)
    /\ IF Consumed > DataSize
       THEN pc' = "closed" /\ UNCHANGED <<buffer, readPos, writePos>>
       ELSE pc' = "recv" /\ Clean(readPos + Consumed)
    /\ processLen' = 0
    /\ UNCHANGED <<bounds, arrived, delivered>>

Next == (\E n \in 1 .. Capacity : Receive(n)) \/ ReceiveNothing \/ ParsePacket \/ ParseEnd

Spec == Init /\ [][Next]_vars

\* The handler runs, and the bytes of the stream keep coming while the peer lives.
FairSpec == Spec /\ WF_vars(ParsePacket \/ ParseEnd) /\ WF_vars(\E n \in 1 .. Capacity : Receive(n))

-------------------------------------------------------------------------------
(* Properties. *)

\* However the stream is cut, OnRecvPacket gets the packets of the peer, whole and
\* one after the other: a packet starts where the one before ended and ends at its
\* own bound, and every byte in it is the byte of the stream.
InOrder ==
    \A k \in DOMAIN delivered :
        LET first == IF k = 1 THEN 0 ELSE delivered[k - 1][Len(delivered[k - 1])] + 1
        IN  /\ \A i \in DOMAIN delivered[k] : delivered[k][i] = first + i - 1
            /\ Len(delivered[k]) = SizeAt(first)

\* Between two receives the buffer holds exactly the bytes that have arrived and are
\* in no delivered packet, in order, and they are less than a packet.
NothingLost ==
    /\ TypeOK
    /\ pc = "recv" =>
           LET next == IF delivered = <<>> THEN 0
                       ELSE LET p == delivered[Len(delivered)] IN p[Len(p)] + 1
           IN  /\ arrived = next + DataSize
               /\ \A i \in 0 .. DataSize - 1 : buffer[readPos + i] = next + i
               /\ next < StreamLength => DataSize < SizeAt(next)

\* Each WSARecv is offered at least one buffer, so that a packet of any size can be
\* completed and no receive of length zero is taken for the peer's close.
RoomForReceive == pc = "recv" => FreeSize >= BufferSize

\* Unless the connection ends, every packet of the peer is delivered at last.
EveryPacketDelivered == <>(pc = "closed" \/ Len(delivered) = Cardinality(bounds))

===============================================================================
