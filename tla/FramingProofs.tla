----------------------------- MODULE FramingProofs -----------------------------
(***************************************************************************)
(* Proofs about Framing for any header and buffer size, any stream of        *)
(* well-formed packets, and any way in which it is cut.                      *)
(***************************************************************************)
EXTENDS Framing, SequenceTheorems, TLAPS

-------------------------------------------------------------------------------
(* The inductive invariant *)

\* The place in the stream after the last packet that was delivered.
Upto ==
    IF delivered = <<>> THEN 0
    ELSE LET p == delivered[Len(delivered)] IN p[Len(p)] + 1

\* What is in the buffer and not yet processed, also in the middle of OnRecv: the bytes
\* from that place up to the last that has arrived.
Rest == DataSize - processLen
Contents ==
    /\ Upto \in {0} \cup bounds
    /\ arrived = Upto + Rest
    /\ \A i \in readPos + processLen .. writePos - 1 :
           buffer[i] = Upto + (i - (readPos + processLen))

\* Between two receives nothing is processed and less than a packet is left.
Waiting ==
    pc # "parse" =>
        /\ processLen = 0
        /\ \A size \in Nat : EndsAt(Upto, Upto + size) => DataSize < size

\* The k-th packet delivered begins where the one before it has ended, and q is the
\* packet that begins at place n when packets end at the places in B.
First(k) == IF k = 1 THEN 0 ELSE delivered[k - 1][Len(delivered[k - 1])] + 1
PacketIn(B, q, n) ==
    /\ \A i \in DOMAIN q : q[i] = n + i - 1
    /\ Len(q) = (CHOOSE e \in B : e \in B /\ e > n /\ \A f \in B : f > n => e <= f) - n
Whole(k) == PacketIn(bounds, delivered[k], First(k))

\* What every reachable state has: the conjuncts need one another to be preserved.
IInv ==
    /\ TypeOK
    /\ Contents
    /\ Waiting
    /\ RoomForReceive
    /\ InOrder

-------------------------------------------------------------------------------
(* The packets of the peer, and the sizes *)

\* The constants are natural numbers, and the buffer holds three packets at least.
LEMMA Sizes ==
    /\ HeaderSize \in Nat \ {0} /\ BufferSize \in Nat /\ HeaderSize <= BufferSize
    /\ StreamLength \in Nat
    /\ Capacity \in Nat /\ Capacity >= 3 * BufferSize
<1>1. BufferCount \in Nat /\ BufferCount >= 3 /\ BufferSize \in Nat
  BY SizesAssumption, CountAssumption
<1>2. \A m, n \in Nat : m * n \in Nat /\ m * (n + 3) = m * n + 3 * m
  OBVIOUS
<1>3. BufferCount - 3 \in Nat /\ BufferCount = (BufferCount - 3) + 3
  BY <1>1
<1>4. Capacity = BufferSize * (BufferCount - 3) + 3 * BufferSize
  BY <1>1, <1>2, <1>3 DEF Capacity
<1>5. BufferSize * (BufferCount - 3) \in Nat
  BY <1>1, <1>2, <1>3
<1>6. QED
  BY <1>1, <1>4, <1>5, SizesAssumption, StreamAssumption

\* Where a packet ends is unique, so the header says it.
LEMMA EndUnique ==
    ASSUME bounds \subseteq 1 .. StreamLength, NEW n \in Nat, NEW e, EndsAt(n, e)
    PROVE  e \in Nat /\ SizeAt(n) = e - n
<1>1. e \in bounds /\ bounds \subseteq Nat
  BY StreamAssumption DEF EndsAt
<1>2. \A f \in bounds : EndsAt(n, f) => f = e
  BY <1>1 DEF EndsAt
<1>3. (CHOOSE f \in bounds : EndsAt(n, f)) = e
  BY <1>1, <1>2
<1>4. QED
  BY <1>1, <1>3 DEF SizeAt

\* The packet that begins where another has ended has a size, with room for a header
\* and not above that of a buffer.
LEMMA PacketSize ==
    ASSUME WellFormed, NEW n \in {0} \cup bounds, n < StreamLength
    PROVE  /\ n \in Nat /\ n \in 0 .. StreamLength
           /\ SizeAt(n) \in Nat /\ SizeAt(n) \in HeaderSize .. BufferSize
           /\ EndsAt(n, n + SizeAt(n))
<1>1. bounds \subseteq 1 .. StreamLength /\ n \in Nat /\ n \in 0 .. StreamLength
  BY Sizes DEF WellFormed
<1>2. PICK size \in HeaderSize .. BufferSize : EndsAt(n, n + size)
  BY DEF WellFormed
<1>3. SizeAt(n) = (n + size) - n
  BY <1>1, <1>2, EndUnique
<1>4. SizeAt(n) = size /\ size \in Nat
  BY <1>1, <1>2, <1>3, Sizes
<1>5. QED
  BY <1>1, <1>2, <1>4

\* Delivered in order is delivered whole, packet by packet.
LEMMA InOrderWhole == InOrder <=> \A k \in DOMAIN delivered : Whole(k)
BY DEF InOrder, Whole, PacketIn, First, SizeAt, EndsAt

\* A step that delivers nothing leaves the order as it is.
LEMMA OrderKept ==
    ASSUME InOrder, UNCHANGED <<bounds, delivered>>
    PROVE  InOrder'
<1>1. \A k \in DOMAIN delivered : Whole(k)
  BY InOrderWhole
<1>2. ASSUME NEW k \in DOMAIN delivered'
      PROVE  Whole(k)'
  <2>1. First(k)' = First(k)
    BY DEF First
  <2>2. QED
    BY <1>1, <2>1 DEF Whole
<1>3. (InOrder <=> \A k \in DOMAIN delivered : Whole(k))'
  BY InOrderWhole, PTL
<1>4. QED
  BY <1>2, <1>3

\* The places and lengths of the buffer are natural numbers.
LEMMA Places ==
    ASSUME TypeOK
    PROVE  /\ readPos \in Nat /\ writePos \in Nat /\ processLen \in Nat /\ arrived \in Nat
           /\ readPos + processLen <= writePos /\ writePos <= Capacity
           /\ arrived <= StreamLength
           /\ DataSize = writePos - readPos /\ FreeSize = Capacity - writePos
           /\ Rest = writePos - (readPos + processLen) /\ Rest \in Nat
           /\ DOMAIN buffer = 0 .. Capacity - 1
           /\ Upto \in {0} \cup bounds => Upto \in Nat
<1>1. /\ readPos \in 0 .. Capacity /\ writePos \in readPos .. Capacity
      /\ processLen \in 0 .. writePos - readPos /\ arrived \in 0 .. StreamLength
      /\ DOMAIN buffer = 0 .. Capacity - 1 /\ bounds \subseteq 1 .. StreamLength
  BY DEF TypeOK, WellFormed
<1>2. Upto \in {0} \cup bounds => Upto \in Nat
  BY <1>1, Sizes
<1>3. QED
  BY <1>1, <1>2, Sizes DEF DataSize, FreeSize, Rest

\* With the header in the buffer, header.size reads the size of the packet.
LEMMA HeaderRead ==
    ASSUME IInv, HeaderSize <= Rest
    PROVE  /\ Upto < StreamLength
           /\ HeaderSizes(readPos + processLen) = {SizeAt(Upto)}
<1> DEFINE p == readPos + processLen
<1>1. /\ Upto \in {0} \cup bounds /\ Upto \in Nat /\ arrived = Upto + Rest
      /\ \A i \in p .. writePos - 1 : buffer[i] = Upto + (i - p)
      /\ p \in Nat /\ Rest \in Nat /\ Rest = writePos - p /\ arrived <= StreamLength
      /\ writePos \in Nat
  BY Places DEF IInv, Contents
<1>2. Upto < StreamLength
  BY <1>1, Sizes
<1> HIDE DEF p
<1>3. \A i \in 0 .. HeaderSize - 1 : buffer[p + i] = Upto + i
  <2>1. ASSUME NEW i \in 0 .. HeaderSize - 1
        PROVE  buffer[p + i] = Upto + i
    <3>1. p + i \in p .. writePos - 1 /\ (p + i) - p = i
      BY <1>1, Sizes
    <3>2. QED
      BY <1>1, <3>1
  <2>2. QED
    BY <2>1
<1>4. buffer[p] = Upto
  <2>1. 0 \in 0 .. HeaderSize - 1 /\ p + 0 = p /\ Upto + 0 = Upto
    BY <1>1, Sizes
  <2>2. QED
    BY <1>3, <2>1
<1>5. Upto \in ({0} \cup bounds) \ {StreamLength}
  BY <1>1, <1>2, Sizes
<1>6. QED
  BY <1>2, <1>3, <1>4, <1>5 DEF HeaderSizes, p

-------------------------------------------------------------------------------
(* Every step keeps the invariant *)

\* A connection begins with an empty buffer.
LEMMA InitInv == Init => IInv
<1> SUFFICES ASSUME Init
             PROVE  IInv
  OBVIOUS
<1>1. /\ WellFormed /\ arrived = 0 /\ readPos = 0 /\ writePos = 0 /\ pc = "recv"
      /\ processLen = 0 /\ delivered = <<>>
      /\ buffer \in [0 .. Capacity - 1 -> Bytes \cup {Junk}]
  BY DEF Init
<1>2. delivered \in Seq(Seq(Bytes)) /\ DOMAIN delivered = {}
  BY <1>1, EmptySeq
<1>3. TypeOK
  BY <1>1, <1>2, Sizes DEF TypeOK
<1>4. Contents
  BY <1>1 DEF Contents, Upto, Rest, DataSize
<1>5. Waiting
  BY <1>1 DEF Waiting, Upto, DataSize, EndsAt
<1>6. RoomForReceive /\ InOrder
  BY <1>1, <1>2, Sizes DEF RoomForReceive, InOrder, FreeSize
<1>7. QED
  BY <1>3, <1>4, <1>5, <1>6 DEF IInv

\* The bytes that arrive follow those that are in the buffer.
LEMMA ReceiveInv ==
    ASSUME IInv, NEW n \in 1 .. Capacity, Receive(n)
    PROVE  IInv'
<1>1. /\ TypeOK /\ Contents /\ Waiting /\ RoomForReceive /\ InOrder
  BY DEF IInv
<1>2. /\ pc = "recv" /\ n <= FreeSize /\ n <= StreamLength - arrived
      /\ writePos' = writePos + n /\ arrived' = arrived + n
      /\ pc' = "parse" /\ processLen' = 0
      /\ UNCHANGED <<bounds, readPos, delivered>>
      /\ buffer' = [i \in DOMAIN buffer |->
             IF i \in writePos .. writePos + n - 1 THEN arrived + i - writePos ELSE buffer[i]]
  BY DEF Receive
<1>3. /\ readPos \in Nat /\ writePos \in Nat /\ arrived \in Nat /\ n \in Nat /\ n > 0
      /\ readPos <= writePos /\ writePos + n <= Capacity /\ arrived + n <= StreamLength
      /\ processLen = 0 /\ arrived = Upto + (writePos - readPos) /\ Upto \in Nat
      /\ Upto \in {0} \cup bounds
      /\ DOMAIN buffer = 0 .. Capacity - 1
      /\ Capacity \in Nat /\ StreamLength \in Nat
  <2>1. processLen = 0 /\ Upto \in {0} \cup bounds /\ arrived = Upto + Rest
    BY <1>1, <1>2 DEF Waiting, Contents
  <2>2. /\ readPos \in Nat /\ writePos \in Nat /\ arrived \in Nat /\ Upto \in Nat
        /\ Rest = writePos - (readPos + processLen) /\ FreeSize = Capacity - writePos
        /\ readPos + processLen <= writePos /\ DOMAIN buffer = 0 .. Capacity - 1
    BY <1>1, <2>1, Places
  <2>3. QED
    BY <1>2, <2>1, <2>2, Sizes
<1>4. Upto' = Upto
  BY <1>2 DEF Upto
<1>5. TypeOK'
  <2>1. \A i \in 0 .. Capacity - 1 : buffer'[i] \in Bytes \cup {Junk}
    <3>1. ASSUME NEW i \in 0 .. Capacity - 1
          PROVE  buffer'[i] \in Bytes \cup {Junk}
      <4>1. buffer[i] \in Bytes \cup {Junk}
        BY <1>1 DEF TypeOK
      <4>2. CASE i \in writePos .. writePos + n - 1
        <5>1. buffer'[i] = arrived + i - writePos
          BY <1>2, <1>3, <4>2
        <5>2. arrived + i - writePos \in 0 .. StreamLength - 1
          BY <1>3, <4>2
        <5>3. QED
          BY <5>1, <5>2 DEF Bytes
      <4>3. CASE i \notin writePos .. writePos + n - 1
        BY <1>2, <1>3, <4>1, <4>3
      <4>4. QED
        BY <4>2, <4>3
    <3>2. QED
      BY <3>1
  <2>2. buffer' \in [0 .. Capacity - 1 -> Bytes \cup {Junk}]
    BY <1>2, <1>3, <2>1
  <2>3. WellFormed'
    BY <1>1, <1>2 DEF TypeOK, WellFormed, EndsAt
  <2>4. /\ arrived' \in 0 .. StreamLength /\ readPos' \in 0 .. Capacity
        /\ writePos' \in readPos' .. Capacity /\ processLen' \in 0 .. writePos' - readPos'
    BY <1>2, <1>3
  <2>5. pc' \in {"recv", "parse", "closed"} /\ delivered' \in Seq(Seq(Bytes))
    BY <1>1, <1>2 DEF TypeOK
  <2>6. QED
    BY <2>2, <2>3, <2>4, <2>5 DEF TypeOK
<1>6. Contents'
  <2>1. ASSUME NEW i \in readPos .. writePos + n - 1
        PROVE  buffer'[i] = Upto + (i - readPos)
    <3>1. i \in 0 .. Capacity - 1
      BY <1>3
    <3>2. CASE i \in writePos .. writePos + n - 1
      <4>1. buffer'[i] = arrived + i - writePos
        BY <1>2, <1>3, <3>1, <3>2
      <4>2. QED
        BY <1>3, <3>2, <4>1
    <3>3. CASE i \notin writePos .. writePos + n - 1
      <4>1. i \in readPos + processLen .. writePos - 1 /\ i - (readPos + processLen) = i - readPos
        BY <1>3, <3>3
      <4>2. buffer[i] = Upto + (i - readPos)
        BY <1>1, <4>1 DEF Contents
      <4>3. QED
        BY <1>2, <1>3, <3>1, <3>3, <4>2
    <3>4. QED
      BY <3>2, <3>3
  <2>2. /\ readPos' + processLen' = readPos /\ writePos' = writePos + n
        /\ Rest' = writePos + n - readPos /\ arrived' = Upto + (writePos + n - readPos)
    BY <1>2, <1>3 DEF Rest, DataSize
  <2>3. \A i \in readPos' + processLen' .. writePos' - 1 :
            buffer'[i] = Upto' + (i - (readPos' + processLen'))
    <3>1. readPos' + processLen' = readPos /\ writePos' - 1 = writePos + n - 1
      BY <1>3, <2>2
    <3>2. QED
      BY <1>4, <2>1, <3>1
  <2>4. QED
    BY <1>2, <1>3, <1>4, <2>2, <2>3 DEF Contents
<1>7. Waiting' /\ RoomForReceive' /\ InOrder'
  BY <1>1, <1>2, OrderKept DEF Waiting, RoomForReceive
<1>8. QED
  BY <1>5, <1>6, <1>7 DEF IInv

\* When a connection ends, everything stays as it is.
LEMMA ReceiveNothingInv ==
    ASSUME IInv, ReceiveNothing
    PROVE  IInv'
<1> USE DEF IInv, ReceiveNothing
<1>1. TypeOK'
  BY DEF TypeOK, WellFormed, EndsAt
<1>2. Contents' /\ Waiting'
  BY DEF Contents, Waiting, Upto, Rest, DataSize, EndsAt
<1>3. RoomForReceive' /\ InOrder'
  BY OrderKept DEF RoomForReceive
<1>4. QED
  BY <1>1, <1>2, <1>3

\* One turn of the loop delivers exactly the next packet of the peer.
LEMMA ParsePacketInv ==
    ASSUME IInv, ParsePacket
    PROVE  IInv'
<1> DEFINE p == readPos + processLen
           z == SizeAt(Upto)
           packet == [i \in 1 .. z |-> buffer[p + i - 1]]
<1>1. /\ TypeOK /\ Contents /\ Waiting /\ RoomForReceive /\ InOrder
  BY DEF IInv
<1>2. /\ pc = "parse" /\ HeaderSize <= Rest
      /\ UNCHANGED <<bounds, arrived, buffer, readPos, writePos, pc>>
  BY DEF ParsePacket, Rest
<1>3. Upto < StreamLength /\ HeaderSizes(p) = {z}
  BY <1>2, HeaderRead
<1>4. z <= Rest /\ delivered' = Append(delivered, packet) /\ processLen' = processLen + z
  BY <1>3 DEF ParsePacket, Fits, Rest
<1>5. /\ Upto \in {0} \cup bounds /\ Upto \in Nat /\ arrived = Upto + Rest
      /\ readPos \in Nat /\ writePos \in Nat /\ processLen \in Nat /\ Rest \in Nat
      /\ Rest = writePos - p /\ p \in Nat /\ p = readPos + processLen
      /\ arrived \in Nat /\ arrived <= StreamLength /\ StreamLength \in Nat
      /\ \A i \in p .. writePos - 1 : buffer[i] = Upto + (i - p)
  BY <1>1, Places, Sizes DEF Contents
<1>6. z \in Nat /\ z > 0 /\ Upto + z \in bounds
  BY <1>1, <1>3, <1>5, PacketSize, Sizes DEF TypeOK, EndsAt
<1>7. packet \in Seq(Bytes) /\ Len(packet) = z /\ DOMAIN packet = 1 .. z
      /\ \A i \in 1 .. z : packet[i] = Upto + i - 1
  <2> HIDE DEF z, p
  <2>1. ASSUME NEW i \in 1 .. z
        PROVE  buffer[p + i - 1] = Upto + i - 1 /\ Upto + i - 1 \in Bytes
    <3>1. p + i - 1 \in p .. writePos - 1 /\ (p + i - 1) - p = i - 1
      BY <1>4, <1>5, <1>6
    <3>2. buffer[p + i - 1] = Upto + (i - 1)
      BY <1>5, <3>1
    <3>3. QED
      BY <1>4, <1>5, <1>6, <3>2 DEF Bytes
  <2>2. \A i \in 1 .. z : packet[i] = Upto + i - 1 /\ packet[i] \in Bytes
    BY <2>1
  <2>3. packet \in Seq(Bytes) /\ Len(packet) = z
    <3>1. packet \in [1 .. z -> Bytes]
      BY <2>1
    <3>2. QED
      BY <1>6, <3>1, IsASeq, LenProperties
  <2>4. QED
    BY <2>2, <2>3
<1>8. /\ delivered' \in Seq(Seq(Bytes)) /\ Len(delivered') = Len(delivered) + 1
      /\ delivered'[Len(delivered) + 1] = packet /\ delivered' # <<>>
      /\ \A k \in 1 .. Len(delivered) : delivered'[k] = delivered[k]
      /\ Len(delivered) \in Nat
      /\ DOMAIN delivered = 1 .. Len(delivered) /\ DOMAIN delivered' = 1 .. Len(delivered) + 1
  <2> HIDE DEF packet
  <2>1. delivered \in Seq(Seq(Bytes))
    BY <1>1 DEF TypeOK
  <2>2. /\ delivered' \in Seq(Seq(Bytes)) /\ Len(delivered') = Len(delivered) + 1
        /\ delivered'[Len(delivered) + 1] = packet
        /\ \A k \in 1 .. Len(delivered) : delivered'[k] = delivered[k]
    BY <1>4, <1>7, <2>1, AppendProperties
  <2>3. Len(delivered) \in Nat /\ DOMAIN delivered = 1 .. Len(delivered)
    BY <2>1, LenProperties
  <2>4. DOMAIN delivered' = 1 .. Len(delivered) + 1
    BY <2>2, LenProperties
  <2>5. delivered' # <<>>
    BY <2>2, <2>3, <2>4, EmptySeq
  <2>6. QED
    BY <2>2, <2>3, <2>4, <2>5
<1> HIDE DEF p, z, packet
<1>9. Upto' = Upto + z
  <2>1. Upto' = packet[z] + 1
    BY <1>7, <1>8 DEF Upto
  <2>2. packet[z] = Upto + z - 1
    BY <1>6, <1>7
  <2>3. QED
    BY <1>5, <1>6, <2>1, <2>2
<1>10. TypeOK'
  <2>1. WellFormed'
    BY <1>1, <1>2 DEF TypeOK, WellFormed, EndsAt
  <2>2. processLen' \in 0 .. writePos' - readPos'
    BY <1>2, <1>4, <1>5, <1>6
  <2>3. QED
    BY <1>1, <1>2, <1>8, <2>1, <2>2 DEF TypeOK
<1>11. Contents'
  <2>1. readPos' + processLen' = p + z /\ writePos' = writePos
    BY <1>2, <1>4, <1>5, <1>6
  <2>2. Rest' = Rest - z
    BY <1>2, <1>4, <1>5, <1>6 DEF Rest, DataSize
  <2>3. ASSUME NEW i \in p + z .. writePos - 1
        PROVE  buffer[i] = Upto + z + (i - (p + z))
    <3>1. i \in p .. writePos - 1
      BY <1>5, <1>6
    <3>2. buffer[i] = Upto + (i - p)
      BY <1>5, <3>1
    <3>3. QED
      BY <1>5, <1>6, <3>2
  <2>4. arrived' = Upto' + Rest'
    BY <1>2, <1>5, <1>6, <1>9, <2>2
  <2>5. \A i \in readPos' + processLen' .. writePos' - 1 :
            buffer'[i] = Upto' + (i - (readPos' + processLen'))
    BY <1>2, <1>9, <2>1, <2>3
  <2>6. Upto' \in {0} \cup bounds'
    BY <1>2, <1>6, <1>9
  <2>7. QED
    BY <2>4, <2>5, <2>6 DEF Contents
<1>12. Waiting' /\ RoomForReceive'
  BY <1>2 DEF Waiting, RoomForReceive
<1>13. InOrder'
  <2>1. PacketIn(bounds, packet, Upto)
    BY <1>7 DEF PacketIn, SizeAt, EndsAt, z
  <2>2. ASSUME NEW k \in 1 .. Len(delivered)
        PROVE  Whole(k)'
    <3>1. Whole(k)
      BY <1>1, <1>8, InOrderWhole
    <3>2. k # 1 => k - 1 \in 1 .. Len(delivered)
      BY <1>8
    <3>3. delivered'[k] = delivered[k] /\ First(k)' = First(k)
      BY <1>8, <3>2 DEF First
    <3>4. QED
      BY <1>2, <3>1, <3>3 DEF Whole
  <2>3. ASSUME NEW k \in Nat, k = Len(delivered) + 1
        PROVE  Whole(k)'
    <3>1. First(k)' = Upto
      <4>1. CASE Len(delivered) = 0
        <5>1. delivered = <<>>
          BY <1>1, <4>1, EmptySeq, LenProperties DEF TypeOK
        <5>2. QED
          BY <2>3, <4>1, <5>1 DEF Upto, First
      <4>2. CASE Len(delivered) # 0
        <5>1. delivered # <<>>
          BY <4>2
        <5>2. Upto = delivered[Len(delivered)][Len(delivered[Len(delivered)])] + 1
          BY <5>1 DEF Upto
        <5>3. /\ k - 1 = Len(delivered) /\ k # 1
              /\ delivered'[k - 1] = delivered[k - 1]
          BY <1>8, <2>3, <4>2
        <5>4. QED
          BY <5>2, <5>3 DEF First
      <4>3. QED
        BY <4>1, <4>2
    <3>2. QED
      BY <1>2, <1>8, <2>1, <2>3, <3>1 DEF Whole
  <2>4. \A k \in DOMAIN delivered' : Whole(k)'
    <3>1. ASSUME NEW k \in DOMAIN delivered'
          PROVE  Whole(k)'
      <4>1. k \in Nat /\ (k \in 1 .. Len(delivered) \/ k = Len(delivered) + 1)
        BY <1>8
      <4>2. QED
        BY <2>2, <2>3, <4>1
    <3>2. QED
      BY <3>1
  <2>5. (InOrder <=> \A k \in DOMAIN delivered : Whole(k))'
    BY InOrderWhole, PTL
  <2>6. QED
    BY <2>4, <2>5
<1>14. QED
  BY <1>10, <1>11, <1>12, <1>13 DEF IInv
\* When the loop ends less than the next packet is left, and less than a buffer.
LEMMA LoopEnds ==
    ASSUME IInv, ParseEnd
    PROVE  /\ Rest < BufferSize
           /\ \A size \in Nat : EndsAt(Upto, Upto + size) => Rest < size
<1>1. /\ TypeOK /\ Contents /\ Rest \in Nat /\ Upto \in {0} \cup bounds /\ Upto \in Nat
      /\ WellFormed /\ bounds \subseteq 1 .. StreamLength
  BY Places DEF IInv, Contents, TypeOK, WellFormed
<1>2. ASSUME NEW size \in Nat, EndsAt(Upto, Upto + size)
      PROVE  Upto < StreamLength /\ SizeAt(Upto) = size /\ size \in HeaderSize .. BufferSize
  <2>1. Upto < StreamLength
    BY <1>1, <1>2, Sizes DEF EndsAt
  <2>2. SizeAt(Upto) = (Upto + size) - Upto
    BY <1>1, <1>2, EndUnique
  <2>3. SizeAt(Upto) = size
    BY <1>1, <2>2
  <2>4. QED
    BY <1>1, <2>1, <2>3, PacketSize
<1>3. CASE Rest < HeaderSize
  BY <1>1, <1>2, <1>3, Sizes
<1>4. CASE HeaderSize <= Rest
  <2>1. Upto < StreamLength /\ HeaderSizes(readPos + processLen) = {SizeAt(Upto)}
    BY <1>4, HeaderRead
  <2>2. ~Fits(SizeAt(Upto))
    BY <1>1, <1>4, <2>1, Sizes DEF ParseEnd, Rest
  <2>3. SizeAt(Upto) \in Nat /\ SizeAt(Upto) <= BufferSize /\ BufferSize \in Nat
    BY <1>1, <2>1, PacketSize, Sizes
  <2>4. Rest < SizeAt(Upto)
    BY <1>1, <2>2, <2>3 DEF Fits, Rest
  <2>5. QED
    BY <1>1, <1>2, <2>3, <2>4
<1>5. QED
  BY <1>1, <1>3, <1>4, Sizes

\* RecvBuffer::Clean keeps what is left, in order, and leaves room for a buffer; the
\* copy never overlaps itself.
LEMMA Cleaned ==
    ASSUME IInv, Clean(readPos + processLen), Rest < BufferSize
    PROVE  /\ readPos' \in Nat /\ writePos' \in Nat /\ readPos' <= writePos'
           /\ writePos' <= Capacity /\ writePos' = readPos' + Rest
           /\ Capacity - writePos' >= BufferSize
           /\ buffer' \in [0 .. Capacity - 1 -> Bytes \cup {Junk}]
           /\ \A i \in readPos' .. writePos' - 1 : buffer'[i] = Upto + (i - readPos')
<1> DEFINE p == readPos + processLen
<1>1. /\ TypeOK /\ Contents /\ readPos \in Nat /\ writePos \in Nat /\ p \in Nat
      /\ p <= writePos /\ writePos <= Capacity /\ Rest = writePos - p /\ Rest \in Nat
      /\ FreeSize = Capacity - writePos /\ Upto \in Nat
      /\ DOMAIN buffer = 0 .. Capacity - 1
      /\ buffer \in [0 .. Capacity - 1 -> Bytes \cup {Junk}]
      /\ \A i \in p .. writePos - 1 : buffer[i] = Upto + (i - p)
  BY Places DEF IInv, Contents, TypeOK
<1>2. /\ BufferSize \in Nat /\ Capacity \in Nat /\ Capacity >= 3 * BufferSize
  BY Sizes
<1>3. Clean(p)
  OBVIOUS
<1> HIDE DEF p
<1>4. CASE p = writePos
  BY <1>1, <1>2, <1>3, <1>4 DEF Clean
<1>5. CASE p # writePos /\ MustMove(p)
  <2>1. /\ readPos' = 0 /\ writePos' = Rest /\ buffer' = Moved(p, Rest)
    BY <1>1, <1>3, <1>5 DEF Clean
  <2>2. p > Rest
    BY <1>1, <1>2, <1>5 DEF MustMove
  <2>3. \A i \in 0 .. Capacity - 1 :
            buffer'[i] = IF i >= Rest THEN buffer[i] ELSE buffer[p + i]
    BY <1>1, <2>1, <2>2 DEF Moved
  <2>4. ASSUME NEW i \in 0 .. Rest - 1
        PROVE  p + i \in p .. writePos - 1 /\ i \in 0 .. Capacity - 1 /\ ~(i >= Rest)
               /\ p + i \in 0 .. Capacity - 1 /\ (p + i) - p = i
    BY <1>1, <1>2
  <2>5. \A i \in 0 .. Rest - 1 : buffer'[i] = Upto + i
    BY <1>1, <2>3, <2>4
  <2>6. buffer' \in [0 .. Capacity - 1 -> Bytes \cup {Junk}]
    <3>1. ASSUME NEW i \in 0 .. Capacity - 1
          PROVE  buffer'[i] \in Bytes \cup {Junk}
      <4>1. CASE i >= Rest
        BY <1>1, <2>3, <4>1
      <4>2. CASE ~(i >= Rest)
        <5>1. i \in 0 .. Rest - 1
          BY <1>1, <1>2, <4>2
        <5>2. buffer'[i] = buffer[p + i] /\ p + i \in 0 .. Capacity - 1
          BY <2>3, <2>4, <4>2, <5>1
        <5>3. QED
          BY <1>1, <5>2
      <4>3. QED
        BY <4>1, <4>2
    <3>2. buffer' = [i \in 0 .. Capacity - 1 |-> buffer'[i]]
      BY <1>1, <2>1 DEF Moved
    <3>3. QED
      BY <3>1, <3>2
  <2>7. /\ readPos' \in Nat /\ writePos' \in Nat /\ readPos' <= writePos'
        /\ writePos' <= Capacity /\ writePos' = readPos' + Rest
        /\ Capacity - writePos' >= BufferSize
    BY <1>1, <1>2, <2>1
  <2>8. \A i \in readPos' .. writePos' - 1 : buffer'[i] = Upto + (i - readPos')
    BY <1>1, <2>1, <2>5
  <2>9. QED
    BY <2>6, <2>7, <2>8
<1>6. CASE p # writePos /\ ~MustMove(p)
  BY <1>1, <1>2, <1>3, <1>6 DEF Clean, MustMove
<1>7. QED
  BY <1>4, <1>5, <1>6

\* The loop ends, and OnRead, Clean and RegisterRecv keep the invariant.
LEMMA ParseEndInv ==
    ASSUME IInv, ParseEnd
    PROVE  IInv'
<1>1. /\ TypeOK /\ Contents /\ InOrder
      /\ readPos \in Nat /\ writePos \in Nat /\ processLen \in Nat
      /\ readPos + processLen <= writePos /\ DataSize = writePos - readPos /\ Rest \in Nat
  BY Places DEF IInv
<1>2. /\ Rest < BufferSize
      /\ \A size \in Nat : EndsAt(Upto, Upto + size) => Rest < size
  BY LoopEnds
<1>3. ~(Consumed > DataSize)
  BY <1>1 DEF Consumed
<1>4. /\ pc' = "recv" /\ Clean(readPos + processLen) /\ processLen' = 0
      /\ UNCHANGED <<bounds, arrived, delivered>>
  BY <1>3 DEF ParseEnd, Consumed
<1>5. /\ readPos' \in Nat /\ writePos' \in Nat /\ readPos' <= writePos'
      /\ writePos' <= Capacity /\ writePos' = readPos' + Rest
      /\ Capacity - writePos' >= BufferSize
      /\ buffer' \in [0 .. Capacity - 1 -> Bytes \cup {Junk}]
      /\ \A i \in readPos' .. writePos' - 1 : buffer'[i] = Upto + (i - readPos')
  BY <1>2, <1>4, Cleaned
<1>6. Upto' = Upto /\ DataSize' = Rest /\ Rest' = Rest
  <2>1. Upto' = Upto
    BY <1>4 DEF Upto
  <2>2. writePos' - readPos' = Rest /\ (writePos' - readPos') - 0 = Rest
    <3>1. readPos' \in Nat /\ writePos' = readPos' + Rest
      BY <1>5
    <3>2. \A m, n \in Nat : (m + n) - m = n /\ n - 0 = n
      OBVIOUS
    <3>3. QED
      BY <1>1, <3>1, <3>2
  <2>3. Rest' = (writePos' - readPos') - processLen' /\ DataSize' = writePos' - readPos'
    BY DEF Rest, DataSize
  <2>4. QED
    BY <1>4, <2>1, <2>2, <2>3
<1>7. TypeOK'
  <2>1. WellFormed'
    BY <1>1, <1>4 DEF TypeOK, WellFormed, EndsAt
  <2>2. /\ readPos' \in 0 .. Capacity /\ writePos' \in readPos' .. Capacity
        /\ processLen' \in 0 .. writePos' - readPos'
    BY <1>4, <1>5, Sizes
  <2>3. QED
    BY <1>1, <1>4, <1>5, <2>1, <2>2 DEF TypeOK
<1>8. Contents'
  <2>1. readPos' + processLen' = readPos'
    <3>1. \A n \in Nat : n + 0 = n
      OBVIOUS
    <3>2. readPos' \in Nat
      BY <1>5
    <3>3. QED
      BY <1>4, <3>1, <3>2
  <2>2. Upto' \in {0} \cup bounds' /\ arrived' = Upto' + Rest'
    BY <1>1, <1>4, <1>6 DEF Contents
  <2>3. QED
    BY <1>5, <1>6, <2>1, <2>2 DEF Contents
<1>9. Waiting'
  <2>1. \A size \in Nat : EndsAt(Upto, Upto + size)' => DataSize' < size
    BY <1>2, <1>4, <1>6 DEF EndsAt
  <2>2. QED
    BY <1>4, <2>1 DEF Waiting
<1>10. RoomForReceive'
  <2>1. Capacity - writePos' >= BufferSize
    BY <1>5
  <2>2. FreeSize' = Capacity - writePos'
    BY DEF FreeSize
  <2>3. FreeSize' >= BufferSize
    BY <2>1, <2>2
  <2>4. QED
    BY <2>3 DEF RoomForReceive
<1>11. InOrder'
  BY <1>1, <1>4, OrderKept
<1>12. QED
  BY <1>7, <1>8, <1>9, <1>10, <1>11 DEF IInv

\* Every step keeps the invariant.
LEMMA NextInv == IInv /\ [Next]_vars => IInv'
<1> SUFFICES ASSUME IInv, [Next]_vars
             PROVE  IInv'
  OBVIOUS
<1>1. ASSUME NEW n \in 1 .. Capacity, Receive(n)
      PROVE  IInv'
  BY <1>1, ReceiveInv
<1>2. CASE UNCHANGED vars
  <2> USE <1>2 DEF IInv, vars
  <2>1. TypeOK'
    BY DEF TypeOK, WellFormed, EndsAt
  <2>2. Contents' /\ Waiting'
    BY DEF Contents, Waiting, Upto, Rest, DataSize, EndsAt
  <2>3. RoomForReceive' /\ InOrder'
    BY OrderKept DEF RoomForReceive, FreeSize
  <2>4. QED
    BY <2>1, <2>2, <2>3
<1>3. QED
  BY <1>1, <1>2, ReceiveNothingInv, ParsePacketInv, ParseEndInv DEF Next

-------------------------------------------------------------------------------
(* Theorems *)

\* The invariant holds in every reachable state: the RecvBuffer and the loop of OnRecv.
THEOREM FramingInvariant == Spec => []IInv
<1>1. QED
  BY InitInv, NextInv, PTL DEF Spec

\* OnRecvPacket gets the peer's packets, whole and in order, however TCP cuts them.
THEOREM PacketsInOrder == Spec => []InOrder
<1>1. IInv => InOrder
  BY DEF IInv
<1>2. QED
  BY <1>1, FramingInvariant, PTL

\* Every WSARecv is offered at least one buffer, so none of length zero ends the session.
THEOREM RoomAlways == Spec => []RoomForReceive
<1>1. IInv => RoomForReceive
  BY DEF IInv
<1>2. QED
  BY <1>1, FramingInvariant, PTL

\* Between two receives exactly the bytes of the next packet that have arrived are in
\* the buffer: Clean loses, repeats and moves none of them.
THEOREM NoByteLost == Spec => []NothingLost
<1>1. IInv => NothingLost
  <2> SUFFICES ASSUME IInv
               PROVE  NothingLost
    OBVIOUS
  <2>1. /\ TypeOK /\ Contents /\ Waiting /\ readPos \in Nat /\ writePos \in Nat
        /\ Upto \in {0} \cup bounds /\ Upto \in Nat /\ WellFormed
        /\ DataSize = writePos - readPos /\ readPos <= writePos
    BY Places DEF IInv, Contents, TypeOK
  <2>2. ASSUME pc = "recv"
        PROVE  /\ arrived = Upto + DataSize
               /\ \A i \in 0 .. DataSize - 1 : buffer[readPos + i] = Upto + i
               /\ Upto < StreamLength => DataSize < SizeAt(Upto)
    <3>1. processLen = 0 /\ readPos + processLen = readPos /\ Rest = DataSize
      BY <2>1, <2>2 DEF Waiting, Rest
    <3>2. ASSUME NEW i \in 0 .. DataSize - 1
          PROVE  buffer[readPos + i] = Upto + i
      <4>1. readPos + i \in readPos .. writePos - 1 /\ (readPos + i) - readPos = i
        BY <2>1
      <4>2. QED
        BY <2>1, <3>1, <4>1 DEF Contents
    <3>3. ASSUME Upto < StreamLength
          PROVE  DataSize < SizeAt(Upto)
      BY <2>1, <2>2, <3>3, PacketSize DEF Waiting
    <3>4. QED
      BY <2>1, <3>1, <3>2, <3>3 DEF Contents
  <2>3. QED
    BY <2>1, <2>2 DEF NothingLost, Upto
<1>2. QED
  BY <1>1, FramingInvariant, PTL

===============================================================================
