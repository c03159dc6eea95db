SPECIFICATION FairSpec
CONSTANTS
    HeaderSize = 2
    BufferSize = 4
    BufferCount = 3
    StreamLength = 16
INVARIANTS InOrder NothingLost RoomForReceive
PROPERTIES EveryPacketDelivered
CHECK_DEADLOCK FALSE
