CONSTANTS
  Modes = {"prefix", "postfix", "raw"}
  Lengths = {0, 1, 3}
  MaxSent = 2
  PrefixSizeBytes = 2
  PostfixSize = 2
  RecvBufferSize = 4
  PartialSize = 4
  ResizeTo = {3, 6}
  PacketSize = 2
  NumberOfPackets = 1
  MemoryLimits = {8, 99}
  Garbage = {1}
  MaxChange = 1
SPECIFICATION FramingSpec
INVARIANTS FramingKept
PROPERTIES MemoryAccounted EveryPacketFound
CHECK_DEADLOCK FALSE
