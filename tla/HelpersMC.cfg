CONSTANTS
  p1 = p1
  p2 = p2
  in1 = in1
  in2 = in2
  out1 = out1
  out2 = out2
  k1 = k1
  k2 = k2
  None = None
  Objects <- AllObjects
  ClassOf <- ClassOfObject
  NumThreads <- TwoAndOne
  Callers = {k1, k2}
  Scenes <- AllScenes
  Packets = {p1, p2}
  Sizes <- AllSizes
  Chunk = 2
  MaxOperations <- Operations2And1
  Inputs = {in1, in2}
  Outputs = {out1, out2}
  Main = k1
  Slots = {0}
  NumBuffers = 2
  PacketSizes = {1, 2}
  Caps = {1, 2}
  MaxData <- Data2And1
  MaxPauses = 2
  MaxFails = 1
SPECIFICATION Spec
INVARIANTS UsersHaveThreads FinishedMeansUnused ChunksFollow SoundInOrder NothingHangs CiphersAsTested
CHECK_DEADLOCK FALSE
