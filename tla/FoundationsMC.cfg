CONSTANTS
  a = a
  b = b
  test = test
  copyMade = copyMade
  assigned = assigned
  Profiles = {p1, p2}
  Keys = {k1}
  Blocks = {b1, b2}
  Null = Null
  MaxSets = 2
  NumThreads = 3
  NoThread = NoThread
  MaxLevels = 2
  Readers = {r1, r2, r3}
  Nobody = Nobody
  MaxReadCount = 2
  MaxWriteCount = 2
  Stores = {a, b, test, copyMade, assigned}
  StoreScenes <- Scenes
  Callers = {c1}
  MaxObjects = 3
  MaxSize = 2
  TestVector = test
  CopyMade = copyMade
  Assigned = assigned
  Cells = {x, y}
  Shared = x
  Workers = {w1, w2}
  NoWorker = NoWorker
  NullPointer = NullPointer
  CellValues = {1000, 5000}
  SizeOf = 2
SPECIFICATION FoundationsSpec
INVARIANTS ReadsWhatWasSet KeysSafeIfOneOwner CollectionsKeep
PROPERTY LocksExclude
SYMMETRY Alike
VIEW OfSubject
CHECK_DEADLOCK FALSE
