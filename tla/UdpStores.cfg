CONSTANTS
  Modes = {"perClient", "catchAll", "catchAllNo"}
  Slots = {1}
  Threads = {t1, t2}
  W = 8
  First = {1, 6}
  MaxSent = 4
  MaxTick = 9
  MaxStored = 2
  MaxReset = 2
SPECIFICATION Spec
INVARIANTS CounterIsOfLast
PROPERTIES AgeDecides
CHECK_DEADLOCK FALSE
