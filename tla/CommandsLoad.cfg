CONSTANTS
  Slots = {0, 1}
  IDs = {0, 1, 9}
  Objects = {o1, o2}
  Workers = {w1}
  Ports = {q1, q2, q3}
  None = None
  Packets = {p, q}
  Callers = {t1}
  Byte = {0, 1}
  Junk = Junk
  Lost = Lost
  SizeOf <- SmallSizes
  Prefix = 2
  MaxSize <- Rooms
SYMMETRY Symmetry
VIEW WithoutLast
SPECIFICATION CommandsSpec
INVARIANTS LoadingReplaces
CHECK_DEADLOCK FALSE
