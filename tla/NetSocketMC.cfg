CONSTANTS
    Workers = {w1, w2}
    Callers = {c1, c2}
    Sends = {s1, s2}
    TimedSends = {s2}
    Protocols = {"TCP", "UDP"}
    SendMemoryLimit = 1
    None = None
    RecvOp = RecvOp
SPECIFICATION Spec
SYMMETRY Symmetry
INVARIANTS
    RecvBufferNotShared
    SendOutlivesOperation
    CloseLeavesNothingBehind
CHECK_DEADLOCK FALSE
