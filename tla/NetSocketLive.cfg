CONSTANTS
    Workers = {w1}
    Callers = {c1}
    Sends = {s1, s2}
    TimedSends = {s2}
    Protocols = {"UDP"}
    SendMemoryLimit = 1
    None = None
    RecvOp = RecvOp
SPECIFICATION FairSpec
PROPERTIES
    CloseCompletes
    EndedSendFreed
CHECK_DEADLOCK FALSE
