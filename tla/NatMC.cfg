CONSTANTS
    Messages = {m1, m2, m3}
    Shutdown = Shutdown
    None = None
    udp = udp
    tcp = tcp
    new = new
    old = old
    Keys = {udp, tcp}
    Values = {new}
    Routers <- SomeRouters
    IDs = {0, 1}
SPECIFICATION NatSpec
INVARIANTS
    NoUseAfterFree
    NothingDeletedUnacted
    NoLeakAfterTermination
    LastDoneMeansAllDone
    CopyIsOfTheRouter
PROPERTIES
    TerminationCompletes
    PostedIsActedOn
    ImplementsOwnership
CHECK_DEADLOCK FALSE
