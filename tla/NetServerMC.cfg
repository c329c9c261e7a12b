CONSTANTS
  MaxClients = 2
  Servers <- SmallServers
  Peers = {p1, p2}
  Addresses = {p1, p2}
  Addr <- OwnAddr
  Workers = {w1}
  MaxSends = 1
  MaxPort = 2
  None = None
SPECIFICATION Spec
INVARIANTS SlotsConsistent JoinsAlternate
SYMMETRY Symmetry
CHECK_DEADLOCK FALSE
