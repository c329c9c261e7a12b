CONSTANTS
  MaxClients = 1
  Servers <- UDPServer
  Peers = {p1}
  Addresses = {p1}
  Addr <- OwnAddr
  Workers = {w1, w2}
  MaxSends = 1
  MaxPort = 2
  None = None
SPECIFICATION FairSpec
PROPERTIES ClientJoinedReturns
CHECK_DEADLOCK FALSE
