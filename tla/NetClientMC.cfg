CONSTANTS
  Setups <- AllSetups
  MaxData = 2
  MaxConnects = 2
SPECIFICATION Spec
INVARIANTS UserGetsTheData ConnectedIsMutual
PROPERTIES AttemptEnds LostIsDestroyed
CHECK_DEADLOCK FALSE
