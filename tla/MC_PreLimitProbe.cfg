CONSTANTS
  MaxCap = 14
  RidMod = 4
  RidWidth = 4
  PortMod = 3
  PortMax = 2
  PortRound = 4
SPECIFICATION Spec
INVARIANT TypeOK
CHECK_DEADLOCK FALSE
