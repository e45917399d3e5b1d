CONSTANTS
  PcSize = 34
  MifDepth = 32
  DmSize = 8
  PowerUpClocks = 3
  Switches = {5}
  Presses = {{}, {0}, {2}}
  Sources <- MCSources
SPECIFICATION FairSpec
INVARIANT TypeOK
INVARIANT DecodedInTime
INVARIANT StartUpFits
INVARIANT OnlyConfigures
INVARIANT ExecutesTheSource
PROPERTY Instructions
PROPERTY EveryCallSent
PROPERTY StartUpIsRepeated
