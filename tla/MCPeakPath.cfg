CONSTANTS
  Stages = 3
  Ports <- MCPorts
  Far = {}
  Depth = 2
  HalfSize = 2
  CountModulus = 2
  NoWord <- MCNoWord
  Results = {1, 2}
  MinGap = 24
SPECIFICATION FairSpec
INVARIANT TypeOK
INVARIANT NiosAcknowledges
PROPERTY WholeResults
PROPERTY CountIsDistance
PROPERTY EveryPeakDelivered
