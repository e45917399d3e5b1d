CONSTANTS
  RamSize = 4
  CorWindow <- MCCorWindow
  InitWindow = 4
  NoWord <- MCNoWord
  Averages = {1, 2}
  Others <- MCOthers
  WindowCodes = {1, 2}
SPECIFICATION ServiceSpec
INVARIANT CorTypeOK
INVARIANT OneRequestOut
PROPERTY HalvesOfOneResult
PROPERTY CorrelationIsWindowSum
