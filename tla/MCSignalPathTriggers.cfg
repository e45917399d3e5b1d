CONSTANTS
  Stages = 3
  Ports <- MCPorts
  Far = {}
  Depth = 4
  SampleDelay <- MCSampleDelay
  InitDelay = 16
  MaxN = 1
  WindowSize <- MCWindowSize
  EightBits = 256
  SumModulus = 65536
  RamSize = 4
  CorWindow <- MCCorWindow
  InitWindow = 4
  NoWord <- MCNoWord
  Samples = {1}
  Configs <- MCSlowConfigs
  MaxConfigs = 1
SPECIFICATION TriggerSpec
INVARIANT CorrelationsAreTriggered
