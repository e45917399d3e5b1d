CONSTANTS
  PortCount = 4
  SenderCount = 1
  Stages <- MCStages
  Ports <- MCPorts
  Words = {w1, w2}
  Far = {far}
  Idle = Idle
  Depth = 2
SPECIFICATION MCSpec
INVARIANT TypeOK
INVARIANT FabricIsXorCircuit
INVARIANT BoundedLatency
PROPERTY ImplementsChannels
PROPERTY ImplementsFairChannels
