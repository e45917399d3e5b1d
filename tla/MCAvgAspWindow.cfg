CONSTANTS
  MaxN = 4
  WindowSize <- MCWindowSize
  EightBits = 2
  SumModulus = 16
  RawSamples = {0, 1, 2}
  Intervals = {0, 2}
  WindowCodes = {0, 1}
SPECIFICATION WindowSpec
INVARIANT CoreTypeOK
INVARIANT SumIsBuffer
INVARIANT GrownWindowSum
