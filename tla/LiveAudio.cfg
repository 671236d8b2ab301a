CONSTANTS
  Devices = {"default", "selected", "list"}
  Latency = 5
  MaxLatency = 2
  Second = 1000
  Rate = 7
  Scale = 256
  Epoch = 2000
  Errors <- LateOrEarly
  MaxFragment = 5
  MaxSamples = 6
  HolesCross = FALSE
  QuitsEarly = FALSE
SPECIFICATION FairSpec
INVARIANT TypeOK
INVARIANT Skipless
PROPERTY TimestampsAccurate
PROPERTY LoopEnds
CHECK_DEADLOCK FALSE
