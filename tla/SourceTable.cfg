CONSTANTS
  t1 = t1
  t2 = t2
  t3 = t3
  Threads = {t1, t2, t3}
  NumWorkers = 1
  Ids = {1, 3, 5}
  Registers <- TwoRegister
  MaxLookups = 1
SPECIFICATION FairSpec
INVARIANT ReadersExcludeWriter
INVARIANT AssertionsHold
PROPERTY CallsReturn
