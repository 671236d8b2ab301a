CONSTANTS
  w1 = w1
  w2 = w2
  Workers = {w1, w2}
  NumPackets = 2
  NumResults = 1
  MaxPackets = 3
SPECIFICATION FairSpec
INVARIANT TypeOK
INVARIANT EmptyPoolInUse
INVARIANT ResultsInOrder
PROPERTY PacketsTransformed
