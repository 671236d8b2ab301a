CONSTANTS
  v1 = v1
  v2 = v2
  Clients = {v1, v2}
  MaxQueries = 2
SPECIFICATION FairSpec
INVARIANT WindowsApart
INVARIANT OwnDrawings
INVARIANT RendersOnce
PROPERTY QueriesRendered
PROPERTY ShutdownEndsLoop
CHECK_DEADLOCK FALSE
