CONSTANTS
  Orders <- AudioFirst
  MaxSignals = 2
  QuitsEarly = FALSE
  LateSignals = FALSE
SPECIFICATION FairSpec
INVARIANT TypeOK
INVARIANT JoinsSuffice
PROPERTY QuitEndsProgram
