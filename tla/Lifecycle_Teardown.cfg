CONSTANTS
  Orders <- JoinedFirst
  MaxSignals = 1
  QuitsEarly = FALSE
  LateSignals = FALSE
SPECIFICATION Spec
INVARIANT NoUseAfterDestroy
