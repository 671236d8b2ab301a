CONSTANTS
  main = main
  audio = audio
  SIGTERM = SIGTERM
  SIGINT = SIGINT
  NoFrame = NoFrame
  Main = main
  Quitters = {}
  Signals = {SIGTERM, SIGINT}
  NumCallbacks = 2
  CodeOf <- ExitCodes
  NoExitCode = 0
  MaxSignals = 2
  MayAskHelp = FALSE
  SignalsWhileLocked = TRUE
SPECIFICATION FairSpec
PROPERTY QuitEndsWait
CHECK_DEADLOCK FALSE
