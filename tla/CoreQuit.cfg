CONSTANTS
  main = main
  audio = audio
  SIGTERM = SIGTERM
  SIGINT = SIGINT
  NoFrame = NoFrame
  Main = main
  Quitters = {audio}
  Signals = {SIGTERM, SIGINT}
  NumCallbacks = 2
  CodeOf <- ExitCodes
  NoExitCode = 0
  MaxSignals = 2
  MayAskHelp = TRUE
  SignalsWhileLocked = FALSE
SPECIFICATION FairSpec
INVARIANT TypeOK
INVARIANT CallbacksCalled
INVARIANT NoLostNotify
PROPERTY QuitEndsWait
