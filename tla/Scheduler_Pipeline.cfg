CONSTANTS
  w1 = w1
  w2 = w2
  c1 = c1
  s1 = s1
  s2 = s2
  a = a
  b = b
  d = d
  u = u
  UI = UI
  NoThread = NoThread
  NoSink = NoSink
  Workers = {w1, w2}
  Clients = {c1}
  Sources = {s1, s2}
  NumPackets = 2
  Sinks = {a, d}
  UISinks = {}
  Slackers = {}
  SourceOf <- DOnSecond
  Timestamps <- TwoInOrder
  Produces <- WorkersPassOn
  Configures <- UISubscribes
  Stoppers = {c1}
SPECIFICATION Spec
SYMMETRY WorkersAlike
INVARIANT TypeOK
INVARIANT AssertionsHold
INVARIANT NoLostWakeup
INVARIANT EarliestFirst
PROPERTY NoTaskAfterShutdown
