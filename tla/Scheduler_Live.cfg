CONSTANTS
  w1 = w1
  w2 = w2
  c1 = c1
  s1 = s1
  s2 = s2
  a = a
  b = b
  d = d
  u = u
  UI = UI
  NoThread = NoThread
  NoSink = NoSink
  Workers = {w1}
  Clients = {c1}
  Sources = {s1}
  NumPackets = 1
  Sinks = {a, u}
  UISinks = {u}
  Slackers = {}
  SourceOf <- DOnSecond
  Timestamps <- Twice
  Produces <- Client1Produces
  Configures <- UISubscribes
  Stoppers = {c1}
SPECIFICATION FairSpec
PROPERTY PacketsComeBack
PROPERTY ShutdownStops
