CONSTANTS
  Ports = {1, 2}
  Conns = {c1, c2, c3}
  MaxConnections = 1
  MaxQueue = 1
SPECIFICATION FairSpec
PROPERTIES
  ShutdownTerminates
  QueueProgress
