CONSTANTS
  Ports = {1}
  Conns = {c1, c2, c3}
  MaxConnections = 1
  MaxQueue = 1
SPECIFICATION Spec
PROPERTY RejectOnlyWhenFull
