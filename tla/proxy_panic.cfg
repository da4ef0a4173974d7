CONSTANTS
  Ports = {1}
  Conns = {c1, c2}
  MaxConnections = 1
  MaxQueue = 1
SPECIFICATION FairSpec
PROPERTY PanicReaped
