CONSTANTS
  Ports = {8080}
  Conns = {1, 2, 3, 4}
  MaxConnections = 10
  MaxQueue = 10
  Tests <- AllTests
SPECIFICATION HarnessSpec
INVARIANTS
  TestsPass
  StreamsAligned
PROPERTY TestsEnd
CHECK_DEADLOCK FALSE
