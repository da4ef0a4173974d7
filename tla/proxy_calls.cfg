CONSTANTS
  ta = ta
  tb = tb
  Ports = {1}
  Conns = {c1, c2}
  MaxConnections = 1
  MaxQueue = 1
  Targets = {ta, tb}
  COOLDOWN = 1
  MaxClock = 1
  Pools <- TwoTargets
  AddrForm <- Forms
  UsizeMod = 3
  MaxAddrs = 1
SPECIFICATION CallFairSpec
INVARIANT CallsHoldPermits
PROPERTIES
  ConnectFairness
  ImplementsServer
  ImplementsBalancer
