CONSTANTS
  ta = ta
  tb = tb
  td = td
  Targets = {ta, tb, td}
  Callers = {c1}
  COOLDOWN = 2
  MaxClock = 4
  Pools <- LongPool
  ForPorts = {1}
  AddrForm <- Forms
  UsizeMod = 7
  MaxAddrs = 2
SPECIFICATION FairSpec
INVARIANTS
  RoundRobinOrder
  BadAddressEndsCall
PROPERTY CallReturns
