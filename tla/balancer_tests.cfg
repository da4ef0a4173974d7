CONSTANTS
  Targets = {0, 1, 2, 3, 4}
  Callers = {test_task}
  COOLDOWN = 1
  MaxClock = 0
  Pools <- HarnessPools
  ForPorts = {}
  AddrForm <- Names
  UsizeMod = 100
  MaxAddrs = 3
  Tests <- SmallTests
SPECIFICATION HarnessSpec
INVARIANTS
  FollowsScript
  AssertionsHold
