CONSTANTS
  ta = ta
  tb = tb
  td = td
  Targets = {ta, tb}
  Callers = {c1}
  COOLDOWN = 2
  MaxClock = 2
  Pools <- TwoTargets
  ForPorts = {1}
  AddrForm <- NameForms
  UsizeMod = 3
  MaxAddrs = 1
SPECIFICATION Spec
PROPERTY NoAttemptOnDrained
