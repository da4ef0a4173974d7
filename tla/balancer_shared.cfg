CONSTANTS
  ta = ta
  tb = tb
  td = td
  Targets = {ta, tb}
  Callers = {c1, c2}
  COOLDOWN = 1
  MaxClock = 1
  Pools <- SharedPools
  ForPorts = {1, 2, 3}
  AddrForm <- Forms
  UsizeMod = 3
  MaxAddrs = 1
SPECIFICATION Spec
SYMMETRY CallerSymmetry
INVARIANTS
  TypeOK
  CooldownBounded
  SearchComplete
PROPERTIES
  DrainSeals
  HandlerRespected
  SearchRunsDown
  DrainStopsNewCandidates
