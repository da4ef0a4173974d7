CONSTANTS
  Targets = {ta, tb}
  RawConfigs <- SmallConfigs
  Limits = {0, 3}
  MaxPermits = 2
SPECIFICATION FairSpec
INVARIANTS
  StartupTypeOK
  ConfigFaithful
  WiringComplete
  ExitFaithful
PROPERTY SignalEnds
