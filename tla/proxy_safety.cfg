CONSTANTS
  Ports = {1, 2}
  Conns = {c1, c2, c3, c4}
  MaxConnections = 1
  MaxQueue = 2
SPECIFICATION Spec
SYMMETRY ConnSymmetry
INVARIANTS
  TypeOK
  PermitsConserved
  QueueNeverStuck
  NoOrphans
  ResultFaithful
  BindFailureLeavesNothing
  AdmissionBound
PROPERTIES
  ImplementsPool
  ServedInOrder
  DrainRunsDown
