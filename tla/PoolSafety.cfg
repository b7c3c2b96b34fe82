SPECIFICATION Spec
CONSTANTS
  Users = {u1, u2}
  Workers = {w1, w2, w3}
  Jobs = {j1, j2}
  Counts = {0, 1, 3}
  Ops = {"push", "nested", "set", "finish", "destroy"}
  NoThread = NoThread
  NoJob = NoJob
SYMMETRY MCSymmetry
INVARIANTS
  TypeOK
  ThreadAccounting
  SetThreadCountExact
  SlowFinishUpDrains
  DestructionLeavesNoThread
  OnlyKnownDeadlocks
PROPERTIES
  ClosedForGood
  ImplementsJobPool
CHECK_DEADLOCK FALSE
