SPECIFICATION FairSpec
CONSTANTS
  Users = {u1}
  Workers = {w1, w2}
  Jobs = {j1, j2}
  Counts = {2}
  Ops = {"push", "finish"}
  NoThread = NoThread
  NoJob = NoJob
PROPERTIES
  FinishUpReturns
CHECK_DEADLOCK FALSE
