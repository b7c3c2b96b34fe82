SPECIFICATION FairSpec
CONSTANTS
  Users = {u1}
  Workers = {w1, w2}
  Jobs = {j1, j2}
  Counts = {0, 1, 2}
  Ops = {"push", "nested", "set"}
  NoThread = NoThread
  NoJob = NoJob
PROPERTIES
  AwakeWorkerServes
  StoppedWorkerLeaves
CHECK_DEADLOCK FALSE
