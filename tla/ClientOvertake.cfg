SPECIFICATION Spec
CONSTANTS
  Accepted = {a1}
  Outgoing = {}
  Users = {u1}
  Workers = {w1, w2}
  MaxData = 1
  NoThread = NoThread
  NoJob = NoJob
  NoClient = NoClient
INVARIANTS
  SharedCopyOutlivesJobs
CHECK_DEADLOCK FALSE
