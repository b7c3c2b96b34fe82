SPECIFICATION Spec
CONSTANTS
  Accepted = {}
  Outgoing = {o1}
  Users = {u1}
  Workers = {w1}
  MaxData = 1
  NoThread = NoThread
  NoJob = NoJob
  NoClient = NoClient
INVARIANTS
  ConnectedCallbacksGuarded
CHECK_DEADLOCK FALSE
