SPECIFICATION FairSpec
CONSTANTS
  Users = {u1, u2}
  Workers = {w1, w2}
  MaxListens = 2
  MaxClients = 1
  NoThread = NoThread
  NoJob = NoJob
INVARIANTS
  CallbacksGuarded
  NoneForgotten
PROPERTIES
  NothingLeftOpen
CHECK_DEADLOCK FALSE
