\* Every call is made from a callback; one of o1 owns no mutex, like a thread of
\* the program's own.
SPECIFICATION Spec
CONSTANTS
  Accepted = {a1, a2}
  Outgoing = {o1}
  Users = {}
  Workers = {w1, w2}
  MaxData = 1
  NoThread = NoThread
  NoJob = NoJob
  NoClient = NoClient
SYMMETRY Symmetry
INVARIANTS
  SharedCopyOutlivesQueue
  GuardedVarOutlivesTokens
  AcceptedCopyAccounted
  AcceptedCallbacksGuarded
  OnlyCallbacksBlock
CHECK_DEADLOCK FALSE
