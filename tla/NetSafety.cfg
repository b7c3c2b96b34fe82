CONSTANTS
  Listeners = {l1}
  Accepted = {a1}
  Outgoing = {o1}
  Silent = {o1}
  Fds = {3, 4}
  MaxData = 0
  MaxSends = 1
  IdRange = 16
  IntRange = 8
  NoSocket = NoSocket
SPECIFICATION Spec
INVARIANTS SocketAccounting CleanupOnceAndLast
PROPERTIES RemoveHitsItsOwn ImplementsConnections
CHECK_DEADLOCK FALSE
