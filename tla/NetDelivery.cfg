CONSTANTS
  Listeners = {l1}
  Accepted = {a1}
  Outgoing = {}
  Silent = {}
  Fds = {3, 4}
  MaxData = 1
  MaxSends = 2
  IdRange = 16
  IntRange = 8
  NoSocket = NoSocket
SPECIFICATION FairSpec
INVARIANTS SentInOrder
PROPERTIES ClosedSocketsLeave ImplementsConnections
CHECK_DEADLOCK FALSE
