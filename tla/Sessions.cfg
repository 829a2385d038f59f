SPECIFICATION FairSpec
CONSTANTS
  Phone = {p1,p2}
  Pending = Pending
  None = None
  MaxSockets = 2
  MaxNumbers = 1
  MaxCommands = 2
  MaxIncidents = 1
CHECK_DEADLOCK FALSE
INVARIANTS SocketsServe
PROPERTIES Reconnects
