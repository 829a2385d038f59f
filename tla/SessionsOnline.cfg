SPECIFICATION Spec
CONSTANTS
  Phone = {p1}
  Pending = Pending
  None = None
  MaxSockets = 2
  MaxNumbers = 1
  MaxCommands = 3
  MaxIncidents = 0
CHECK_DEADLOCK FALSE
INVARIANTS OnlineListens
