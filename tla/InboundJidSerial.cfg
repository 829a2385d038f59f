SPECIFICATION Spec
CONSTANTS
  N = 2
  Jid = {j1}
  JidOf <- MCSameJid
  j1 = j1
  Worker = {w1, w2}
  None = None
  MaxAttempts = 2
  Concurrency = 1
  TextClock = TRUE
  MaxDisruptions = 0
  MaxIncidents = 0
INVARIANT JidSerial
