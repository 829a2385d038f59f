SPECIFICATION FairSpec
CONSTANTS
  N = 2
  Jid = {j1}
  JidOf <- MCSameJid
  j1 = j1
  Worker = {w1, w2}
  None = None
  MaxAttempts = 2
  Concurrency = 2
  TextClock = TRUE
  MaxDisruptions = 1
  MaxIncidents = 1
INVARIANTS ClaimsExclude FifoUntilFailure
PROPERTIES SettledOnce ImplementsLeasedQueue EveryMessageSettles
