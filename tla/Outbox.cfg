SPECIFICATION FairSpec
CONSTANTS
  Message = {m1, m2}
  WithAction = {m1}
  MaxAttempts = 2
  MaxDeaths = 1
  MaxIncidents = 2
INVARIANTS EffectsArePaidFor
PROPERTIES SettledForGood ImplementsLeasedQueue OutboxCompletes
