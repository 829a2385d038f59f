SPECIFICATION FairSpec
CONSTANTS
  Message = {m1}
  WithAction = {m1}
  MaxAttempts = 2
  MaxDeaths = 1
  MaxIncidents = 0
PROPERTY ActionRecovers
