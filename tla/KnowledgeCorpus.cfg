SPECIFICATION Spec
CONSTANTS
  Content <- MCContent
  Empty = Empty
  Good = Good
  Bad = Bad
  NoFiles = Empty
  Broken <- MCBroken
  None = None
  Request = {r1}
  MaxAttempts = 2
  MaxRequests = 2
  MaxMishaps = 1
INVARIANT CorpusIsSound
PROPERTIES NoWayBack QueueEmpties
