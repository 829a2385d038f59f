INIT Init
NEXT Next
CONSTANTS
  Caller = {c1, c2}
  FailureThreshold = 2
  SuccessThreshold = 2
  ResetTimeout = 1
  MonitoringWindow = 1
  Hour = 1
  HourLimit = 2
  Day = 2
  DayLimit = 3
  MaxCost = 2
  MaxFailures = 3
  Probe = {p1, p2}
  NoProbe = NoProbe
  NoAnswer = NoAnswer
  CacheAge = 2
  MaxSaves = 2
  Number = {n1, n2}
  Customer = {j1, j2}
  NoNumber = NoNumber
  DailyLimit = 1
  MaxDays = 1
  MaxMishaps = 1
  Send = {s1, s2, s3}
  Line = {l1, l2}
  NoSend = NoSend
  Clerk = {o1, o2}
  MaxHandoffs = 2
  Search = {q1, q2}
  Shipment = {k1, k2}
  KeyLists <- MCKeyLists
  Couriers = 2
  Message = {m1, m2}
  Talkers = {m1}
  Operator = {w1}
  MaxLogged = 2
  MaxAttempts = 2
  MaxCalls = 2
  MaxIncidents = 1
  Product = {"p", "q"}
  Class = {"c", "d"}
  Variation = {"v"}
  ClassOf <- MCClassOf
  Letters <- MCLetters
  MaxTools = 1
  NotSaid = NotSaid
INVARIANTS OrdersAreAnnounced
CHECK_DEADLOCK FALSE
