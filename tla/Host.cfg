SPECIFICATION Spec
CONSTANTS
  Proc = {a1, a2, a3}
  Tool = {a3}
  NoPid = NoPid
  Migrations = 2
  MaxBackups = 3
  Retention = 2
  SessionFile = {f1, f2}
  MaxWrites = 2
  Targets <- MCTargets
  Payloads <- MCPayloads
  Edition = {e1, e2}
  Restore = {r1}
  NoFile = NoFile
  Remnant = Remnant
  Gone = Gone
  NoRestore = NoRestore
  Scheme = {"s1", "s2"}
  Axis = {"size", "kind"}
  ValuesOf <- MCValues
  Prices = {0, 1}
  NoValue = NoValue
  MaxEdits = 1
  MaxWords = 2
  Rounds <- MCRounds
  Rows <- MCRows
  Versions <- MCVersions
  Pages <- MCPages
  Needs <- MCNeeds
  Length <- MCLength
  MaxCandidates = 3
  FewLookups = 2
  ManyLookups = 3
  Nothing = Nothing
  Job = {j1, j2}
  MaxParts = 2
  MaxRows = 2
  MaxOpened = 2
  Posts <- MCPosts
  MaxTroubles = 1
  MaxSent = 2
  KindOf <- MCKinds
  MaxRequests = 3
  MaxStarts = 2
  ChunkChars = 5
  OverlapChars = 1
  LeastChars = 2
  EvidenceChars = 9
  HeadingChars = 2
  BubbleChars = 10
  MaxBubbles = 2
  MaxChars = 9
  MaxTokens = 9
INVARIANTS StartsAreSound DataSurvives CopiesAreRestorable AnswersAreGrounded PricesHold
  RecommendationsFit TransactionsAreWhole MediaIsKept UpgradesAreSound
  DocumentsArriveWhole
  AnswersArriveWhole
PROPERTY RestoreIsAllOrNothing
CHECK_DEADLOCK FALSE
