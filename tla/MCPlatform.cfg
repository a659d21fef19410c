SPECIFICATION Spec
SYMMETRY Symmetry
CONSTANTS
  Client = {c1, c2}
  Single = {c1}
  CloudEnv = {"e1", "e2"}
  BaseDir <- SmallBase
  TwoFiles <- FewFiles
  OneFiles <- MoreFiles
  NetRules <- SmallNetRules
  NetAgent = {"a", "b"}
  Domain <- SmallDomains
  NetMethod <- SmallMethods
  MaxRecords = 2
  Drop = 1
  NetTime = 1
  MaxSent = 3
  MaxRules = 2
  EventId = {i1}
  Details <- SmallDetails
  SensitiveKey <- SmallSensitiveKeys
  Suffix <- SmallSuffixes
  Today = 2
  Days = {0, 1}
  MaxLimit = 2
  MaxEvents = 3
  TwoAlerts <- FewAlerts
  OneAlerts <- MoreAlerts
  Reported <- SmallReported
  Operator = {"o"}
  Interval = 2
  MaxBuckets = 3
  Window = 4
  Time = {0, 5, 6, 9, 12, 13}
  Cpu = {2}
  MaxData = 2
  Names <- SmallNames
  Labels <- SmallLabels
  Value = {"x"}
  Buckets <- SmallBuckets
  Observed = {1, 3}
  MaxObserved = 2
  Asked <- SmallAsked
  Action = {"role:manage"}
  MaxAsked = 2
  MaxChanges = 1
  MemoryId = {1}
  MemoryAgent = {"a"}
  TTL = {0, 1}
  Importance = {1, 2}
  MemoryTime = 2
  MaxTouches = 3
  MarketOfTwo <- OneTemplate
  MarketOfOne <- TwoTemplates
  User = {"u"}
  MaxReviews = 2
  MaxInstalls = 1
  Caller = {"coordinator", "worker", "reviewer", "observer", ""}
  Goal <- SmallGoals
  MaxTasks = 1
  StartupOfTwo <- MoreStarts
  StartupOfOne <- MoreWorlds
  Version = {1, 2}
  MaxBreaks = 1
  Class = {"good", "bad"}
  Contents <- SmallContents
  PageSize = 3
  ServiceCap = 2
  MaxOverview = 6
  RecentLimit = 1
  Sections <- SmallSections
  ConfigUpdate <- SmallUpdates
  MaxUpdates = 2
INVARIANTS TypeOK AgentsConfined RecordsKept AlertsExact HistoryExact EntryAuthorized StartsExact
PROPERTY GoneForGood
\* Data, time and requests are bounded.
CHECK_DEADLOCK FALSE
