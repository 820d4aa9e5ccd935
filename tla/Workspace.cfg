CONSTANTS
  Resting = Resting
  i1 = i1
  i2 = i2
  i3 = i3
  i4 = i4
  u1 = u1
  u2 = u2
  u3 = u3
  o1 = o1
  o2 = o2
  r1 = r1
  r2 = r2
  r3 = r3
  t1 = t1
  t2 = t2
  d1 = d1
  d2 = d2
  p1 = p1
  k1 = k1
  k2 = k2
  LedgerIds = {i1, i2, i3, i4}
  LedgerOps = {o1, o2}
  LedgerMax = 2
  LedgerForms <- mcLedgerForms
  LedgerSeed = i1
  NoEntry = NoEntry
  People = {u1, u2, u3}
  Founders = {u1, u2}
  Owners = {u1, u2}
  TeamOps = {o1, o2}
  ConsoleCalls = 2
  Seats = 2
  SignOps = {o1, o2}
  MaxAttempts = 2
  MaxSends = 2
  MaxGuesses = 3
  Words = {"a", "b", "c"}
  Empty = ""
  NoPattern = NoPattern
  Bad = Bad
  RuleForms <- mcRuleForms
  Clauses <- mcClauses
  NoRule = NoRule
  RuleIds = {r1, r2}
  RuleOps = {o1, o2}
  RuleEdits = 2
  Scans = {t1, t2}
  PackTitles = {p1}
  OwnTitle = OwnTitle
  Unwritten = Unwritten
  Deleted = Deleted
  SpaceOps = {o1, o2}
  Items = {r1, r2, r3}
  FreeLibrary = 1
  Prefs = {t1, t2}
  DefaultPrefs = t1
  SampleOps = {o1, o2}
  SampleFaultMax = 1
  RevOps = {o1, o2}
  RiskCount = 2
  FirstBatch = 1
  RevTexts = 2
  AskOps = {o1, o2}
  FreeAsks = 1
  AskMax = 3
  DocIds = {d1, d2}
  SeedDoc = d1
  DocTenants = {t1, t2}
  Shared = Shared
  NoDoc = NoDoc
  DocOps = {o1, o2}
  MaxChunks = 1
  DocFaultMax = 1
  RagOps = {o1, o2}
  HistoryMax = 4
  RagAskMax = 4
  MeterOps = {o1, o2}
  ModelNames = {"deepseek-chat", "deepseek-v4-pro"}
  CheapModel = "deepseek-chat"
  TokenQuota = 2
  CallsMax = 2
  MeterFaultMax = 1
  NoRow = NoRow
  L1Ttl = 1
  L2Ttl = 2
  L1Max = 1
  L1Evict = 1
  CacheTimeMax = 1
  Nothing = Nothing
  ChatUsers = {d1, d2}
  TenantOf <- mcTenantOf
  ChatIds = {1}
  Questions = {"q"}
  ChatOps = {o1, o2}
  HistoryTake = 2
  TokenBudget = 1
  ChatMax = 3
  ChatFaultMax = 1
  NoChat = NoChat
  Capacity = 2
  RefillRate = 1
  KeyLife = 2
  GateTimeMax = 3
  NoBucket = NoBucket
  MaxSteps = 3
  CallsPerTurn = 2
  SearchKeys = {TRUE, FALSE}
  Staff <- mcStaff
  Kept7 = {0, 1, 2, 3}
  PlanEnds = 16
  ReviewQuota = 2
  AlertOps = {o1, o2}
  RetainTake = 3
  RetainShown = 1
  NoticeTimeMax = 3
  Trackers = {u1, u2}
  PlanOf <- mcPlanOf
  Nobody = Nobody
  Steps <- mcSteps
  SeenPersonas = {"hr", "law"}
  BatchMax = 2
  HitsMax = 2
  BatchesMax = 2
  ZoneAhead = 1
  ChartDays = 2
  ReportTimeMax = 5
  MonthBegins = 2
  TracesMax = 2
  PeakThirds = 1
  NoModel = NoModel
  Deadlined <- mcDeadlined
  AuditKeys = {"token", "name"}
  AuditDepth = 1
  Findings <- mcFindings
  Codes = {"R1", "R2", "R3"}
  Fires <- mcFires
  Suggests <- mcSuggests
  MinRepeat = 2
  Baseline <- mcBaseline
  WithLlm = TRUE
  DecideMax = 3
  EvalFaultMax = 1
  NoCase = NoCase
  TextMax = 5
  HeadMax = 2
  TitleMax = 1
  PreambleMin = 2
  TypedWords <- mcTypedWords
  ParserWords = {"pay", "secret"}
  ReviewsMax = 2
  RiskIds = {k1, k2}
  SeverityOf <- mcSeverityOf
  ClauseOf <- mcClauseOf
  ClauseCount = 2
  Templates = {"tpl_nda"}
  ParsedClauses <- mcParsedClauses
  PaidPlans = {"PERSONAL"}
  LibraryPlans = {"FREE", "PERSONAL"}
  AdoptMax = 1
  NoReview = NoReview
SPECIFICATION Spec
INVARIANTS WorkspaceTypeOK LimitsUnlessRaced RecordsAgree FiguresAgree TenantsApart ConversationsHold
PROPERTIES NothingRewritten
CHECK_DEADLOCK FALSE
SYMMETRY Symmetry
