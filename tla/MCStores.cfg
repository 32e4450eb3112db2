SPECIFICATION MCSpec
CONSTANTS
  Parts = {"maintenance", "migration", "segments", "expansion", "refindex",
           "workingset", "actioncache", "transparency", "contextview", "cowfork",
           "castree", "caslease", "ingest", "shortrefs", "entitynovelty"}
  p1 = p1
  p2 = p2
  r1 = r1
  r2 = r2
  h1 = h1
  h2 = h2
  h3 = h3
  j1 = j1
  j2 = j2
  nil = nil
  absent = absent
  bad = bad
  Maintainers = {p1, p2}
  Sidecars = {"s1", "s2"}
  MaintBudget = 1
  MaintCoalesce = 1
  MaintGcInterval = 2
  MaintTmpAge = 1
  MaintTicks = 2
  MigShort = {"a", "b"}
  MigHash = {"h1", "h2", "h3"}
  MigPrefix <- SmallPrefix
  MigFound <- SmallFound
  MigFaults = {"cas", "persist", "save", "crash", "rot", "manifest"}
  TreeThreads = {p1, p2}
  TreePlacements <- SmallPlacements
  TreeExposed = {"p1"}
  TreeChanges = 1
  TreeCalls = 2
  IdxRefs = {r1, r2}
  IdxStores = {p1, p2}
  IdxCompactAbove = 1
  IdxReadMax = 6
  IdxLegacy = {0, 2}
  IdxOps = 4
  IdxTorn = 1
  AcKeys = {"k"}
  AcArtifacts = {"x"}
  AcSessions = {"s"}
  AcServers = {"v"}
  AcResults <- SmallResults
  AcGrace = 1
  AcSeconds = 1
  AcCrashes = 1
  NovMerges = {1, 2}
  NovScopes = {"sc"}
  NovIds = {r1, r2}
  NovProducers = {"tokenzero"}
  NovDamages = 1
INVARIANTS
  StoresTypeOK
  
  
  LegacyMigrates
  SharedRecordsMerge
  CasTreeHonest
  
  ContextBounded

  
  
SYMMETRY MCSymmetry
CHECK_DEADLOCK FALSE
