SPECIFICATION MCSpec
CONSTANTS
  p1 = p1
  p2 = p2
  r1 = r1
  r2 = r2
  a1 = a1
  Parts = {"store", "aliases"}
  Proc = {p1, p2}
  Ref = {r1, r2}
  Payloads = {}
  Alias = {}
  Kind <- MCKindBlobs
  MaxOf <- MCMaxTwo
  Size <- MCSize
  MaxBytes = 9
  LegacyAlias <- MCLegacyNone
  Large = {}
  Counts = {1}
  MaxOrdinal = 4
  MaxGen = 3
  MaxGrants = 3
  LegacyNext = 2
  Removable = {}
  Faults = {"crash", "io", "lose", "corrupt"}
  QuietOpen = TRUE
  MemoHits = FALSE
  CasRetries = FALSE
INVARIANTS OrdinalsNeverReissued AckedAliasesSafe
PROPERTIES UnreadableNeverOverwritten
SYMMETRY MCProcSymmetry
CHECK_DEADLOCK FALSE
