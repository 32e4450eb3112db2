SPECIFICATION MCSpec
CONSTANTS
  p1 = p1
  p2 = p2
  r1 = r1
  r2 = r2
  a1 = a1
  Parts = {"store"}
  Proc = {p1, p2}
  Ref = {r1, r2}
  Payloads = {r1, r2}
  Alias = {}
  Kind <- MCKindBlobs
  MaxOf <- MCMaxTwo
  Size <- MCSize
  MaxBytes = 9
  LegacyAlias <- MCLegacyNone
  Large = {}
  Counts = {}
  MaxOrdinal = 4
  MaxGen = 2
  MaxGrants = 0
  LegacyNext = 0
  Removable = {}
  Faults = {}
  QuietOpen = FALSE
  MemoHits = FALSE
  CasRetries = FALSE
INVARIANTS AckedRefsDurable
SYMMETRY MCProcSymmetry
CHECK_DEADLOCK FALSE
