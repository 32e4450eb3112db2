SPECIFICATION MCSpec
CONSTANTS
  p1 = p1
  p2 = p2
  r1 = r1
  r2 = r2
  a1 = a1
  Parts = {"store"}
  Proc = {p1, p2}
  Ref = {r1}
  Payloads = {r1}
  Alias = {}
  Kind <- MCKindFiles
  MaxOf <- MCMaxTwo
  Size <- MCSize
  MaxBytes = 9
  LegacyAlias <- MCLegacyNone
  Large = {r1}
  Counts = {}
  MaxOrdinal = 4
  MaxGen = 2
  MaxGrants = 0
  LegacyNext = 1
  Removable = {}
  Faults = {"crash", "lose", "orphan", "corrupt"}
  QuietOpen = FALSE
  MemoHits = TRUE
  CasRetries = TRUE
INVARIANTS TypeOK SidecarCoversGenerations
SYMMETRY MCProcSymmetry
CHECK_DEADLOCK FALSE
