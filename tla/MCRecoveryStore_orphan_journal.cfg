SPECIFICATION MCSpec
CONSTANTS
  p1 = p1
  p2 = p2
  r1 = r1
  r2 = r2
  a1 = a1
  Parts = {"store"}
  Proc = {p1, p2}
  Ref = {r1}
  Payloads = {r1}
  Alias = {}
  Kind <- MCKindBlobs
  MaxOf <- MCMaxTwo
  Size <- MCSize
  MaxBytes = 9
  LegacyAlias <- MCLegacyNone
  Large = {}
  Counts = {1}
  MaxOrdinal = 4
  MaxGen = 2
  MaxGrants = 3
  LegacyNext = 2
  Removable = {}
  Faults = {"orphan"}
  QuietOpen = TRUE
  MemoHits = FALSE
  CasRetries = FALSE
INVARIANTS OrdinalsNeverReissued
SYMMETRY MCProcSymmetry
CHECK_DEADLOCK FALSE
