SPECIFICATION Spec
CONSTANTS
  l1 = l1
  l2 = l2
  x1 = x1
  x2 = x2
  e1 = e1
  e2 = e2
  e3 = e3
  Ledger = {l1, l2}
  Agent = {x1, x2}
  Home <- MCTwoHomes
  Event = {e1, e2}
  Clamp <- MCClampNone
  MaxClock = 1
  Faults = {"snapshot"}
CHECK_DEADLOCK FALSE
SYMMETRY MCSymmetry
INVARIANT RecordedEventsReadable
INVARIANT ImportsReadable
PROPERTY ReplacedOnlyByNewer
