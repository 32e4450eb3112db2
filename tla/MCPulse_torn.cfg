SPECIFICATION Spec
CONSTANTS
  l1 = l1
  l2 = l2
  x1 = x1
  x2 = x2
  e1 = e1
  e2 = e2
  e3 = e3
  Ledger = {l1}
  Agent = {x1, x2}
  Home <- MCOneHome
  Event = {e1, e2}
  Clamp <- MCClamp
  MaxClock = 1
  Faults = {"torn"}
CHECK_DEADLOCK FALSE
INVARIANT RecordedEventsReadable
