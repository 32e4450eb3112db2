SPECIFICATION LiveSpec
CONSTANTS
  Parts = {"locks", "flight", "host"}
  out = out
  err = err
  c1 = c1
  c2 = c2
  c3 = c3
  q1 = q1
  q2 = q2
  nil = nil
  zero = zero
  bad = bad
  EditCalls = {c1, c2}
  EditAsks <- SmallEditAsks
  EditTexts <- SmallEditTexts
  FetchCalls = {c1, c2}
  FetchUrls = {1, 2, 3, 4}
  FetchHosts <- SmallFetchHosts
  FetchAnswers <- SmallFetchAnswers
  FetchAllow = {"lan"}
  FetchDeny = {"bad"}
  FetchLife = 1
  FetchCap = 2
  FetchHops = 1
  FetchTicks = 2
  Stream = {out, err}
  CaptureBytes = 3
  SpillBytes = 5
  DefaultCapture = 4
  DefaultSpill = 2
  ChunkSizes = {1, 2, 4}
  MaxStream = 7
  MaxTotal = 6
  MaxTicks = 5
PROPERTIES
  LockReleased
  EveryCallAnswered
  EveryRequestAnswered
CHECK_DEADLOCK FALSE
