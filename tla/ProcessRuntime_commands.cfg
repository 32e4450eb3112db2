SPECIFICATION RuntimeFairSpec
CONSTANTS
  Commands = {c1, c2}
  Threads = 6
  Needs = {{}, {"stdin", "stdout"}}
  Stdin = {c2}
  Deadlines = {c1}
  Cancels = {c1}
  Escapes = {c1}
  RuntimeFaults = {"spawn", "identity"}
CHECK_DEADLOCK FALSE
INVARIANT RuntimeTypeOK
INVARIANT CompleteResultIsWhole
 
 
 
