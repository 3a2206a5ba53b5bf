SPECIFICATION FairSpec
CONSTANTS
  c1 = c1
  c2 = c2
  w1 = w1
  w2 = w2
  w3 = w3
  k1 = k1
  k2 = k2
  Customers = {c1, c2}
  Executions = {w1, w2}
  Callbacks = {k1}
  Overlap = FALSE
  Crashes = {w1}
  Aborts = {w1}
  Reports = {"delivered", "read"}
  MaxRepeats = 0
  None = None
INVARIANTS CrashResendsOne CountsExact
PROPERTY TaskEnds
CHECK_DEADLOCK FALSE
