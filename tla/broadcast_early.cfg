SPECIFICATION Spec
CONSTANTS
  c1 = c1
  c2 = c2
  w1 = w1
  w2 = w2
  w3 = w3
  k1 = k1
  k2 = k2
  Customers = {c1}
  Executions = {w1}
  Callbacks = {k1}
  Overlap = FALSE
  Crashes = {}
  Aborts = {}
  Reports = {"sent", "delivered", "read"}
  MaxRepeats = 0
  None = None
INVARIANT EveryStatusRecorded
CHECK_DEADLOCK FALSE
