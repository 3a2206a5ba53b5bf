SPECIFICATION Spec
CONSTANTS
  c1 = c1
  c2 = c2
  w1 = w1
  w2 = w2
  w3 = w3
  k1 = k1
  k2 = k2
  Customers = {c1}
  Executions = {w1, w2}
  Callbacks = {k1, k2}
  Overlap = TRUE
  Crashes = {w1}
  Aborts = {w1}
  Reports = {"sent", "delivered", "undelivered"}
  MaxRepeats = 1
  None = None
INVARIANTS TypeOK SentMeansAccepted NoOvercount ReturnedMeansServed
CHECK_DEADLOCK FALSE
