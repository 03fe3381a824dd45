SPECIFICATION Spec
CONSTANTS
  j1 = j1
  j2 = j2
  j3 = j3
  t1 = t1
  t2 = t2
  t3 = t3
  l1 = l1
  l2 = l2
  Jobs = {j1}
  Tasks = {t1}
  Loops = {l1}
  NoJob = NoJob
  ConcurrencyLimit = 1
  SizeLimit = 1
  MaxRetries = 1
  StrictMode = FALSE
  Outcomes = {"success", "retryable"}
  MaxCrashes = 0
  MaxStops = 0
  MaxDbErrors = 0
CHECK_DEADLOCK FALSE
INVARIANTS NoLostRequest
