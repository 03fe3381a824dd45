SPECIFICATION Spec
CONSTANTS
  j1 = j1
  j2 = j2
  j3 = j3
  t1 = t1
  t2 = t2
  t3 = t3
  l1 = l1
  l2 = l2
  Jobs = {j1, j2}
  Tasks = {t1, t2, t3}
  Loops = {l1, l2}
  NoJob = NoJob
  ConcurrencyLimit = 1
  SizeLimit = 2
  MaxRetries = 1
  StrictMode = FALSE
  Outcomes = {"timeout", "rateLimited"}
  MaxCrashes = 1
  MaxStops = 1
  MaxDbErrors = 1
SYMMETRY Symmetry
CHECK_DEADLOCK FALSE
PROPERTIES SettledUntilRequested BackoffHonoured ImplementsLifecycle
INVARIANTS TypeOK ConcurrencyBound SizeBound NoLeakedIds NoMissedIdle OneTaskPerJob
