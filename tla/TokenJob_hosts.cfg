SPECIFICATION Spec
CONSTANTS
  f1 = f1
  n1 = n1
  h1 = h1
  h2 = h2
  Null = Null
  Tokens = {f1, n1}
  TypeOf <- MCTypeOf
  Locales = {}
  Handlers = {h1, h2}
  Thrown = {"TooManyRequestsHttpError"}
  RetryAfters = {0}
  MaxAttempts = 1
  JobRetryAfter = 0
  HostRetryAfter = 1
  ImagesEnabled = FALSE
  MaxTime = 2
  MaxRuns = 4
SYMMETRY HandlerSymmetry
CHECK_DEADLOCK FALSE
INVARIANTS SavedLimitHolds
