SPECIFICATION Spec
CONSTANTS
  f1 = f1
  n1 = n1
  h1 = h1
  h2 = h2
  Null = Null
  Tokens = {f1, n1}
  TypeOf <- MCTypeOf
  Locales = {"es"}
  Handlers = {h1, h2}
  Thrown = {"TooManyRequestsHttpError", "ImageTimeoutError", "SmartContractClarityError", "OtherError"}
  RetryAfters = {0}
  MaxAttempts = 2
  JobRetryAfter = 0
  HostRetryAfter = 1
  ImagesEnabled = TRUE
  MaxTime = 1
  MaxRuns = 2
SYMMETRY HandlerSymmetry
CHECK_DEADLOCK FALSE
INVARIANTS TypeOK OneWritePerToken DoneIsWritten InvalidSaysWhy
PROPERTIES MetadataOutlivesRateLimits
