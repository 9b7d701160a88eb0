CONSTANTS
  a = a b = b c = c
  Procs = {a, b, c}
  Unknown = Unknown
  Dead = Dead
  NoDir = NoDir
  NoId = NoId
  StaleAfter = 1
  AbandonedAfter = 2
  Stalls = FALSE
  MaxCalls = 2
  MaxCrashes = 2
  Retrying = {c}
SPECIFICATION FairSpec
INVARIANTS OneInside NoLostUpdate
PROPERTY RetryGetsIn
