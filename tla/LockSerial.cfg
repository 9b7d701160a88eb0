CONSTANTS
  a = a u = u
  Procs = {a, u}
  Pids = {1, 2}
  Retrying = {u}
  NoPid = NoPid
  NoFile = NoFile
  Torn = Torn
  HeartbeatEvery = 1
  StaleAfter = 2
  Bystanders = TRUE
  MaxRuns = 2
  MaxCrashes = 2
  PollEvery = 1
  TaskEvery = 2
SPECIFICATION MFairSpec
INVARIANT HolderIsProtected
PROPERTIES ReleasesOwnLock DeadLocksAreIgnored RetryGetsIn
