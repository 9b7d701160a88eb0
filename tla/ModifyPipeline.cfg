CONSTANTS
  t1 = t1
  start = start weak = weak unsafe = unsafe broken = broken
  Tasks = {t1}
  Diff = Diff
  Contents <- MCContents
  Start = start
  Flaws <- MCFlaws
  Tests <- MCTests
  None = None
  HealAttempts = 2
  RepairAttempts = 2
  Repeats = 2
  LibraryLimit = 1
  SessionLimit = 1
  MaxRequests = 2
SPECIFICATION FairSpec
CHECK_DEADLOCK FALSE
INVARIANTS DiskIsVerified LibraryIsVetted
PROPERTIES SilentCommitsAreSafe RejectionsAreOverridden TestsWeakenOnlyWithApproval RequestsEnd
