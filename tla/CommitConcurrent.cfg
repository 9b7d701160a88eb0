CONSTANTS
  c1 = c1 c2 = c2 t1 = t1 t2 = t2 f1 = f1 f2 = f2 a = a b = b
  Cli = {c1}
  Tools = {t1}
  Files = {f1}
  Tracked = {f1}
  Contents = {a, b}
  Base = a
  Missing = Missing
  None = None
  MaxOps = 2
  MaxCrashes = 1
  MaxEdits = 1
  IoFails = FALSE
  ReverifyCanFail = TRUE
SPECIFICATION Spec
CHECK_DEADLOCK TRUE
INVARIANTS NoLostCommit HistoryMatchesVersions
PROPERTIES ImplementsVersionedHistory CommitsBuildOnCurrent
