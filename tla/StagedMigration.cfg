CONSTANTS
  c1 = c1 t1 = t1 f1 = f1 f2 = f2 a = a b = b
  Cli = {c1}
  Tools = {t1}
  Files = {f1, f2}
  Contents = {a, b}
  Base = a
  None = None
  MaxJobs = 4
  MaxKills = 1
SPECIFICATION Spec
CHECK_DEADLOCK TRUE
INVARIANT HalfDoneIsRepeatable
PROPERTIES FinishedMeansWritten RolledBackIsFinal
