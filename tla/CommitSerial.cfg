CONSTANTS
  c1 = c1 c2 = c2 t1 = t1 t2 = t2 f1 = f1 f2 = f2 a = a b = b
  Cli = {c1}
  Tools = {}
  Files = {f1, f2}
  Tracked = {f1, f2}
  Contents = {a, b}
  Base = a
  Missing = Missing
  None = None
  MaxOps = 3
  MaxCrashes = 2
  MaxEdits = 0
  IoFails = TRUE
  ReverifyCanFail = TRUE
SPECIFICATION Spec
CHECK_DEADLOCK TRUE
INVARIANTS SyncedWhenClean CurrentVersionRecoverable WorkStartsReconciled
