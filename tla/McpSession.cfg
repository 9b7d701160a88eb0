CONSTANTS
  x = x y = y fx = fx fy = fy a = a b = b idx = idx
  Components = {x, y, idx}
  Paths = {fx, fy}
  Tracked = x
  Owned = fx
  Calls = {a, b}
  None = None
  Intents <- MCIntents
  MaxGatedActions = 2
  Limits = {1, 3}
  IndexId = idx
  MaxCalls = 2
SPECIFICATION Spec
CHECK_DEADLOCK TRUE
INVARIANTS GatedWorkIsCounted ChangesHitTheirMention LoneCallsLogToStderr
PROPERTIES UnapprovedOnlyIngests DryRunsWriteNothing
