CONSTANTS
  a = a b = b
  cheap = cheap dear = dear
  Procs = {a, b}
  Providers = {cheap, dear}
  Unset = Unset
  Price <- MCPrice
  MaxTokens = 1
  Ceiling = 2
  LowBudget = 60
  Estimate = 1
  MaxCost = 2
  Attempts = 2
  Threshold = 2
  Cooldown = 1
  MaxCommands = 2
  MaxCalls = 4
  MaxUpsets = 1
SPECIFICATION LlmFairSpec
CHECK_DEADLOCK FALSE
INVARIANTS Balanced HardCeiling
PROPERTY CallsEnd
