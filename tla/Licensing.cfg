CONSTANTS
  p = p q = q a = a b = b c = c d = d
  Procs = {c, d}
  Projects = {p, q}
  Accounts = {a}
  None = None
  FreeLimit = 1
  Ttl = 1
  Grace = 2
  MaxHours = 3
  MaxCommands = 4
  MaxKills = 1
  MaxTurns = 1
SPECIFICATION Spec
SYMMETRY MCSymmetry
CHECK_DEADLOCK FALSE
INVARIANTS LapsesWithinGrace LogoutForgets ComponentsWithinPlan
