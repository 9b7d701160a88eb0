CONSTANTS
  p1 = p1 p2 = p2 x = x y = y z = z
  Procs = {p1, p2}
  Comps = {x, y, z}
  None = None
  MaxCommands = 5
  MaxCrashes = 1
SPECIFICATION Spec
SYMMETRY Symmetry
CHECK_DEADLOCK TRUE
INVARIANT GraphSymmetric
PROPERTIES DeleteLeavesNoDependents CommitsStay
