CONSTANTS
  a = a b = b c = c
  Procs = {a, b}
  Retention = 1
  MaxDays = 4
  MaxRecords = 4
  MaxKills = 1
SPECIFICATION Spec
SYMMETRY MCSymmetry
CHECK_DEADLOCK TRUE
INVARIANTS AlarmsOnlyOnRaces RemovalsAreCheckpointed
