SPECIFICATION Spec
CHECK_DEADLOCK FALSE
CONSTANTS
  Slots = {s1, s2}
  Tasks = {t1, t2}
  MaxTotal = 2
  Concurrency = 2
  Attempts = 2
  MaxRollouts = 2
INVARIANTS
  NoForeignKill
