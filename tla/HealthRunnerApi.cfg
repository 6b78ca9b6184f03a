SPECIFICATION Spec
CONSTANTS
  t1 = t1
  t2 = t2
  Targets = {t1, t2}
  c1 = c1
  Configs = {c1}
  r1 = r1
  r2 = r2
  Runs = {r1, r2}
  Nil = Nil
  AtFirst = {"ONLINE", "OFFLINE"}
  MaxFlips = 2
  MaxEdits = 0
  MaxRestarts = 0
SYMMETRY MCSymmetry
INVARIANTS OneLoopPerTarget AlertsAlternate CacheAnnounced
PROPERTY ImplementsAlertLog
CHECK_DEADLOCK FALSE
