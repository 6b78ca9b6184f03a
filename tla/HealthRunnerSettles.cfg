SPECIFICATION FairSpec
CONSTANTS
  t1 = t1
  Targets = {t1}
  c1 = c1
  c2 = c2
  Configs = {c1, c2}
  r1 = r1
  r2 = r2
  Runs = {r1, r2}
  Nil = Nil
  AtFirst = {"OFFLINE"}
  MaxFlips = 0
  MaxEdits = 1
  MaxRestarts = 1
INVARIANTS TypeOK JobsAgree
PROPERTIES WatchSettles ImplementsJobPool
CHECK_DEADLOCK FALSE
