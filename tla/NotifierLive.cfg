SPECIFICATION FairNotifierSpec
CONSTANTS
  t1 = t1
  Targets = {t1}
  c1 = c1
  Configs = {c1}
  r1 = r1
  Runs = {r1}
  Nil = Nil
  AtFirst = {"ONLINE", "OFFLINE"}
  MaxFlips = 1
  MaxEdits = 0
  MaxRestarts = 1
  slack = slack
  Channels = {slack}
INVARIANT OneFate
PROPERTIES AlertsTruthful StopDrains ChannelTruthful
CHECK_DEADLOCK FALSE
