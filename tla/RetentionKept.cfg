SPECIFICATION FairSpec
CONSTANTS
  m1 = m1
  Metrics = {m1}
  l1 = l1
  Logs = {l1}
  DayHours = 2
  Zones <- MCBehindUTC
  FileDays = {0, 1}
  FlagDays = {Unset, 2}
  Unset = Unset
  Oldest = 7
  MaxHours = 1
  MaxRestarts = 1
INVARIANTS TypeOK NothingTorn
PROPERTIES KeepsRetention ExpiredGo
