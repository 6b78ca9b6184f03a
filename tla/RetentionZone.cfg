SPECIFICATION Spec
CONSTANTS
  m1 = m1
  Metrics = {m1}
  l1 = l1
  Logs = {l1}
  DayHours = 4
  Zones <- MCAheadOfUTC
  FileDays = {1}
  FlagDays = {Unset}
  Unset = Unset
  Oldest = 5
  MaxHours = 1
  MaxRestarts = 0
PROPERTY KeepsRetention
