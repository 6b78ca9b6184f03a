SPECIFICATION FairShutdownSpec
CONSTANTS
  MaxOpen = 3
  q1 = q1
  q2 = q2
  Readers = {q1, q2}
  w1 = w1
  w2 = w2
  Writers = {w1, w2}
  Background = {w2}
  t1 = t1
  Targets = {t1}
  None = None
INVARIANTS TypeOK ConnsAccounted NotWedged
PROPERTIES RequestsEndOrExit
CHECK_DEADLOCK FALSE
