SPECIFICATION Spec
CONSTANTS
  a1 = a1
  a2 = a2
  Agents = {a1, a2}
  p1 = p1
  Polls = {p1}
  MaxSeq = 1
  Sends <- MCOnce
  MaxRestarts = 1
PROPERTY AllRegistered
