SPECIFICATION FairSpec
CONSTANTS
  a1 = a1
  a2 = a2
  Agents = {a1, a2}
  p1 = p1
  p2 = p2
  Polls = {p1, p2}
  MaxSeq = 2
  Sends <- MCSends
  MaxRestarts = 1
INVARIANTS TypeOK ShownIsCommitted
PROPERTIES AgentsStayListed LastReportShown
