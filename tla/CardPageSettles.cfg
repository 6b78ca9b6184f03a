SPECIFICATION FairSpec
CONSTANTS
  a1 = a1
  a2 = a2
  Items = {a1, a2}
  p1 = p1
  p2 = p2
  Polls = {p1, p2}
  CanHide = TRUE
  MaxVersion = 2
INVARIANTS TypeOK EmptyStateHonest
PROPERTIES  PageSettles
