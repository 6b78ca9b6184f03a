SPECIFICATION Spec
CONSTANTS
  MaxOpen = 2
  q1 = q1
  q2 = q2
  Readers = {q1, q2}
  w1 = w1
  Writers = {w1}
  t1 = t1
  Targets = {t1}
  None = None
SYMMETRY MCSymmetry
INVARIANT NotWedged
