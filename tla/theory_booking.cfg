SPECIFICATION Spec
CONSTANTS
  Groups = {g1, g2}
  Teachers = {t1}
  Students = {}
  Instructors = {}
  Cars = {}
  TheoryIds = {l1, l2}
  PracticeIds = {}
  Clients = {p1, p2}
  Ops = {"createTheory", "changeTheory"}
  MaxTime = 2
  MaxDuration = 2
  DateRanges <- AnyDay
  Movable = {}
  Fickle = {}
  HashOf <- MCHashOf
  KeyRank <- MCKeyRank
  Fit <- MCFit
  None = None
  g1 = g1
  g2 = g2
  t1 = t1
  t2 = t2
  s1 = s1
  s2 = s2
  i1 = i1
  i2 = i2
  c1 = c1
  c2 = c2
INVARIANTS NoDoubleBooking TeacherNotDoubleBooked
SYMMETRY Symmetry
CHECK_DEADLOCK FALSE
