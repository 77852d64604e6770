SPECIFICATION Spec
CONSTANTS
  Groups = {g1}
  Teachers = {t1}
  Students = {s1}
  Instructors = {}
  Cars = {}
  TheoryIds = {l1}
  PracticeIds = {}
  Clients = {p1, p2}
  Ops = {"createTheory", "changeTheory", "cancelTheory", "markAttendance", "changeStatus"}
  MaxTime = 3
  MaxDuration = 1
  DateRanges <- AnyDay
  Movable = {}
  Fickle = {}
  HashOf <- MCHashOf
  KeyRank <- MCKeyRank
  Fit <- MCFit
  None = None
  g1 = g1
  g2 = g2
  t1 = t1
  t2 = t2
  s1 = s1
  s2 = s2
  i1 = i1
  i2 = i2
  c1 = c1
  c2 = c2
INVARIANTS ClosedGroupHasNoFutureLesson AttendanceOnlyOfPast
PROPERTIES CancelledStaysCancelled StatusMovesForward
SYMMETRY Symmetry
