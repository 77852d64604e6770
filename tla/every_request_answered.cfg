SPECIFICATION FairSpec
CONSTANTS
  Groups = {g1}
  Teachers = {t1}
  Students = {s1}
  Instructors = {i1}
  Cars = {c1}
  TheoryIds = {l1}
  PracticeIds = {l2, l3}
  Clients = {p1, p2}
  Ops = {"createTheory", "changeTheory", "createPractice", "cancelPractice", "changeStatus"}
  MaxTime = 1
  MaxDuration = 1
  DateRanges <- AnyDay
  Movable = {}
  Fickle = {}
  HashOf <- MCHashOf
  KeyRank <- MCKeyRank
  Fit <- MCFit
  None = None
  g1 = g1
  g2 = g2
  t1 = t1
  t2 = t2
  s1 = s1
  s2 = s2
  i1 = i1
  i2 = i2
  c1 = c1
  c2 = c2
INVARIANTS NoWaitCycle
PROPERTIES EveryRequestAnswered
CHECK_DEADLOCK FALSE
