SPECIFICATION Spec
CONSTANTS
  Students = {s1}
  Groups = {g1, g2}
  Instructors = {}
  Cars = {}
  Kinds = {}
  Clients = {p1, p2}
  Ops = {"createStudent", "assignGroup"}
  Fickle = {}
  None = None
INVARIANTS OneOpenGroup
SYMMETRY Symmetry
CHECK_DEADLOCK FALSE
