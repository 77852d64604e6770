SPECIFICATION Spec
CONSTANTS
  Students = {s1}
  Groups = {}
  Instructors = {i1, i2}
  Cars = {c1}
  Kinds = {k1, k2}
  Clients = {p1, p2}
  Ops <- CarOps
  Fickle = {i1, i2}
  None = None
PROPERTIES CarMisfitsByRace
SYMMETRY Symmetry
CHECK_DEADLOCK FALSE
