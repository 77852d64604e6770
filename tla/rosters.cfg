SPECIFICATION Spec
CONSTANTS
  Students = {s1}
  Groups = {g1, g2}
  Instructors = {}
  Cars = {}
  Kinds = {}
  Clients = {p1, p2}
  Ops <- RosterOps
  Fickle = {}
  None = None
INVARIANTS TypeOK NoMemberOfClosedGroup
PROPERTIES SecondGroupByRace FinishedEnrolledByRace RowLosesGroupByRace BarredByRace
SYMMETRY Symmetry
CHECK_DEADLOCK FALSE
