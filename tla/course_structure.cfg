SPECIFICATION Spec
CONSTANTS
  Course = Course
  Chapters = {h1, h2}
  Lessons = {l1, l2, l3}
  Materials = {m1}
  Clients = {p1, p2}
  Holders = {p1, p2}
  None = None
INVARIANTS TypeOK NoCollision ListsContiguous ShownInOrder
PROPERTIES ImplementsOrderedList
SYMMETRY Symmetry
