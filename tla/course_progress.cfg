SPECIFICATION ProgressSpec
CONSTANTS
  Course = Course
  Chapters = {h1}
  Lessons = {l1, l2}
  Materials = {}
  Clients = {p1}
  Students = {s1}
  Requests = {q1, q2}
  Holders = {p1, q1, q2}
  None = None
INVARIANTS NoDuplicateCompletion SavedCountsSound AnswerCountsKnown
PROPERTIES CompletionSavesExactCounts
SYMMETRY Symmetry
