--------------------------- MODULE CourseStructure ---------------------------
(***************************************************************************)
(* The chapters of a course, the lessons of its chapters and the materials *)
(* of its lessons: course-structure.service.ts and course-structure.order.ts. *)
(*                                                                         *)
(* The order of siblings is a column of positions, unique within a parent. *)
(* A request that changes it locks the row of the course, reads the        *)
(* siblings, moves them one UPDATE at a time and commits; the unique       *)
(* constraint is checked at every UPDATE.  The structure itself is read    *)
(* without a lock, one level at a time.                                    *)
(*                                                                         *)
(* One course is modelled.  Titles, descriptions and bodies are left out:  *)
(* a request that changes nothing else is UpdateText.                      *)
(***************************************************************************)
EXTENDS Integers, FiniteSets

CONSTANTS
  Course,
  Chapters, Lessons, Materials,  \* identifiers of rows
  Clients,  \* requests for the structure that may be in progress together
  Holders,  \* whoever may hold the row lock of the course
  None

Items == Chapters \cup Lessons \cup Materials
Parents == {Course} \cup Chapters \cup Lessons

ASSUME StructureAssumption ==
  /\ IsFiniteSet(Items)
  /\ Clients \subseteq Holders
  /\ None \notin Parents \cup Items \cup Holders
  /\ Course \notin Items
  /\ Chapters \cap Lessons = {} /\ Lessons \cap Materials = {}
  /\ Chapters \cap Materials = {}

VARIABLES
  item,  \* committed rows of course_chapters, course_lessons, course_materials
  lock,  \* the transaction that holds the row of the course, or None
  tx     \* the request each client is working on

structure == <<item, tx>>

-----------------------------------------------------------------------------
(* Rows *)

Row == [parent: Parents, position: Int]

ASSUME NoItemAssumption == None \notin Row

Rows == [Items -> Row \cup {None}]

Kind(p) == CASE p \in Chapters -> Lessons
             [] p \in Lessons -> Materials
             [] OTHER -> Chapters

ChildrenIn(rows, p) == {i \in Items : rows[i] # None /\ rows[i].parent = p}

\* The unique index (parent, position) has an entry for another row.
Taken(rows, i, p, k) ==
  \E j \in ChildrenIn(rows, p) \ {i} : rows[j].position = k

\* The positions under p are 1 .. n, each used once.
Contiguous(rows, p) ==
  LET n == Cardinality(ChildrenIn(rows, p))
  IN \A k \in 1..n : \E i \in ChildrenIn(rows, p) : rows[i].position = k

\* A parent that can be named in a request: the course, or a row that exists.
IsParent(rows, p) == p # Course => rows[p] # None

-----------------------------------------------------------------------------
(* Transactions *)

Stages == {"idle", "locked", "park", "shift", "place", "commit", "failed",
           "lessons", "materials", "shown"}

\* rows: the rows as the transaction, or the reader, sees them.  todo: the
\* siblings still to be shifted by step.  item, parent, to: the row that the
\* request creates (item = None until it is inserted) or moves, and where to.
Tx == [stage: Stages, item: Items \cup {None}, parent: Parents \cup {None},
       rows: Rows, todo: SUBSET Items, step: {-1, 0, 1}, to: Int]

IdleTx == [stage |-> "idle", item |-> None, parent |-> None,
           rows |-> [i \in Items |-> None], todo |-> {}, step |-> 0, to |-> 0]

Stage(c) == tx[c].stage

\* The transaction of c ends and its lock is released.
End(c) ==
  /\ lock' = None
  /\ tx' = [tx EXCEPT ![c] = IdleTx]

\* Mutant of CourseFree: SELECT ... FOR UPDATE is left out.
NoLock(c) == TRUE

\* The row of the course is locked by no other transaction.
CourseFree(c) == lock = None

\* withLockedCourse: BEGIN; SELECT id FROM courses ... FOR UPDATE.
LockCourse(c) ==
  /\ Stage(c) = "idle"
  /\ CourseFree(c)
  /\ lock' = c
  /\ tx' = [tx EXCEPT ![c].stage = "locked"]
  /\ UNCHANGED item

\* Mutant of Rollback: the error is caught inside the transaction, which commits.
RollbackKeepsWrites(c) ==
  /\ Stage(c) \in {"locked", "park", "shift", "place", "commit", "failed"}
  /\ End(c)
  /\ item' = IF Stage(c) = "locked" THEN item ELSE tx[c].rows

\* 400 or 404 after the lock, a timeout of the transaction, or the unique
\* violation of a statement: everything is rolled back.
Rollback(c) ==
  /\ Stage(c) \in {"locked", "park", "shift", "place", "commit", "failed"}
  /\ End(c)
  /\ UNCHANGED item

-----------------------------------------------------------------------------
(* The order: course-structure.order.ts *)

\* assertInsertPosition: the positions that are accepted for a new child of n;
\* asked = 0 when the request names none.
InsertPosition(n, asked) ==
  IF asked = 0 THEN {n + 1} ELSE {asked} \cap 1..(n + 1)

\* assertMovePosition.
MovePosition(n, asked) == {asked} \cap 1..n

\* shiftForMove: the siblings between the old position and the new one.
ShiftedBy(rows, p, i, from, to) ==
  IF to > from
  THEN {j \in ChildrenIn(rows, p) \ {i} : rows[j].position \in (from + 1)..to}
  ELSE {j \in ChildrenIn(rows, p) \ {i} : rows[j].position \in to..(from - 1)}

\* Mutant of IsNext: the rows are shifted in ascending order, whichever way.
IsNextAscending(t, i) == \A j \in t.todo : t.rows[i].position <= t.rows[j].position

\* The order of the loop: descending when the rows move up, ascending when they
\* move down.
IsNext(t, i) ==
  \A j \in t.todo : IF t.step = 1
                    THEN t.rows[i].position >= t.rows[j].position
                    ELSE t.rows[i].position <= t.rows[j].position

\* One UPDATE of a position, or the error of the unique index.
Placed(t, i, k, next) ==
  IF Taken(t.rows, i, t.parent, k)
  THEN [t EXCEPT !.stage = "failed"]
  ELSE [t EXCEPT !.stage = next, !.todo = @ \ {i},
                 !.rows = [@ EXCEPT ![i] = [parent |-> t.parent, position |-> k]]]

Working(t) == IF t.todo = {} THEN "place" ELSE "shift"

-----------------------------------------------------------------------------
(* createChapter, createLesson, createMaterial *)

\* The parent exists; the siblings are read and the position is checked.
BeginCreate(c, p, asked) ==
  /\ Stage(c) = "locked"
  /\ IsParent(item, p)
  /\ \E k \in InsertPosition(Cardinality(ChildrenIn(item, p)), asked) :
       LET todo == {j \in ChildrenIn(item, p) : item[j].position >= k}
       IN tx' = [tx EXCEPT ![c] =
                   [@ EXCEPT !.stage = IF todo = {} THEN "place" ELSE "shift",
                             !.parent = p, !.rows = item,
                             !.todo = todo, !.step = 1, !.to = k]]
  /\ UNCHANGED <<item, lock>>

CreateChapter(c, asked) == BeginCreate(c, Course, asked)

CreateLesson(c, p, asked) == p \in Chapters /\ BeginCreate(c, p, asked)

CreateMaterial(c, p, asked) == p \in Lessons /\ BeginCreate(c, p, asked)

\* The INSERT.  The identifier is generated by the database.
InsertRow(c, i) ==
  /\ Stage(c) = "place" /\ tx[c].item = None
  /\ i \in Kind(tx[c].parent) /\ tx[c].rows[i] = None
  /\ tx' = [tx EXCEPT ![c] = Placed(@, i, tx[c].to, "commit")]
  /\ UNCHANGED <<item, lock>>

-----------------------------------------------------------------------------
(* updateChapter, updateLesson, updateMaterial *)

\* An update that names no other position writes no position.
UpdateText(c, i, asked) ==
  /\ Stage(c) = "locked"
  /\ item[i] # None /\ asked \in {0, item[i].position}
  /\ End(c)
  /\ UNCHANGED item

BeginMove(c, i, asked) ==
  /\ Stage(c) = "locked"
  /\ item[i] # None /\ asked # item[i].position
  /\ LET p == item[i].parent
     IN \E k \in MovePosition(Cardinality(ChildrenIn(item, p)), asked) :
          tx' = [tx EXCEPT ![c] =
                   [@ EXCEPT !.stage = "park", !.item = i, !.parent = p,
                             !.rows = item, !.to = k,
                             !.todo = ShiftedBy(item, p, i, item[i].position, k),
                             !.step = IF k > item[i].position THEN -1 ELSE 1]]
  /\ UNCHANGED <<item, lock>>

Update(c, i, asked) == UpdateText(c, i, asked) \/ BeginMove(c, i, asked)

UpdateChapter(c, i, asked) == i \in Chapters /\ Update(c, i, asked)

UpdateLesson(c, i, asked) == i \in Lessons /\ Update(c, i, asked)

UpdateMaterial(c, i, asked) == i \in Materials /\ Update(c, i, asked)

\* update(id, -from).
Park(c) ==
  LET t == tx[c] IN
  /\ t.stage = "park"
  /\ tx' = [tx EXCEPT ![c] = Placed(t, t.item, -t.rows[t.item].position, Working(t))]
  /\ UNCHANGED <<item, lock>>

\* Mutant of Shift: the update is sent outside the transaction.
ShiftOutsideTransaction(c, i) ==
  LET t == tx[c] IN
  /\ t.stage = "shift"
  /\ i \in t.todo /\ IsNext(t, i)
  /\ tx' = [tx EXCEPT ![c] = Placed(t, i, t.rows[i].position + t.step,
                                    Working([t EXCEPT !.todo = @ \ {i}]))]
  /\ item' = [item EXCEPT ![i].position = @ + t.step]
  /\ UNCHANGED lock

\* One turn of the loops of shiftForInsert and shiftForMove.
Shift(c, i) ==
  LET t == tx[c] IN
  /\ t.stage = "shift"
  /\ i \in t.todo /\ IsNext(t, i)
  /\ tx' = [tx EXCEPT ![c] = Placed(t, i, t.rows[i].position + t.step,
                                    Working([t EXCEPT !.todo = @ \ {i}]))]
  /\ UNCHANGED <<item, lock>>

\* Mutant of Place: the row is left where it was parked.
LeftParked(c) ==
  /\ Stage(c) = "place" /\ tx[c].item # None
  /\ tx' = [tx EXCEPT ![c].stage = "commit"]
  /\ UNCHANGED <<item, lock>>

\* The final UPDATE of the row itself.
Place(c) ==
  LET t == tx[c] IN
  /\ t.stage = "place" /\ t.item # None
  /\ tx' = [tx EXCEPT ![c] = Placed(t, t.item, t.to, "commit")]
  /\ UNCHANGED <<item, lock>>

Commit(c) ==
  /\ Stage(c) = "commit"
  /\ item' = tx[c].rows
  /\ End(c)

-----------------------------------------------------------------------------
(* getStructure: course, chapters, lessons and materials, one query each *)

\* The rows already read and the committed children in S of their parents.
Seen(rows, S) ==
  [i \in Items |-> IF i \in S /\ item[i] # None /\ IsParent(rows, item[i].parent)
                   THEN item[i] ELSE rows[i]]

ReadChapters(c) ==
  /\ Stage(c) = "idle"
  /\ tx' = [tx EXCEPT ![c].stage = "lessons", ![c].rows = Seen(@, Chapters)]
  /\ UNCHANGED <<item, lock>>

ReadLessons(c) ==
  /\ Stage(c) = "lessons"
  /\ tx' = [tx EXCEPT ![c].stage = "materials", ![c].rows = Seen(@, Lessons)]
  /\ UNCHANGED <<item, lock>>

ReadMaterials(c) ==
  /\ Stage(c) = "materials"
  /\ tx' = [tx EXCEPT ![c].stage = "shown", ![c].rows = Seen(@, Materials)]
  /\ UNCHANGED <<item, lock>>

Answer(c) ==
  /\ Stage(c) = "shown"
  /\ tx' = [tx EXCEPT ![c] = IdleTx]
  /\ UNCHANGED <<item, lock>>

-----------------------------------------------------------------------------
Init ==
  /\ item = [i \in Items |-> None]
  /\ lock = None
  /\ tx = [c \in Clients |-> IdleTx]

\* asked = 0 stands for a request without a position.
Asked == 0..(Cardinality(Items) + 1)

Edit(c) ==
  \/ LockCourse(c) \/ Rollback(c) \/ Park(c) \/ Place(c) \/ Commit(c)
  \/ \E i \in Items : InsertRow(c, i) \/ Shift(c, i)
  \/ \E k \in Asked :
       \/ CreateChapter(c, k)
       \/ \E p \in Parents : CreateLesson(c, p, k) \/ CreateMaterial(c, p, k)
       \/ \E i \in Items : UpdateChapter(c, i, k) \/ UpdateLesson(c, i, k)
                            \/ UpdateMaterial(c, i, k)

View(c) == ReadChapters(c) \/ ReadLessons(c) \/ ReadMaterials(c) \/ Answer(c)

Next == \E c \in Clients : Edit(c) \/ View(c)

Spec == Init /\ [][Next]_<<item, lock, tx>>

-----------------------------------------------------------------------------
(* Properties *)

\* No row is committed where the transaction has parked it.
TypeOK ==
  /\ item \in Rows
  /\ \A i \in Items : item[i] # None => item[i].position > 0
  /\ lock \in Holders \cup {None}
  /\ tx \in [Clients -> Tx]

\* Whatever the order of the UPDATEs, none of them meets the unique index on
\* (parent, position): no request to create or move a row answers 500 because
\* of a sibling it has not shifted yet (shiftForInsert, shiftForMove).
NoCollision == \A c \in Clients : Stage(c) # "failed"

\* Between transactions the positions under every parent are 1 .. n: the next
\* position of a new row and the range of a move are read off their number.
ListsContiguous == \A p \in Parents : Contiguous(item, p)

\* The structure that is answered lists the children of every parent it names
\* in one complete order, although its levels are read by separate queries that
\* other requests may change the course between (getStructure).
ShownInOrder ==
  \A c \in Clients : Stage(c) = "shown" =>
    \A p \in Parents : IsParent(tx[c].rows, p) => Contiguous(tx[c].rows, p)

-----------------------------------------------------------------------------
(* The order as a list *)

\* The children of p by position.
ListOf(rows, p) ==
  LET children == ChildrenIn(rows, p)
      rank(i) == Cardinality({j \in children : rows[j].position <= rows[i].position})
  IN [k \in 1..Cardinality(children) |-> CHOOSE i \in children : rank(i) = k]

Lists(rows) == [p \in Parents |-> ListOf(rows, p)]

\* A create or a change of position takes effect in one step, and moves no row
\* but the one it names relative to the others (course-structure.order.ts).
Ordered == INSTANCE OrderedList WITH Children <- Items, list <- Lists(item)
ImplementsOrderedList == Ordered!Spec
=============================================================================
